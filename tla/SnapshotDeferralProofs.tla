----------------------- MODULE SnapshotDeferralProofs -----------------------
(***************************************************************************)
(* The deferral counts are exact for any clients and Gateways and queues of *)
(* any length.                                                              *)
(***************************************************************************)
EXTENDS SnapshotDeferral, FiniteSetTheorems, SequenceTheorems, TLAPS

USE DeferralAssumption

\* What the tracker knows of a collection trails it by the undelivered events:
\* the last of them tells whether the key is still there.
Follows(name, queue, known, actual) ==
    \A k \in Key :
        IF name \notin registered THEN queue[k] = <<>> /\ k \notin known
        ELSE IF queue[k] = <<>> THEN k \in known <=> k \in actual
        ELSE queue[k][Len(queue[k])] # "delete" <=> k \in actual

ClientsFollow == Follows("clients", clientQueue, clients, connected)
SnapshotsFollow == Follows("snapshots", snapshotQueue, snapshots, rows)

IInv == TypeOK /\ CountsExact /\ ClientsFollow /\ SnapshotsFollow

LEMMA LackingFinite ==
  ASSUME TypeOK, NEW g
  PROVE  /\ IsFiniteSet(Lacking(clients, snapshots, g))
         /\ Cardinality(Lacking(clients, snapshots, g)) \in Nat
<1>1. Lacking(clients, snapshots, g) \subseteq Key
  BY DEF Lacking, TypeOK
<1>2. QED
  BY <1>1, FS_Subset, FS_CardinalityType

\* The tracked sets' difference, and the counts, stay.
LEMMA CountsSame ==
  ASSUME CountsExact, clients' \ snapshots' = clients \ snapshots, UNCHANGED <<deferred, gauge>>
  PROVE  CountsExact'
BY DEF CountsExact, Lacking

\* One more client lacks a row.
LEMMA CountsUp ==
  ASSUME TypeOK, CountsExact, NEW k \in Key, k \notin clients \ snapshots,
         clients' \ snapshots' = (clients \ snapshots) \cup {k}, adjust(k, 1)
  PROVE  CountsExact' /\ deferred' \in [Gateway -> Nat] /\ gauge' \in [Gateway -> Nat]
<1> DEFINE h == GatewayOf[k]
           n == IF deferred[h] + 1 <= 0 THEN 0 ELSE deferred[h] + 1
<1>1. h \in Gateway /\ deferred[h] \in Nat
  BY DEF TypeOK
<1>a. n = deferred[h] + 1
  BY <1>1
<1>b. deferred' = [deferred EXCEPT ![h] = n] /\ gauge' = [gauge EXCEPT ![h] = n]
  BY DEF adjust
<1>2. /\ deferred' = [deferred EXCEPT ![h] = deferred[h] + 1]
      /\ gauge' = [gauge EXCEPT ![h] = deferred[h] + 1]
  BY <1>a, <1>b
<1>3. deferred' \in [Gateway -> Nat] /\ gauge' \in [Gateway -> Nat]
  BY <1>1, <1>2 DEF TypeOK
<1>4. ASSUME NEW g \in Gateway
      PROVE  deferred'[g] = Cardinality(Lacking(clients', snapshots', g)) /\ gauge'[g] = deferred'[g]
  <2>1. CASE g = h
    <3>1. Lacking(clients', snapshots', g) = Lacking(clients, snapshots, g) \cup {k}
      BY <2>1 DEF Lacking
    <3>2. k \notin Lacking(clients, snapshots, g)
      BY DEF Lacking
    <3>3. Cardinality(Lacking(clients', snapshots', g)) = Cardinality(Lacking(clients, snapshots, g)) + 1
      BY <3>1, <3>2, LackingFinite, FS_AddElement
    <3>4. QED
      BY <1>1, <1>2, <2>1, <3>3 DEF CountsExact, TypeOK
  <2>2. CASE g # h
    <3>1. Lacking(clients', snapshots', g) = Lacking(clients, snapshots, g)
      BY <2>2 DEF Lacking
    <3>2. QED
      BY <1>1, <1>2, <2>2, <3>1 DEF CountsExact, TypeOK
  <2>3. QED
    BY <2>1, <2>2
<1>5. QED
  BY <1>3, <1>4 DEF CountsExact

\* One client fewer lacks a row; the count was not zero, so nothing is clamped.
LEMMA CountsDown ==
  ASSUME TypeOK, CountsExact, NEW k \in Key, k \in clients \ snapshots,
         clients' \ snapshots' = (clients \ snapshots) \ {k}, adjust(k, -1)
  PROVE  CountsExact' /\ deferred' \in [Gateway -> Nat] /\ gauge' \in [Gateway -> Nat]
<1> DEFINE h == GatewayOf[k]
           n == IF deferred[h] + (-1) <= 0 THEN 0 ELSE deferred[h] + (-1)
<1>1. h \in Gateway /\ deferred[h] \in Nat
  BY DEF TypeOK
<1>2. deferred' = [deferred EXCEPT ![h] = n] /\ gauge' = [gauge EXCEPT ![h] = n]
  BY DEF adjust
<1>3. n \in Nat
  BY <1>1
<1>4. deferred' \in [Gateway -> Nat] /\ gauge' \in [Gateway -> Nat]
  BY <1>1, <1>2, <1>3 DEF TypeOK
<1>5. ASSUME NEW g \in Gateway
      PROVE  deferred'[g] = Cardinality(Lacking(clients', snapshots', g)) /\ gauge'[g] = deferred'[g]
  <2>1. CASE g = h
    <3>1. Lacking(clients', snapshots', g) = Lacking(clients, snapshots, g) \ {k}
      BY <2>1 DEF Lacking
    <3>2. k \in Lacking(clients, snapshots, g)
      BY <2>1 DEF Lacking
    <3>3. Cardinality(Lacking(clients', snapshots', g)) = Cardinality(Lacking(clients, snapshots, g)) - 1
      <4>1. IsFiniteSet(Lacking(clients, snapshots, g))
        BY LackingFinite
      <4>2. Cardinality(Lacking(clients, snapshots, g) \ {k}) = Cardinality(Lacking(clients, snapshots, g)) - 1
        BY ZenonT(30), <3>2, <4>1, FS_RemoveElement
      <4>3. QED
        BY <3>1, <4>2
    <3>4. Cardinality(Lacking(clients, snapshots, g)) # 0
      BY <3>2, LackingFinite, FS_EmptySet
    <3>5. n = deferred[h] - 1
      BY <1>1, <2>1, <3>4 DEF CountsExact
    <3>6. deferred'[g] = n /\ gauge'[g] = n
      BY <1>1, <1>2, <2>1 DEF TypeOK
    <3>7. QED
      BY <2>1, <3>3, <3>5, <3>6 DEF CountsExact
  <2>2. CASE g # h
    <3>1. Lacking(clients', snapshots', g) = Lacking(clients, snapshots, g)
      BY <2>2 DEF Lacking
    <3>2. deferred'[g] = deferred[g] /\ gauge'[g] = gauge[g]
      BY <1>2, <2>2 DEF TypeOK
    <3>3. QED
      BY <3>1, <3>2 DEF CountsExact
  <2>3. QED
    BY <2>1, <2>2
<1>6. QED
  BY <1>4, <1>5 DEF CountsExact

-----------------------------------------------------------------------------
LEMMA InitInv == Init => IInv
<1> SUFFICES ASSUME Init PROVE IInv
  OBVIOUS
<1>1. TypeOK
  BY DEF Init, TypeOK
<1>2. ASSUME NEW g \in Gateway
      PROVE  deferred[g] = Cardinality(Lacking(clients, snapshots, g)) /\ gauge[g] = deferred[g]
  <2>1. Lacking(clients, snapshots, g) = {}
    BY DEF Init, Lacking
  <2>2. QED
    BY <2>1, FS_EmptySet DEF Init
<1>3. ClientsFollow /\ SnapshotsFollow
  BY DEF Init, ClientsFollow, SnapshotsFollow, Follows
<1>4. QED
  BY <1>1, <1>2, <1>3 DEF IInv, CountsExact

\* An event joins the queue of a subscriber.
LEMMA FollowsSend ==
  ASSUME NEW name, NEW queue \in [Key -> Seq(Event)], NEW known, NEW actual, NEW k \in Key,
         NEW kind \in Event, Follows(name, queue, known, actual),
         UNCHANGED registered
  PROVE  LET q == Sends(queue, k, kind, name)
             now == IF kind = "delete" THEN actual \ {k} ELSE actual \cup {k}
         IN  /\ q \in [Key -> Seq(Event)]
             /\ Follows(name, q, known, now)
<1> DEFINE q == Sends(queue, k, kind, name)
           now == IF kind = "delete" THEN actual \ {k} ELSE actual \cup {k}
<1>1. q \in [Key -> Seq(Event)]
  BY DEF Sends
<1>2. ASSUME NEW j \in Key, name \in registered
      PROVE IF q[j] = <<>> THEN j \in known <=> j \in now
            ELSE q[j][Len(q[j])] # "delete" <=> j \in now
  <2>1. CASE j = k
    <3>1. q[j] = Append(queue[k], kind)
      BY <1>2, <2>1 DEF Sends
    <3>2. q[j] # <<>> /\ q[j][Len(q[j])] = kind
      <4> HIDE DEF q
      <4>1. queue[k] \in Seq(Event)
        OBVIOUS
      <4>2. Len(q[j]) = Len(queue[k]) + 1 /\ q[j][Len(queue[k]) + 1] = kind
        BY <3>1, <4>1
      <4>3. QED
        BY SMTT(30), <3>1, <4>1, <4>2
    <3>3. QED
      BY <2>1, <3>2 DEF Event
  <2>2. CASE j # k
    <3>1. q[j] = queue[j]
      BY <2>2 DEF Sends
    <3>2. j \in now <=> j \in actual
      BY <2>2
    <3>3. QED
      BY <1>2, <3>1, <3>2 DEF Follows
  <2>3. QED
    BY <2>1, <2>2
<1>3. ASSUME NEW j \in Key, name \notin registered
      PROVE q[j] = <<>> /\ j \notin known
  BY <1>3 DEF Sends, Follows
<1>4. QED
  BY <1>1, <1>2, <1>3 DEF Follows

\* The last element of a sequence is that of its tail, or its head.
LEMMA LastOfTail ==
  ASSUME NEW s \in Seq(Event), s # <<>>
  PROVE  /\ Tail(s) = <<>> => Head(s) = s[Len(s)]
         /\ Tail(s) # <<>> => Tail(s)[Len(Tail(s))] = s[Len(s)]
<1> DEFINE t == Tail(s)
<1>1. /\ Head(s) = s[1] /\ t \in Seq(Event) /\ Len(t) = Len(s) - 1
      /\ \A i \in 1..Len(t) : t[i] = s[i + 1]
  BY HeadTailProperties
<1>2. Len(s) \in Nat /\ Len(t) \in Nat
  BY <1>1
<1> HIDE DEF t
<1>3. ASSUME t = <<>> PROVE s[1] = s[Len(s)]
  <2>1. Len(t) = 0
    BY <1>3
  <2>2. Len(t) = Len(s) - 1
    BY <1>1
  <2>3. Len(s) = 1
    BY <1>2, <2>1, <2>2
  <2>4. QED
    BY <2>3
<1>4. ASSUME t # <<>> PROVE t[Len(t)] = s[Len(s)]
  <2>1. Len(t) # 0
    BY ZenonT(30), <1>1, <1>4, EmptySeq
  <2>2. Len(t) \in 1..Len(t) /\ Len(t) + 1 = Len(s)
    BY <1>1, <1>2, <2>1
  <2>3. QED
    BY <1>1, <2>2
<1>5. QED
  BY <1>1, <1>3, <1>4 DEF t

\* A delivered event leaves the queue.
LEMMA FollowsDeliver ==
  ASSUME NEW name, NEW queue \in [Key -> Seq(Event)], NEW known, NEW actual, NEW k \in Key,
         queue[k] # <<>>, Follows(name, queue, known, actual)
  PROVE  LET q == [queue EXCEPT ![k] = Tail(@)]
             now == IF Head(queue[k]) = "delete" THEN known \ {k} ELSE known \cup {k}
         IN  /\ q \in [Key -> Seq(Event)]
             /\ Follows(name, q, now, actual)
<1> DEFINE q == [queue EXCEPT ![k] = Tail(@)]
           now == IF Head(queue[k]) = "delete" THEN known \ {k} ELSE known \cup {k}
<1>0. queue[k] \in Seq(Event) /\ Len(queue[k]) \in Nat /\ Len(queue[k]) # 0
  OBVIOUS
<1>1. q \in [Key -> Seq(Event)]
  BY <1>0
<1>2. name \in registered
  BY DEF Follows
<1>3. ASSUME NEW j \in Key
      PROVE IF q[j] = <<>> THEN j \in now <=> j \in actual
            ELSE q[j][Len(q[j])] # "delete" <=> j \in actual
  <2>1. CASE j = k
    <3>1. q[j] = Tail(queue[k])
      BY <2>1
    <3>2. queue[k][Len(queue[k])] # "delete" <=> k \in actual
      BY <1>2 DEF Follows
    <3>3. CASE q[j] = <<>>
      <4>2. Head(queue[k]) = queue[k][Len(queue[k])]
        BY <1>0, <3>1, <3>3, LastOfTail
      <4>3. QED
        BY <2>1, <3>2, <3>3, <4>2
    <3>4. CASE q[j] # <<>>
      <4>1. q[j][Len(q[j])] = queue[k][Len(queue[k])]
        BY ZenonT(30), <1>0, <3>1, <3>4, LastOfTail
      <4>2. QED
        BY <2>1, <3>2, <3>4, <4>1
    <3>5. QED
      BY <3>3, <3>4
  <2>2. CASE j # k
    <3>1. q[j] = queue[j] /\ (j \in now <=> j \in known)
      BY <2>2
    <3>2. QED
      BY <1>2, <3>1 DEF Follows
  <2>3. QED
    BY <2>1, <2>2
<1>4. QED
  BY <1>1, <1>2, <1>3 DEF Follows

LEMMA StepInv == IInv /\ [Next]_vars => IInv'
<1> SUFFICES ASSUME IInv, [Next]_vars PROVE IInv'
  OBVIOUS
<1>0. TypeOK /\ CountsExact /\ ClientsFollow /\ SnapshotsFollow
  BY DEF IInv
<1>1. ASSUME NEW k \in Key, NEW kind \in Event, ClientChanges(k, kind) PROVE IInv'
  <2>1. clientQueue' \in [Key -> Seq(Event)] /\ ClientsFollow'
    <3>1. clientQueue \in [Key -> Seq(Event)] /\ Follows("clients", clientQueue, clients, connected)
      BY <1>0 DEF ClientsFollow, TypeOK
    <3>2. clientQueue' \in [Key -> Seq(Event)] /\ Follows("clients", clientQueue', clients, connected')
      BY ZenonT(30), <3>1, <1>1, FollowsSend DEF ClientChanges
    <3>3. QED
      BY <3>2, <1>1 DEF ClientChanges, tracker, ClientsFollow, Follows
  <2>2. TypeOK'
    BY <1>0, <1>1, <2>1 DEF ClientChanges, TypeOK, tracker
  <2>3. CountsExact'
    BY <1>0, <1>1, CountsSame DEF ClientChanges, tracker
  <2>4. SnapshotsFollow'
    BY <1>0, <1>1 DEF ClientChanges, tracker, SnapshotsFollow, Follows
  <2>5. QED
    BY <2>1, <2>2, <2>3, <2>4 DEF IInv
<1>2. ASSUME NEW k \in Key, NEW kind \in Event, RowChanges(k, kind) PROVE IInv'
  <2>1. snapshotQueue' \in [Key -> Seq(Event)] /\ SnapshotsFollow'
    <3>1. snapshotQueue \in [Key -> Seq(Event)] /\ Follows("snapshots", snapshotQueue, snapshots, rows)
      BY <1>0 DEF SnapshotsFollow, TypeOK
    <3>2. snapshotQueue' \in [Key -> Seq(Event)] /\ Follows("snapshots", snapshotQueue', snapshots, rows')
      BY <3>1, <1>2, FollowsSend DEF RowChanges
    <3>3. QED
      BY <3>2, <1>2 DEF RowChanges, tracker, SnapshotsFollow, Follows
  <2>2. TypeOK'
    BY <1>0, <1>2, <2>1 DEF RowChanges, TypeOK, tracker
  <2>3. CountsExact'
    BY <1>0, <1>2, CountsSame DEF RowChanges, tracker
  <2>4. ClientsFollow'
    BY <1>0, <1>2 DEF RowChanges, tracker, ClientsFollow, Follows
  <2>5. QED
    BY <2>1, <2>2, <2>3, <2>4 DEF IInv
<1>3. ASSUME registerClients PROVE IInv'
  <2>1. TypeOK'
    <3>1. <<"add">> \in Seq(Event) /\ <<>> \in Seq(Event)
      BY DEF Event
    <3>2. clientQueue' \in [Key -> Seq(Event)]
      BY <3>1, <1>3 DEF registerClients
    <3>3. QED
      BY <1>0, <1>3, <3>2 DEF registerClients, TypeOK, tracker
  <2>2. CountsExact'
    BY <1>0, <1>3, CountsSame DEF registerClients, tracker
  <2>3. ClientsFollow'
    BY <1>0, <1>3 DEF registerClients, tracker, ClientsFollow, Follows
  <2>4. SnapshotsFollow'
    BY ZenonT(30), <1>0, <1>3 DEF registerClients, tracker, SnapshotsFollow, Follows
  <2>5. QED
    BY <2>1, <2>2, <2>3, <2>4 DEF IInv
<1>4. ASSUME registerSnapshots PROVE IInv'
  <2>1. TypeOK'
    <3>1. <<"add">> \in Seq(Event) /\ <<>> \in Seq(Event)
      BY DEF Event
    <3>2. snapshotQueue' \in [Key -> Seq(Event)]
      BY <3>1, <1>4 DEF registerSnapshots
    <3>3. QED
      BY <1>0, <1>4, <3>2 DEF registerSnapshots, TypeOK, tracker
  <2>2. CountsExact'
    BY <1>0, <1>4, CountsSame DEF registerSnapshots, tracker
  <2>3. ClientsFollow'
    BY <1>0, <1>4 DEF registerSnapshots, tracker, ClientsFollow, Follows
  <2>4. SnapshotsFollow'
    BY <1>0, <1>4 DEF registerSnapshots, tracker, SnapshotsFollow, Follows
  <2>5. QED
    BY <2>1, <2>2, <2>3, <2>4 DEF IInv
<1>5. ASSUME NEW k \in Key, clientEvents(k) PROVE IInv'
  <2> DEFINE delete == Head(clientQueue[k]) = "delete"
  <2>1. clientQueue' \in [Key -> Seq(Event)] /\ ClientsFollow'
    <3>1. clientQueue \in [Key -> Seq(Event)] /\ Follows("clients", clientQueue, clients, connected)
      BY <1>0 DEF ClientsFollow, TypeOK
    <3>2. clientQueue' \in [Key -> Seq(Event)] /\ Follows("clients", clientQueue', clients', connected)
      BY <3>1, <1>5, FollowsDeliver DEF clientEvents
    <3>3. QED
      BY ZenonT(30), <3>2, <1>5 DEF clientEvents, ClientsFollow, Follows
  <2>2. SnapshotsFollow'
    BY <1>0, <1>5 DEF clientEvents, SnapshotsFollow, Follows
  <2>3. clients' = (IF delete THEN clients \ {k} ELSE clients \cup {k}) /\ snapshots' = snapshots
    BY <1>5 DEF clientEvents
  <2>4. CountsExact' /\ deferred' \in [Gateway -> Nat] /\ gauge' \in [Gateway -> Nat]
    <3>1. CASE k \in snapshots
      <4>1. UNCHANGED <<deferred, gauge>>
        BY <1>5, <3>1 DEF clientEvents
      <4>2. QED
        BY <1>0, <2>3, <3>1, <4>1, CountsSame DEF TypeOK
    <3>2. CASE k \notin snapshots /\ k \in clients /\ ~delete
      <4>1. UNCHANGED <<deferred, gauge>>
        BY <1>5, <3>2 DEF clientEvents
      <4>2. QED
        BY <1>0, <2>3, <3>2, <4>1, CountsSame DEF TypeOK
    <3>3. CASE k \notin snapshots /\ k \notin clients /\ delete
      <4>1. UNCHANGED <<deferred, gauge>>
        BY <1>5, <3>3 DEF clientEvents
      <4>2. QED
        BY ZenonT(30), <1>0, <2>3, <3>3, <4>1, CountsSame DEF TypeOK
    <3>4. CASE k \notin snapshots /\ k \in clients /\ delete
      <4>1. adjust(k, -1)
        BY <1>5, <3>4 DEF clientEvents
      <4>2. clients' \ snapshots' = (clients \ snapshots) \ {k}
        BY <2>3, <3>4
      <4>3. QED
        BY ZenonT(30), <1>0, <3>4, <4>1, <4>2, CountsDown
    <3>5. CASE k \notin snapshots /\ k \notin clients /\ ~delete
      <4>1. adjust(k, 1)
        BY <1>5, <3>5 DEF clientEvents
      <4>2. clients' \ snapshots' = (clients \ snapshots) \cup {k}
        BY ZenonT(30), <2>3, <3>5
      <4>3. QED
        BY ZenonT(30), <1>0, <3>5, <4>1, <4>2, CountsUp
    <3>6. QED
      BY <3>1, <3>2, <3>3, <3>4, <3>5
  <2>5. TypeOK'
    BY ZenonT(30), <1>0, <1>5, <2>1, <2>3, <2>4 DEF clientEvents, TypeOK
  <2>6. QED
    BY ZenonT(30), <2>1, <2>2, <2>4, <2>5 DEF IInv
<1>6. ASSUME NEW k \in Key, snapshotEvents(k) PROVE IInv'
  <2> DEFINE delete == Head(snapshotQueue[k]) = "delete"
  <2>1. snapshotQueue' \in [Key -> Seq(Event)] /\ SnapshotsFollow'
    <3>1. snapshotQueue \in [Key -> Seq(Event)] /\ Follows("snapshots", snapshotQueue, snapshots, rows)
      BY ZenonT(30), <1>0 DEF SnapshotsFollow, TypeOK
    <3>2. snapshotQueue' \in [Key -> Seq(Event)] /\ Follows("snapshots", snapshotQueue', snapshots', rows)
      BY <3>1, <1>6, FollowsDeliver DEF snapshotEvents
    <3>3. QED
      BY <3>2, <1>6 DEF snapshotEvents, SnapshotsFollow, Follows
  <2>2. ClientsFollow'
    BY <1>0, <1>6 DEF snapshotEvents, ClientsFollow, Follows
  <2>3. snapshots' = (IF delete THEN snapshots \ {k} ELSE snapshots \cup {k}) /\ clients' = clients
    BY <1>6 DEF snapshotEvents
  <2>4. CountsExact' /\ deferred' \in [Gateway -> Nat] /\ gauge' \in [Gateway -> Nat]
    <3>1. CASE k \notin clients
      <4>1. UNCHANGED <<deferred, gauge>>
        BY <1>6, <3>1 DEF snapshotEvents
      <4>2. QED
        BY <1>0, <2>3, <3>1, <4>1, CountsSame DEF TypeOK
    <3>2. CASE k \in clients /\ k \in snapshots /\ ~delete
      <4>1. UNCHANGED <<deferred, gauge>>
        BY <1>6, <3>2 DEF snapshotEvents
      <4>2. QED
        BY ZenonT(30), <1>0, <2>3, <3>2, <4>1, CountsSame DEF TypeOK
    <3>3. CASE k \in clients /\ k \notin snapshots /\ delete
      <4>1. UNCHANGED <<deferred, gauge>>
        BY <1>6, <3>3 DEF snapshotEvents
      <4>2. QED
        BY ZenonT(30), <1>0, <2>3, <3>3, <4>1, CountsSame DEF TypeOK
    <3>4. CASE k \in clients /\ k \in snapshots /\ delete
      <4>1. adjust(k, 1)
        BY <1>6, <3>4 DEF snapshotEvents
      <4>2. clients' \ snapshots' = (clients \ snapshots) \cup {k}
        BY <2>3, <3>4
      <4>3. QED
        BY ZenonT(30), <1>0, <3>4, <4>1, <4>2, CountsUp
    <3>5. CASE k \in clients /\ k \notin snapshots /\ ~delete
      <4>1. adjust(k, -1)
        BY <1>6, <3>5 DEF snapshotEvents
      <4>2. clients' \ snapshots' = (clients \ snapshots) \ {k}
        BY <2>3, <3>5
      <4>3. QED
        BY ZenonT(30), <1>0, <3>5, <4>1, <4>2, CountsDown
    <3>6. QED
      BY <3>1, <3>2, <3>3, <3>4, <3>5
  <2>5. TypeOK'
    BY ZenonT(30), <1>0, <1>6, <2>1, <2>3, <2>4 DEF snapshotEvents, TypeOK
  <2>6. QED
    BY ZenonT(30), <2>1, <2>2, <2>4, <2>5 DEF IInv
<1>7. ASSUME UNCHANGED vars PROVE IInv'
  BY <1>0, <1>7 DEF vars, IInv, TypeOK, CountsExact, ClientsFollow, SnapshotsFollow, Follows,
       Lacking
<1>8. QED
  BY ZenonT(30), <1>1, <1>2, <1>3, <1>4, <1>5, <1>6, <1>7 DEF Next

-----------------------------------------------------------------------------
\* The tracker's maps and counts keep their types: no count is ever negative.
THEOREM DeferralTypeOK == Spec => []TypeOK
<1>1. IInv => TypeOK
  BY DEF IInv
<1>2. QED
  BY <1>1, InitInv, StepInv, PTL DEF Spec

\* adjust keeps every count, and the gauge, at the number of known clients
\* without a row, for any interleaving of clientEvents and snapshotEvents.
THEOREM DeferralCountsExact == Spec => []CountsExact
<1>1. IInv => CountsExact
  BY ZenonT(30) DEF IInv
<1>2. QED
  BY <1>1, InitInv, StepInv, PTL DEF Spec

\* With every event delivered, the gauge is the number of connected clients
\* that have no snapshot row.
THEOREM DeferralSettledExact == Spec => []SettledExact
<1>1. IInv => SettledExact
  <2> SUFFICES ASSUME IInv, registered = {"clients", "snapshots"},
                      \A k \in Key : clientQueue[k] = <<>> /\ snapshotQueue[k] = <<>>,
                      NEW g \in Gateway
               PROVE  gauge[g] = Cardinality(Lacking(connected, rows, g))
    BY DEF SettledExact
  <2>1. clients = connected /\ snapshots = rows
    BY ZenonT(30) DEF IInv, TypeOK, ClientsFollow, SnapshotsFollow, Follows
  <2>2. QED
    BY <2>1 DEF IInv, CountsExact
<1>2. QED
  BY <1>1, InitInv, StepInv, PTL DEF Spec
=============================================================================
