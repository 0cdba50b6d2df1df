------------------------ MODULE UniqueClientsProofs ------------------------
(***************************************************************************)
(* The reference counts, the absence of leaks and the freshness of the      *)
(* published collection, for any number of streams, roles and pods.         *)
(***************************************************************************)
EXTENDS UniqueClients, FiniteSetTheorems, TLAPS

Members(n) == {s \in Stream : clients[s] = n}

Counted ==
    \A n \in Name : count[n] = Cardinality(Members(n)) /\ (n \in uniq <=> count[n] # 0)

\* Where the callback of a stream is determines what it holds.
Progress ==
    \A s \in Stream :
        /\ pc[s] = "publish" => clients[s] = NoName /\ derived[s] \in Name /\ s \notin known
        /\ pc[s] \in {"observe", "confirmed", "joined"} => clients[s] \in Name
        /\ pc[s] \in {"closed", "released"} => clients[s] = NoName /\ s \notin known \cup peers
        /\ pc[s] \in {"closed", "idle", "failed", "released"} => derived[s] = NoName
        /\ clients[s] = NoName => s \notin known
        /\ XdsAuth /\ pc[s] \notin {"closed", "released"} => s \in peers
        /\ ~built => clients[s] = NoName /\ pc[s] \in {"closed", "idle", "failed"}

\* The role that a first request derives the identity from is the proxy's own.
Roles ==
    \A s \in Stream :
        /\ pc[s] = "idle" /\ clients[s] = NoName => nodeRole[s] = RoleOf[s]
        /\ ~UsePods => clients[s] \in {NoName, RoleOf[s]}
        /\ ~UsePods /\ pc[s] = "publish" => derived[s] = RoleOf[s]

IInv == TypeOK /\ Counted /\ Progress /\ Roles /\ CollectionFresh

USE ClientsAssumption DEF Location

LEMMA MembersFinite == ASSUME NEW n PROVE IsFiniteSet(Members(n)) /\ Cardinality(Members(n)) \in Nat
<1>1. Members(n) \subseteq Stream
  BY DEF Members
<1>2. QED
  BY <1>1, FS_Subset, FS_CardinalityType

\* Nothing in the counted maps changes.
LEMMA SameCounts ==
  ASSUME Counted, UNCHANGED <<clients, count, uniq>>
  PROVE  Counted'
BY DEF Counted, Members

LEMMA InitInv == Init => IInv
<1> SUFFICES ASSUME Init PROVE IInv
  OBVIOUS
<1>1. TypeOK
  <2>1. pod \in [Stream -> PodState \cup {NoPod}] /\ nodeRole \in [Stream -> Name]
    BY DEF Init, Name
  <2>2. clients \in [Stream -> Name \cup {NoName}] /\ derived \in [Stream -> Name \cup {NoName}]
    BY DEF Init
  <2>3. count \in [Name -> Nat] /\ pc \in [Stream -> Location]
    BY DEF Init
  <2>4. DOMAIN col \subseteq Name
    BY DEF Init
  <2>5. QED
    BY ZenonT(30), <2>1, <2>2, <2>3, <2>4 DEF Init, TypeOK
<1>2. Counted
  <2> SUFFICES ASSUME NEW n \in Name
               PROVE  count[n] = Cardinality(Members(n)) /\ (n \in uniq <=> count[n] # 0)
    BY DEF Counted
  <2>1. Members(n) = {}
    BY DEF Init, Members
  <2>2. Cardinality(Members(n)) = 0
    BY <2>1, FS_EmptySet
  <2>3. QED
    BY <2>2 DEF Init
<1>3. Progress /\ Roles
  BY DEF Init, Progress, Roles
<1>4. CollectionFresh
  <2>1. uniq = {} /\ col = [n \in {} |-> FALSE]
    BY DEF Init
  <2>2. QED
    BY <2>1 DEF CollectionFresh, getClients
<1>5. QED
  BY <1>1, <1>2, <1>3, <1>4 DEF IInv

LEMMA PublishInv == ASSUME IInv, NEW s \in Stream, publish(s) PROVE IInv'
<1> USE DEF IInv
<1> DEFINE d == derived[s]
<1>1. /\ d \in Name /\ d # NoName /\ clients[s] = NoName
      /\ clients' = [clients EXCEPT ![s] = d]
      /\ count' = [count EXCEPT ![d] = @ + 1]
      /\ count[d] \in Nat
  BY DEF publish, At, Progress, TypeOK
<1>2. TypeOK'
  BY <1>1 DEF TypeOK, publish, At, world
<1>3. Counted'
  <2> SUFFICES ASSUME NEW n \in Name
               PROVE  count'[n] = Cardinality(Members(n)') /\ (n \in uniq' <=> count'[n] # 0)
    BY DEF Counted
  <2>1. CASE n = d
    <3>1. Members(n)' = Members(n) \cup {s} /\ s \notin Members(n)
      BY <1>1, <2>1 DEF Members, TypeOK
    <3>2. Cardinality(Members(n)') = Cardinality(Members(n)) + 1
      BY ZenonT(30), <3>1, MembersFinite, FS_AddElement
    <3>3. count'[n] = count[n] + 1 /\ count[n] = Cardinality(Members(n))
      BY <1>1, <2>1 DEF TypeOK, Counted
    <3>4. n \in uniq'
      BY <2>1 DEF publish, Counted
    <3>5. QED
      BY <1>1, <2>1, <3>2, <3>3, <3>4
  <2>2. CASE n # d
    <3>1. Members(n)' = Members(n)
      BY <1>1, <2>2 DEF Members, TypeOK
    <3>2. count'[n] = count[n] /\ (n \in uniq' <=> n \in uniq)
      BY <1>1, <2>2 DEF TypeOK, publish
    <3>3. QED
      BY <3>1, <3>2 DEF Counted
  <2>3. QED
    BY <2>1, <2>2
<1>4. Progress' /\ Roles'
  BY <1>1 DEF Progress, Roles, TypeOK, publish, At, world
<1>5. CollectionFresh'
  <2>1. WillTrigger(s)'
    BY <1>1 DEF WillTrigger, publish, At, TypeOK
  <2>2. QED
    BY <2>1 DEF CollectionFresh
<1>6. QED
  BY <1>2, <1>3, <1>4, <1>5

LEMMA ClosedInv == ASSUME IInv, NEW s \in Stream, OnStreamClosed(s) PROVE IInv'
<1> USE DEF IInv
<1>1. CASE ~built
  <2>1. UNCHANGED <<clients, count, uniq, known, built, triggered, col, pod, nodeRole>>
    BY <1>1 DEF OnStreamClosed, maps, world
  <2>2. TypeOK'
    BY <1>1, <2>1 DEF TypeOK, OnStreamClosed
  <2>3. Progress' /\ Roles'
    BY <1>1, <2>1 DEF Progress, Roles, TypeOK, OnStreamClosed
  <2>4. CollectionFresh'
    BY <1>1, <2>1 DEF CollectionFresh, WillTrigger, getClients, Progress, OnStreamClosed, TypeOK
  <2>5. QED
    BY <2>1, <2>2, <2>3, <2>4, SameCounts
<1>2. CASE built
  <2>1. /\ pc' = [pc EXCEPT ![s] = "released"]
        /\ clients' = [clients EXCEPT ![s] = NoName]
        /\ known' = known \ {s} /\ peers' = peers \ {s}
        /\ derived' = [derived EXCEPT ![s] = NoName]
        /\ UNCHANGED <<world, nodeRole, triggered, col>>
    BY <1>2 DEF OnStreamClosed, del
  <2>2. Progress' /\ Roles'
    BY <1>2, <2>1 DEF Progress, Roles, TypeOK, world
  <2>3. CollectionFresh'
    BY <2>1 DEF CollectionFresh, WillTrigger, TypeOK
  <2>4. CASE clients[s] = NoName
    <3>1. UNCHANGED <<clients, count, uniq>>
      BY <1>2, <2>1, <2>4 DEF OnStreamClosed, del, TypeOK
    <3>2. TypeOK'
      BY <2>1, <3>1 DEF TypeOK, world
    <3>3. QED
      BY <2>2, <2>3, <3>1, <3>2, SameCounts
  <2>5. CASE clients[s] # NoName
    <3> DEFINE c == clients[s]
    <3>1. c \in Name /\ count[c] \in Nat /\ s \in Members(c)
      BY <2>5 DEF TypeOK, Members
    <3>2. count[c] = Cardinality(Members(c)) /\ count[c] # 0
      <4>1. Members(c) # {} /\ IsFiniteSet(Members(c))
        BY <3>1, MembersFinite
      <4>2. Cardinality(Members(c)) # 0
        BY <4>1, FS_EmptySet
      <4>3. QED
        BY <3>1, <4>2 DEF Counted
    <3>3. /\ count' = [count EXCEPT ![c] = @ - 1]
          /\ uniq' = IF count[c] = 1 THEN uniq \ {c} ELSE uniq
      BY <1>2, <2>5 DEF OnStreamClosed, del
    <3>4. count' \in [Name -> Nat]
      BY SMTT(30), <3>1, <3>2, <3>3 DEF TypeOK
    <3>5. TypeOK'
      BY ZenonT(30), <2>1, <3>3, <3>4 DEF TypeOK, world
    <3>6. Counted'
      <4> SUFFICES ASSUME NEW n \in Name
                   PROVE  count'[n] = Cardinality(Members(n)') /\ (n \in uniq' <=> count'[n] # 0)
        BY DEF Counted
      <4>1. CASE n = c
        <5>1. Members(n)' = Members(n) \ {s}
          BY <2>1, <4>1, <2>5 DEF Members, TypeOK
        <5>2. Cardinality(Members(n)') = Cardinality(Members(n)) - 1
          BY ZenonT(30), <3>1, <4>1, <5>1, MembersFinite, FS_RemoveElement
        <5>3. count'[n] = count[n] - 1 /\ count[n] \in Nat \ {0}
          BY <3>1, <3>2, <3>3, <4>1 DEF TypeOK
        <5>4. n \in uniq' <=> count[n] # 1
          BY <3>2, <3>3, <4>1 DEF Counted
        <5>5. QED
          BY <3>2, <4>1, <5>2, <5>3, <5>4
      <4>2. CASE n # c
        <5>1. Members(n)' = Members(n)
          BY <2>1, <4>2 DEF Members, TypeOK
        <5>2. count'[n] = count[n] /\ (n \in uniq' <=> n \in uniq)
          BY <3>3, <4>2 DEF TypeOK
        <5>3. QED
          BY <5>1, <5>2 DEF Counted
      <4>3. QED
        BY <4>1, <4>2
    <3>7. QED
      BY <2>2, <2>3, <3>5, <3>6
  <2>6. QED
    BY <2>4, <2>5
<1>3. QED
  BY <1>1, <1>2 DEF TypeOK

LEMMA BuildInv == ASSUME IInv, buildCollection PROVE IInv'
<1> USE DEF IInv
<1>1. TypeOK' /\ Progress' /\ Roles'
  BY DEF buildCollection, maps, TypeOK, Progress, Roles
<1>2. CollectionFresh'
  BY DEF buildCollection, maps, CollectionFresh, WillTrigger, getClients
<1>3. QED
  BY <1>1, <1>2, SameCounts DEF buildCollection, maps

\* The actions of a stream that leave the counted maps alone.
LEMMA QuietInv ==
  ASSUME IInv, NEW s \in Stream,
         \/ PodEvent(s) \/ OnStreamOpen(s)
         \/ triggerConfirmed(s) \/ triggerJoined(s) \/ triggerReleased(s)
  PROVE  IInv'
<1> USE DEF IInv
<1>2. CASE PodEvent(s)
  <2>1. TypeOK' /\ Progress' /\ Roles'
    BY SMTT(30), <1>2 DEF PodEvent, maps, TypeOK, Progress, Roles
  <2>2. CollectionFresh'
    BY SMTT(30), <1>2 DEF PodEvent, maps, CollectionFresh, WillTrigger, getClients
  <2>3. QED
    BY <1>2, <2>1, <2>2, SameCounts DEF PodEvent, maps
<1>3. CASE OnStreamOpen(s)
  <2>1. RoleOf[s] \in Name
    BY ZenonT(30) DEF Name
  <2>2. TypeOK' /\ Progress' /\ Roles'
    BY SMTT(30), ZenonT(30), <1>3, <2>1 DEF OnStreamOpen, At, maps, TypeOK, Progress, Roles
  <2>3. CollectionFresh'
    BY <1>3 DEF OnStreamOpen, At, maps, CollectionFresh, WillTrigger, getClients, TypeOK
  <2>4. QED
    BY <1>3, <2>2, <2>3, SameCounts DEF OnStreamOpen, maps
<1>4. CASE triggerConfirmed(s)
  <2>1. TypeOK' /\ Progress' /\ Roles' /\ CollectionFresh'
    BY SMTT(30), <1>4 DEF triggerConfirmed, AfterObserve, At, maps, world, TypeOK, Progress, Roles,
                CollectionFresh
  <2>2. QED
    BY ZenonT(30), <1>4, <2>1, SameCounts DEF triggerConfirmed, maps
<1>5. CASE triggerJoined(s)
  <2>1. TypeOK' /\ Progress' /\ Roles' /\ CollectionFresh'
    BY SMTT(30), <1>5 DEF triggerJoined, At, maps, world, TypeOK, Progress, Roles, CollectionFresh
  <2>2. QED
    BY ZenonT(30), <1>5, <2>1, SameCounts DEF triggerJoined, maps
<1>6. CASE triggerReleased(s)
  <2>1. TypeOK' /\ Progress' /\ Roles' /\ CollectionFresh'
    BY SMTT(30), <1>6 DEF triggerReleased, At, maps, world, TypeOK, Progress, Roles, CollectionFresh
  <2>2. QED
    BY ZenonT(30), <1>6, <2>1, SameCounts DEF triggerReleased, maps
<1>7. QED
  BY <1>2, <1>3, <1>4, <1>5, <1>6

\* A derived identity is a name, and without pods it is the proxy's role.
LEMMA DerivedName ==
  ASSUME TypeOK, NEW s \in Stream, NEW role \in Role
  PROVE  /\ deriveClientIdentity(s, role) \in Name \cup {NoName}
         /\ ~UsePods => deriveClientIdentity(s, role) = role
<1>1. CASE ~UsePods
  BY <1>1 DEF deriveClientIdentity, Name
<1>2. CASE UsePods /\ pod[s] = NoPod
  BY <1>2 DEF deriveClientIdentity
<1>3. CASE UsePods /\ pod[s] # NoPod
  <2>1. pod[s] \in PodState
    BY <1>3 DEF TypeOK
  <2>2. NormalizeGatewayRole(role, pod[s]) \in Role
    BY <2>1 DEF NormalizeGatewayRole
  <2>3. QED
    BY <1>3, <2>1, <2>2 DEF deriveClientIdentity, Name
<1>4. QED
  BY <1>1, <1>2, <1>3

LEMMA RequestInv == ASSUME IInv, NEW s \in Stream, OnStreamRequest(s) PROVE IInv'
<1> USE DEF IInv
<1>1. pc[s] = "idle" /\ UNCHANGED <<world, nodeRole, peers, maps, triggered, col>>
  BY DEF OnStreamRequest, FollowUp, First, At
<1>2. Counted'
  BY ZenonT(30), <1>1, SameCounts DEF maps
<1>3. pinnedRole(s) = RoleOf[s]
  BY SMTT(30), <1>1 DEF pinnedRole, getPeerRole, Roles
<1> DEFINE name == deriveClientIdentity(s, pinnedRole(s))
<1>4. name \in Name \cup {NoName} /\ (~UsePods => name = RoleOf[s])
  BY <1>3, DerivedName
<1>5. \/ pc' = [pc EXCEPT ![s] = "failed"] /\ UNCHANGED derived
      \/ /\ pc' = [pc EXCEPT ![s] = "observe"] /\ UNCHANGED derived
         /\ clients[s] # NoName /\ built
      \/ /\ pc' = [pc EXCEPT ![s] = "publish"]
         /\ derived' = [derived EXCEPT ![s] = name]
         /\ clients[s] = NoName /\ name # NoName /\ built
  BY ZenonT(30) DEF OnStreamRequest, FollowUp, First, At
<1> HIDE DEF name
<1>6. TypeOK' /\ Progress' /\ Roles'
  BY SMTT(30), <1>1, <1>4, <1>5 DEF TypeOK, Progress, Roles, maps, world
<1>7. CollectionFresh'
  BY ZenonT(30), <1>1, <1>5 DEF CollectionFresh, WillTrigger, getClients, TypeOK, maps
<1>8. QED
  BY <1>2, <1>6, <1>7

LEMMA ObserveInv == ASSUME IInv, NEW s \in Stream, observeLocalClusterRequest(s) PROVE IInv'
<1> USE DEF IInv
<1>1. /\ pc[s] = "observe" /\ clients[s] \in Name
      /\ nodeRole' = [nodeRole EXCEPT ![s] = clients[s]]
      /\ UNCHANGED <<world, peers, clients, count, uniq, derived, triggered, col>>
  BY ZenonT(30) DEF observeLocalClusterRequest, At, Progress
<1>2. \/ known' = known \cup {s} /\ pc' = [pc EXCEPT ![s] = "confirmed"]
      \/ UNCHANGED known /\ pc' = [pc EXCEPT ![s] = AfterObserve(s)]
  BY DEF observeLocalClusterRequest, At
<1>3. AfterObserve(s) = IF derived[s] = NoName THEN "idle" ELSE "joined"
  BY ZenonT(30) DEF AfterObserve
<1>4. TypeOK' /\ Progress' /\ Roles'
  BY SMTT(30), <1>1, <1>2, <1>3 DEF TypeOK, Progress, Roles, world
<1>5. CollectionFresh'
  <2>1. CASE known' = known \cup {s} /\ pc' = [pc EXCEPT ![s] = "confirmed"]
    BY ZenonT(30), <2>1 DEF CollectionFresh, WillTrigger, TypeOK
  <2>2. CASE UNCHANGED known /\ pc' = [pc EXCEPT ![s] = AfterObserve(s)]
    BY <1>1, <1>3, <2>2 DEF CollectionFresh, WillTrigger, getClients, TypeOK
  <2>3. QED
    BY ZenonT(30), <1>2, <2>1, <2>2
<1>6. QED
  BY ZenonT(30), <1>1, <1>4, <1>5, SameCounts

LEMMA RecomputeInv == ASSUME IInv, Recompute PROVE IInv'
<1> USE DEF IInv
<1>1. TypeOK' /\ Progress' /\ Roles'
  BY ZenonT(30) DEF Recompute, getClients, maps, world, TypeOK, Progress, Roles
<1>2. CollectionFresh'
  BY DEF Recompute, CollectionFresh, getClients, maps
<1>3. QED
  BY SMTT(30), <1>1, <1>2, SameCounts DEF Recompute, maps

LEMMA NextInv == IInv /\ [Next]_vars => IInv'
<1> SUFFICES ASSUME IInv, [Next]_vars PROVE IInv'
  OBVIOUS
<1>1. CASE UNCHANGED vars
  <2>1. TypeOK' /\ Progress' /\ Roles'
    BY ZenonT(30), <1>1 DEF vars, IInv, TypeOK, Progress, Roles
  <2>2. CollectionFresh'
    BY <1>1 DEF vars, IInv, CollectionFresh, WillTrigger, getClients
  <2>3. QED
    BY ZenonT(30), <1>1, <2>1, <2>2, SameCounts DEF vars, IInv
<1>2. CASE buildCollection
  BY <1>2, BuildInv
<1>3. CASE Recompute
  BY <1>3, RecomputeInv
<1>4. ASSUME NEW s \in Stream,
             \/ PodEvent(s) \/ OnStreamOpen(s) \/ OnStreamRequest(s) \/ publish(s)
             \/ observeLocalClusterRequest(s) \/ triggerConfirmed(s) \/ triggerJoined(s)
             \/ OnStreamClosed(s) \/ triggerReleased(s)
      PROVE  IInv'
  BY <1>4, QuietInv, RequestInv, PublishInv, ObserveInv, ClosedInv
<1>5. QED
  BY <1>1, <1>2, <1>3, <1>4 DEF Next

LEMMA Invariance == Spec => []IInv
BY InitInv, NextInv, PTL DEF Spec

\* The state of the collection and of its callbacks is well formed; in
\* particular the unsigned counts never wrap below zero.
THEOREM ClientsTypeOK == Spec => []TypeOK
<1>1. IInv => TypeOK
  BY DEF IInv
<1>2. QED
  BY <1>1, Invariance, PTL

LEMMA CountedImplies == IInv => BucketsCounted
<1> SUFFICES ASSUME IInv, NEW n \in Name
             PROVE  /\ count[n] = Cardinality({s \in Stream : clients[s] = n})
                    /\ n \in uniq <=> count[n] > 0
  BY ZenonT(30) DEF BucketsCounted
<1>1. count[n] = Cardinality(Members(n)) /\ (n \in uniq <=> count[n] # 0) /\ count[n] \in Nat
  BY DEF IInv, Counted, TypeOK
<1>2. n \in uniq <=> count[n] > 0
  BY <1>1
<1>3. QED
  BY <1>1, <1>2 DEF Members

\* Buckets are counted exactly, whatever the interleaving of the streams.
THEOREM ClientsBucketsCounted == Spec => []BucketsCounted
BY CountedImplies, Invariance, PTL

\* A stream that has ended is in none of the maps.
THEOREM ClientsNothingLeaks == Spec => []NothingLeaks
<1>1. IInv => NothingLeaks
  BY DEF IInv, Progress, NothingLeaks
<1>2. QED
  BY <1>1, Invariance, PTL

\* No change of the clients goes without a recomputation.
THEOREM ClientsCollectionFresh == Spec => []CollectionFresh
<1>1. IInv => CollectionFresh
  BY DEF IInv
<1>2. QED
  BY <1>1, Invariance, PTL

\* A proxy that is served is in the published collection, and its bucket claims
\* the local cluster only if the proxy asked for it.
THEOREM ClientsServedFromItsBucket == Spec => []ServedFromItsBucket
<1>1. ASSUME IInv, NEW s \in Stream, clients[s] # NoName, ~triggered,
             \A q \in Stream : pc[q] \in {"closed", "idle"}
      PROVE  clients[s] \in DOMAIN col /\ (col[clients[s]] => s \in known)
  <2>1. clients[s] \in Name /\ s \in Members(clients[s])
    BY <1>1 DEF IInv, TypeOK, Members
  <2>2. Cardinality(Members(clients[s])) # 0
    BY ZenonT(30), <2>1, MembersFinite, FS_EmptySet
  <2>3. clients[s] \in uniq
    BY ZenonT(30), <2>1, <2>2, <1>1 DEF IInv, Counted
  <2>4. col = getClients
    BY ZenonT(30), <1>1 DEF IInv, CollectionFresh, WillTrigger
  <2>5. QED
    BY ZenonT(30), <2>3, <2>4 DEF getClients
<1>2. IInv => ServedFromItsBucket
  BY <1>1 DEF ServedFromItsBucket
<1>3. QED
  BY <1>2, Invariance, PTL

\* An established stream is closed by a request only if its pod has changed.
THEOREM ClientsClosedOnlyOnDrift == Spec => ClosedOnlyOnDrift
<1>1. ASSUME IInv, Next, NEW s \in Stream, built, clients[s] # NoName, pc[s] = "idle", pc'[s] = "failed"
      PROVE  UsePods /\ clients[s] # deriveClientIdentity(s, RoleOf[s])
  <2>1. PICK q \in Stream : \/ PodEvent(q) \/ OnStreamOpen(q) \/ OnStreamRequest(q) \/ publish(q)
                            \/ observeLocalClusterRequest(q) \/ triggerConfirmed(q)
                            \/ triggerJoined(q) \/ OnStreamClosed(q) \/ triggerReleased(q)
    BY SMTT(30), <1>1 DEF Next, buildCollection, Recompute
  <2>2. ~(PodEvent(q) \/ OnStreamOpen(q) \/ publish(q) \/ triggerJoined(q) \/ triggerReleased(q))
    BY ZenonT(30), <1>1 DEF PodEvent, OnStreamOpen, publish, triggerJoined, triggerReleased, At,
         IInv, TypeOK
  <2>3. ~(observeLocalClusterRequest(q) \/ triggerConfirmed(q) \/ OnStreamClosed(q))
    BY SMTT(30), <1>1 DEF observeLocalClusterRequest, triggerConfirmed, OnStreamClosed,
         AfterObserve, At,
                IInv, TypeOK
  <2>4. OnStreamRequest(q)
    BY ZenonT(30), <2>1, <2>2, <2>3
  <2>5. q = s
    BY ZenonT(30), <1>1, <2>4 DEF OnStreamRequest, FollowUp, First, At, IInv, TypeOK
  <2>6. FollowUp(s)
    BY ZenonT(30), <1>1, <2>4, <2>5 DEF OnStreamRequest, First, IInv, Progress
  <2>7. deriveClientIdentity(s, RoleOf[s]) \notin {NoName, clients[s]}
    BY ZenonT(30), <1>1, <2>6 DEF FollowUp, At, pinnedRole, IInv, TypeOK
  <2>8. QED
    BY ZenonT(30), <1>1, <2>7, DerivedName DEF IInv, Roles
<1>2. IInv /\ [Next]_vars => [\A s \in Stream :
         (built /\ clients[s] # NoName /\ pc[s] = "idle" /\ pc'[s] = "failed")
            => UsePods /\ clients[s] # deriveClientIdentity(s, RoleOf[s])]_vars
  BY SMTT(30), <1>1
<1>3. QED
  BY <1>2, Invariance, PTL DEF Spec, ClosedOnlyOnDrift
============================================================================
