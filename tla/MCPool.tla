-------------------------------- MODULE MCPool --------------------------------
(***************************************************************************)
(* Finite instances for TLC of four small parts that run beside             *)
(* translation: the pool that writes statuses, the merge of our entries     *)
(* into lists that other controllers share, the refresh of OIDC provider    *)
(* configurations, and the retainer of load assignments (with two clients   *)
(* of one locality and one of another).  They have no state in common:      *)
(* `part` says which of them a behaviour is about.                          *)
(***************************************************************************)
EXTENDS WorkerPool, SequencesExt

CONSTANTS r1, r2, r3, w1, w2, w3, kgw, peer, other, e1, e2, i1, Nil, c1, c2, c3, near, far

MCResource == {r1, r2, r3}
MCWorker == {w1, w2, w3}

VARIABLES part, list, desired, changes,
          wants, provider, cache, dirty, call, dependant, row, loop, live, pruned, expired,
          changed, edits, outages,
          backend, uccs, claDirty, deletes, claRows, retained, pass, handler, instances,
          raced, claChanges

listVars == <<list, desired, changes>>
oidcVars == <<wants, provider, cache, dirty, call, dependant, row, loop, live, pruned, expired,
              changed, edits, outages>>
retainerVars == <<backend, uccs, claDirty, deletes, claRows, retained, pass, handler, instances,
                  raced, claChanges>>
all == <<part, vars, listVars, oidcVars, retainerVars>>

Unset == -1
Ref(kind, namespace, name, port) ==
    [kind |-> kind, namespace |-> namespace, name |-> name, port |-> port]

Ga == Ref(0, 1, 1, Unset)      \* Gateway 1, no port
Gp == Ref(0, 1, 1, 0)          \* the same with port 0: ties in ParentString
Gk == Ref(Unset, 1, 1, Unset)  \* the same with the kind left out
Gb == Ref(0, 2, 1, Unset)      \* Gateway 1 of a later namespace
Gc == Ref(0, 1, 2, 8)
Gd == Ref(1, 1, 2, Unset)

\* No reference is desired by both controllers.
ApartWanted ==
    (kgw :> UNION {SetToSeqs(s) : s \in SUBSET {Ga, Gp, Gk}}) @@
    (peer :> UNION {SetToSeqs(s) : s \in SUBSET {Gb, Gc}})

Of(c, ref) == [controller |-> c, ref |-> ref]
Starts == {<<>>, <<Of(other, Gd)>>, <<Of(other, Gd), Of(other, Gb)>>, <<Of(kgw, Gc), Of(other, Gd)>>}

Lists == INSTANCE StatusMerge
           WITH Controller <- {kgw, peer}, Other <- other, Limit <- 4, Wanted <- ApartWanted,
                Start <- Starts, MaxChanges <- 2

Oidc == INSTANCE OidcDiscovery
          WITH Extension <- {e1, e2}, Issuer <- {i1}, Document <- {"d1", "d2"}, MaxFailures <- 1,
               MaxEdits <- 2, MaxOutages <- 2, RacingEdits <- FALSE

ThreeClients == {c1, c2, c3}
Retainer == INSTANCE ClaRetainer
              WITH Client <- ThreeClients, LocalityOf <- [c \in ThreeClients |-> IF c = c3 THEN far ELSE near],
                   Content <- {"A", "B"}, None <- Nil, MaxChanges <- 4, MaxInstance <- 4,
                   dirty <- claDirty, rows <- claRows, changes <- claChanges

ASSUME ListsFit == Lists!MergeAssumption

PartsInit ==
    /\ part \in {"pool", "lists", "oidc", "retainer"}
    /\ Init /\ (part # "pool" => res = [w \in Worker |-> r1])
    /\ Lists!Init /\ (part # "lists" => list = <<>> /\ desired = [c \in {kgw, peer} |-> <<>>])
    /\ Oidc!Init /\ (part # "oidc" => wants = [e \in {e1, e2} |-> Nil] /\ provider = [i \in {i1} |-> "down"])
    /\ Retainer!Init

Pool(A) == part = "pool" /\ A /\ UNCHANGED <<part, listVars, oidcVars, retainerVars>>
Merge(A) == part = "lists" /\ A /\ UNCHANGED <<part, vars, oidcVars, retainerVars>>
Discover(A) == part = "oidc" /\ A /\ UNCHANGED <<part, vars, listVars, retainerVars>>
Retain(A) == part = "retainer" /\ A /\ UNCHANGED <<part, vars, listVars, oidcVars>>

PartsNext == Pool(Next) \/ Merge(Lists!Next) \/ Discover(Oidc!Next) \/ Retain(Retainer!Next)

\* The fairness of WorkerPool and of OidcDiscovery, each in its own part.
PartsFairness ==
    /\ WF_all(Pool(maybeAddWorkerLocked)) /\ WF_all(Pool(finishClose))
    /\ \A w \in Worker :
         /\ SF_all(Pool(workerCheck(w)))
         /\ WF_all(Pool(workerExit(w) \/ workerDequeue(w) \/ workerMarkDone(w)))
    /\ WF_all(Discover(Oidc!RefreshLoop))
    /\ WF_all(Discover(Oidc!Expire(i1))) /\ WF_all(Discover(Oidc!Rediscover(i1)))
    /\ \A e \in {e1, e2} : WF_all(Discover(Oidc!Transform(e))) /\ WF_all(Discover(Oidc!Discovered(e)))

PartsSpec == PartsInit /\ [][PartsNext]_all /\ PartsFairness

\* mergeOwnedStatusEntries over its own result changes nothing, publishing never
\* drops or alters the entries of other controllers, and peers that all merge
\* this way stop rewriting the list.
ListsSettle == []Lists!OneWriteSettles /\ Lists!ForeignEntriesKept /\ Lists!PeersSettle

\* A push to the pool is followed by a run of its resource unless the pool
\* closes, and a pool that closes comes to have no goroutine left.
PoolServes == EveryPushServed /\ DrainsAfterClose

\* A discovered configuration is never withdrawn while it is wanted, and every
\* extension ends with what its issuer serves, if the issuer stays up.
DiscoveryHeals == Oidc!GoodConfigKept /\ (part = "oidc" => Oidc!DiscoveryHeals)

\* A deleted backend's load assignments never stay in claRetainer for good, and
\* clients of one locality share one load assignment proto.
RetainerExact == Retainer!RetainerExact
=============================================================================
