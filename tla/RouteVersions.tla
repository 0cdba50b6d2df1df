--------------------------- MODULE RouteVersions ----------------------------
(***************************************************************************)
(* Which API version of a route kind is watched (route_version.go, the      *)
(* TCPRoute and TLSRoute parts of collections/setup.go, and the poll loop   *)
(* of delayed_dynamic_informer.go).  Startup reads the served versions and  *)
(* builds a collection for the one to use or, when none is usable, for each *)
(* enabled version; each collection's informer runs once its own gate, from *)
(* a fresh read, says that its version is the preferred one.                *)
(***************************************************************************)
EXTENDS Integers, Sequences

CONSTANTS
    Known,          \* the versions understood, most preferred first
    Served,         \* sets of versions a cluster may serve; {}: no CRD
    IncludeLegacy,  \* EnableExperimentalGatewayAPIFeatures
    Attempts,       \* startupResolveAttempts
    MaxUpgrades     \* bound: changes of the CRD

Version == {Known[i] : i \in DOMAIN Known}
Startup == "startup"

ASSUME VersionsAssumption ==
    /\ Known \in Seq(Version) /\ Len(Known) > 0
    /\ \A i, j \in DOMAIN Known : Known[i] = Known[j] => i = j
    /\ IncludeLegacy \in BOOLEAN /\ Attempts \in Nat \ {0} /\ MaxUpgrades \in Nat
    /\ Startup \notin Version

VARIABLES
    served,      \* what the API server serves now
    upgrades,    \* changes of the CRD so far
    attempt,     \* reads of the startup resolution
    narrowed,    \* history: startup found a version to commit to
    candidates,  \* the collections built, as tcpRouteWriteGVRs
    status,      \* status[v]: of the informer of v
    read         \* read[r]: how far reader r is in discoverRouteVersions

vars == <<served, upgrades, attempt, narrowed, candidates, status, read>>

NotReading == [next |-> 0, found |-> {}]

Init ==
    /\ served \in Served
    /\ upgrades = 0 /\ attempt = 1 /\ candidates = {} /\ narrowed = FALSE
    /\ status = [v \in Version |-> "none"]
    /\ read = [r \in Version \cup {Startup} |-> NotReading]

-----------------------------------------------------------------------------
allowedRouteGVRs == IF IncludeLegacy THEN DOMAIN Known ELSE {1}

\* preferredServedGVR, as a set of at most one version.
preferredServedGVR(found) ==
    {Known[i] : i \in {i \in allowedRouteGVRs :
                        /\ Known[i] \in found
                        /\ \A j \in allowedRouteGVRs : j < i => Known[j] \notin found}}

\* Mutant: the first known version is committed to when none is served.
selectRouteGVRsGuess(found) ==
    IF preferredServedGVR(found) # {} THEN preferredServedGVR(found) ELSE {Known[1]}

selectRouteGVRs(found) ==
    IF preferredServedGVR(found) # {} THEN preferredServedGVR(found)
    ELSE {Known[i] : i \in allowedRouteGVRs}

\* The collections are built one after the other, in order of preference.
Building(v) ==
    /\ status[v] = "unbuilt"
    /\ \A i, j \in DOMAIN Known : Known[i] = v /\ j < i => status[Known[j]] # "unbuilt"
AllBuilt == candidates # {} /\ \A v \in candidates : status[v] # "unbuilt"

\* Who may read: the startup resolution, then each gate as its collection is
\* built, then the poll loops of the parked informers.
Reads(r) ==
    IF r = Startup THEN candidates = {}
    ELSE Building(r) \/ (status[r] = "parked" /\ AllBuilt)

commit(found) ==
    /\ narrowed' = (preferredServedGVR(found) # {})
    /\ candidates' = selectRouteGVRs(found)
    /\ status' = [v \in Version |-> IF v \in selectRouteGVRs(found) THEN "unbuilt" ELSE "none"]

\* Mutant: a version that is served runs, preferred or not.
gateServed(v, found) ==
    status' = [status EXCEPT ![v] = IF v \in found THEN "running" ELSE "parked"]

\* routeInformerGate: only the preferred served version starts.
gate(v, found) ==
    status' = [status EXCEPT ![v] = IF v \in preferredServedGVR(found) THEN "running" ELSE "parked"]

\* A reader has found out what is served.
Resolved(r, found) ==
    /\ read' = [read EXCEPT ![r] = NotReading]
    /\ UNCHANGED attempt
    /\ IF r = Startup THEN commit(found) ELSE gate(r, found) /\ UNCHANGED <<narrowed, candidates>>

\* Neither reader could tell: the startup resolution retries and then settles for
\* every enabled version; an informer stays parked.
Unresolved(r) ==
    /\ read' = [read EXCEPT ![r] = NotReading]
    /\ IF r # Startup
       THEN status' = [status EXCEPT ![r] = "parked"] /\ UNCHANGED <<attempt, narrowed, candidates>>
       ELSE IF attempt < Attempts THEN attempt' = attempt + 1 /\ UNCHANGED <<narrowed, candidates, status>>
       ELSE commit({}) /\ UNCHANGED attempt

\* servedVersionsFromCRD answers at once, a missing CRD included...
servedVersionsFromCRD(r) ==
    /\ Reads(r) /\ read[r].next = 0
    /\ Resolved(r, served)
    /\ UNCHANGED <<served, upgrades>>

\* ...or is not permitted, and discovery is asked instead,
CRDUnreadable(r) ==
    /\ Reads(r) /\ read[r].next = 0
    /\ read' = [read EXCEPT ![r] = [next |-> 1, found |-> {}]]
    /\ UNCHANGED <<served, upgrades, attempt, narrowed, candidates, status>>

\* one group version after the other.
servedVersionsFromDiscovery(r) ==
    LET i == read[r].next
        found == read[r].found \cup ({Known[i]} \cap served)
    IN  /\ i > 0
        /\ IF i = Len(Known) THEN Resolved(r, found)
           ELSE /\ read' = [read EXCEPT ![r] = [next |-> i + 1, found |-> found]]
                /\ UNCHANGED <<attempt, narrowed, candidates, status>>
        /\ UNCHANGED <<served, upgrades>>

\* One unreadable group version leaves the whole question open.
DiscoveryUnreadable(r) ==
    /\ read[r].next > 0
    /\ Unresolved(r)
    /\ UNCHANGED <<served, upgrades>>

\* The CRD is installed, upgraded or removed.
Upgrade ==
    /\ upgrades < MaxUpgrades
    /\ upgrades' = upgrades + 1
    /\ \E s \in Served \ {served} : served' = s
    /\ UNCHANGED <<attempt, narrowed, candidates, status, read>>

-----------------------------------------------------------------------------
Answers(r) == servedVersionsFromCRD(r) \/ servedVersionsFromDiscovery(r)
Fails(r) == CRDUnreadable(r) \/ DiscoveryUnreadable(r)

Next == Upgrade \/ \E r \in Version \cup {Startup} : Answers(r) \/ Fails(r)

Spec == Init /\ [][Next]_vars

-----------------------------------------------------------------------------
Running == {v \in Version : status[v] = "running"}

TypeOK ==
    /\ served \in Served /\ upgrades \in 0..MaxUpgrades /\ attempt \in 1..Attempts
    /\ candidates \subseteq Version /\ narrowed \in BOOLEAN
    /\ status \in [Version -> {"none", "unbuilt", "parked", "running"}]
    /\ \A v \in Version : status[v] = "none" <=> v \notin candidates
    /\ \A r \in DOMAIN read : read[r].next \in 0..Len(Known) /\ read[r].found \subseteq Version

\* An informer runs only for the preferred version of those that are served,
\* whichever reads fail: for an unserved one its initial list could never sync,
\* and with two of them each route would be joined twice.  Stated for a CRD that
\* has not changed: a version that is added later is started beside the one that
\* already runs.
OnlyPreferredRuns == upgrades = 0 => Running \subseteq preferredServedGVR(served)

\* A kind that startup found no usable version of, or could not read, lands in
\* the end on the version that the cluster has come to serve, without a restart.
LandsOnServed ==
    <>[](~narrowed => preferredServedGVR(served) \subseteq Running)
=============================================================================
