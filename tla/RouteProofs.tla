----------------------------- MODULE RouteProofs ----------------------------
(***************************************************************************)
(* For any versions, any handlers and any reads that fail: only the         *)
(* preferred version of a CRD that stays runs, and a registration that      *)
(* reports synced has seen the list.                                        *)
(* The second part: whatever Validation publishes in strict mode, Envoy has *)
(* accepted, and while Envoy answers it is what the rules deserve one by    *)
(* one.                                                                     *)
(***************************************************************************)
EXTENDS RouteWatch, WellFoundedInduction, TLAPS

USE VersionsAssumption, WatchAssumption

Reader == Version \cup {Startup}

\* What a reader that asks one group version after the other has found: the
\* versions asked so far that are served.
FoundSoFar == \A r \in Reader : read[r].found = {Known[i] : i \in 1..(read[r].next - 1)} \cap served

VInv ==
    /\ upgrades \in Nat
    /\ status \in [Version -> {"none", "unbuilt", "parked", "running"}]
    /\ read \in [Reader -> [next : 0..Len(Known), found : SUBSET Version]]
    /\ upgrades = 0 => FoundSoFar
    /\ OnlyPreferredRuns

\* A registration of the placeholder is one that set still has to hand over.
DInv ==
    /\ published \in BOOLEAN
    /\ handlers \subseteq Handler
    /\ caller \in [Handler \cup Index -> {"none", "direct", "registered", "shut"}]
    /\ view \in [Handler -> {"none", "delayed", "real"}]
    /\ \A h \in Handler : view[h] = "delayed" => h \in handlers \/ caller[h] = "shut"
    /\ published \/ todo \in {"start", "publish"} => handlers = {}

LEMMA Preferred ==
  ASSUME NEW found, NEW x, found \cap Version = x \cap Version
  PROVE  preferredServedGVR(found) = preferredServedGVR(x)
<1>1. DOMAIN Known = 1..Len(Known) /\ 1 \in DOMAIN Known
  OBVIOUS
<1>2. \A i \in allowedRouteGVRs : Known[i] \in Version
  BY <1>1 DEF allowedRouteGVRs, Version
<1>3. \A i \in allowedRouteGVRs : Known[i] \in found <=> Known[i] \in x
  BY <1>2
<1> QED
  BY <1>3 DEF preferredServedGVR

LEMMA GateKeeps ==
  ASSUME VInv, NEW v \in Version, NEW found, gate(v, found), UNCHANGED <<served, upgrades>>,
         upgrades = 0 => found \cap Version = served \cap Version
  PROVE  /\ status' \in [Version -> {"none", "unbuilt", "parked", "running"}]
         /\ OnlyPreferredRuns'
<1>1. upgrades = 0 => preferredServedGVR(found) = preferredServedGVR(served)
  BY Preferred
<1> QED
  BY <1>1 DEF VInv, gate, OnlyPreferredRuns, Running, preferredServedGVR, allowedRouteGVRs

LEMMA CommitKeeps ==
  ASSUME NEW found, commit(found)
  PROVE  /\ status' \in [Version -> {"none", "unbuilt", "parked", "running"}]
         /\ OnlyPreferredRuns'
BY DEF commit, OnlyPreferredRuns, Running

LEMMA ResetKeeps ==
  ASSUME VInv, NEW r \in Reader, read' = [read EXCEPT ![r] = NotReading], UNCHANGED served
  PROVE  /\ read' \in [Reader -> [next : 0..Len(Known), found : SUBSET Version]]
         /\ upgrades = 0 => FoundSoFar'
BY DEF VInv, NotReading, FoundSoFar

LEMMA ResolvedKeeps ==
  ASSUME VInv, NEW r \in Reader, NEW found, Resolved(r, found), UNCHANGED <<served, upgrades>>,
         upgrades = 0 => found \cap Version = served \cap Version
  PROVE  VInv'
<1>1. /\ read' \in [Reader -> [next : 0..Len(Known), found : SUBSET Version]]
      /\ upgrades = 0 => FoundSoFar'
  BY ZenonT(30), ResetKeeps DEF Resolved
<1>2. /\ status' \in [Version -> {"none", "unbuilt", "parked", "running"}]
      /\ OnlyPreferredRuns'
  BY GateKeeps, CommitKeeps DEF Resolved, Reader
<1> QED
  BY <1>1, <1>2 DEF VInv

\* The version selection keeps VInv, whatever it reads.
LEMMA VersionsStep ==
  ASSUME VInv, Next
  PROVE  VInv'
<1>1. CASE Upgrade
  BY <1>1 DEF Upgrade, VInv, OnlyPreferredRuns
<1>2. ASSUME NEW r \in Reader, servedVersionsFromCRD(r)
      PROVE  VInv'
  BY <1>2, ResolvedKeeps DEF servedVersionsFromCRD
<1>3. ASSUME NEW r \in Reader, CRDUnreadable(r)
      PROVE  VInv'
  BY <1>3 DEF CRDUnreadable, VInv, FoundSoFar, OnlyPreferredRuns, Running
<1>4. ASSUME NEW r \in Reader, servedVersionsFromDiscovery(r)
      PROVE  VInv'
  <2> DEFINE i == read[r].next
             found == read[r].found \cup ({Known[i]} \cap served)
  <2>1. i \in 1..Len(Known) /\ read[r].found \subseteq Version /\ found \subseteq Version
    BY <1>4 DEF VInv, servedVersionsFromDiscovery, Version
  <2>2. upgrades = 0 => found = {Known[k] : k \in 1..i} \cap served
    <3>1. 1..i = 1..(i - 1) \cup {i}
      BY <2>1
    <3> QED
      BY <3>1 DEF VInv, FoundSoFar
  <2>3. CASE i = Len(Known)
    <3>1. upgrades = 0 => found \cap Version = served \cap Version
      BY SMTT(30), <2>2, <2>3 DEF Version
    <3> QED
      BY <1>4, <2>3, <3>1, ResolvedKeeps DEF servedVersionsFromDiscovery
  <2>4. CASE i # Len(Known)
    <3>1. /\ read' = [read EXCEPT ![r] = [next |-> i + 1, found |-> found]]
          /\ UNCHANGED <<served, upgrades, attempt, narrowed, candidates, status>>
      BY <1>4, <2>4 DEF servedVersionsFromDiscovery
    <3>2. i + 1 \in 0..Len(Known) /\ (i + 1) - 1 = i
      BY <2>1, <2>4
    <3>3. read' \in [Reader -> [next : 0..Len(Known), found : SUBSET Version]]
      BY <2>1, <3>1, <3>2 DEF VInv
    <3>4. upgrades = 0 => FoundSoFar'
      BY <2>2, <3>1, <3>2 DEF VInv, FoundSoFar
    <3> QED
      BY <3>1, <3>3, <3>4 DEF VInv, OnlyPreferredRuns, Running
  <2> QED
    BY <2>3, <2>4
<1>5. ASSUME NEW r \in Reader, DiscoveryUnreadable(r)
      PROVE  VInv'
  <2>1. /\ read' = [read EXCEPT ![r] = NotReading]
        /\ UNCHANGED <<served, upgrades>>
    BY <1>5 DEF DiscoveryUnreadable, Unresolved
  <2>2. /\ read' \in [Reader -> [next : 0..Len(Known), found : SUBSET Version]]
        /\ upgrades = 0 => FoundSoFar'
    BY ZenonT(30), <2>1, ResetKeeps
  <2>3. CASE r # Startup
    <3>1. r \in Version /\ status' = [status EXCEPT ![r] = "parked"]
      BY <1>5, <2>3 DEF DiscoveryUnreadable, Unresolved, Reader
    <3> QED
      BY <2>1, <2>2, <3>1 DEF VInv, OnlyPreferredRuns, Running
  <2>4. CASE r = Startup /\ attempt < Attempts
    BY <1>5, <2>1, <2>2, <2>4 DEF DiscoveryUnreadable, Unresolved, VInv, OnlyPreferredRuns, Running
  <2>5. CASE r = Startup /\ ~ (attempt < Attempts)
    <3>1. commit({})
      BY ZenonT(30), <1>5, <2>5 DEF DiscoveryUnreadable, Unresolved
    <3> QED
      BY <2>1, <2>2, <3>1, CommitKeeps DEF VInv
  <2> QED
    BY <2>3, <2>4, <2>5
<1> QED
  BY <1>1, <1>2, <1>3, <1>4, <1>5 DEF Next, Answers, Fails, Reader

\* The placeholder keeps DInv, whatever the gate answers.
LEMMA InformerStep ==
  ASSUME DInv, Informer!Next
  PROVE  DInv'
<1> USE DEF DInv, Informer!real, Informer!Unlocked
<1>1. ASSUME NEW h \in Handler, Informer!AddEventHandler(h)
      PROVE  DInv'
  BY ZenonT(30), <1>1 DEF Informer!AddEventHandler
<1>2. ASSUME NEW h \in Handler, Informer!AddEventHandlerDirect(h)
      PROVE  DInv'
  BY <1>2 DEF Informer!AddEventHandlerDirect
<1>3. ASSUME NEW h \in Handler, Informer!Tells(h)
      PROVE  DInv'
  BY <1>3 DEF Informer!Tells
<1>4. ASSUME NEW S \in SUBSET Handler, Informer!ShutdownHandlers(S)
      PROVE  DInv'
  BY <1>4 DEF Informer!ShutdownHandlers
<1>5. ASSUME NEW x \in Index, Informer!AddIndex(x)
      PROVE  DInv'
  BY <1>5 DEF Informer!AddIndex
<1>6. CASE Informer!Start
  BY <1>6 DEF Informer!Start
<1>7. CASE Informer!Poll
  BY <1>7 DEF Informer!Poll
<1>8. ASSUME NEW h \in Handler, Informer!setHandler(h)
      PROVE  DInv'
  BY <1>8 DEF Informer!setHandler
<1>9. CASE Informer!setIndexes
  BY <1>9 DEF Informer!setIndexes
<1>10. CASE Informer!setStart
  BY <1>10 DEF Informer!setStart
<1>11. CASE Informer!publish
  BY <1>11 DEF Informer!publish
<1>12. CASE Informer!Lists
  BY <1>12 DEF Informer!Lists
<1> QED
  BY <1>1, <1>2, <1>3, <1>4, <1>5, <1>6, <1>7, <1>8, <1>9, <1>10, <1>11, <1>12
     DEF Informer!Next, Informer!Set

-----------------------------------------------------------------------------
(* The composition: a step of one part leaves the other's invariant alone.   *)

LEMMA WatchInitial == WatchInit => VInv /\ DInv
<1> SUFFICES ASSUME WatchInit PROVE VInv /\ DInv
  OBVIOUS
<1>1. VInv
  BY DEF WatchInit, Init, VInv, NotReading, FoundSoFar, OnlyPreferredRuns, Running, Reader
<1>2. DInv
  BY ZenonT(30) DEF WatchInit, Informer!Init, DInv
<1> QED
  BY <1>1, <1>2

LEMMA WatchStep ==
  ASSUME VInv, DInv, [WatchNext]_<<vars, informerVars>>
  PROVE  VInv' /\ DInv'
<1>1. CASE Select(Next)
  BY <1>1, VersionsStep DEF Select, informerVars, DInv
<1>2. CASE Use(Informer!Next)
  <2>1. UNCHANGED vars
    BY <1>2 DEF Use
  <2>2. VInv'
    BY ZenonT(30), <2>1 DEF vars, VInv, FoundSoFar, OnlyPreferredRuns, Running
  <2> QED
    BY <1>2, <2>2, InformerStep DEF Use
<1>3. CASE UNCHANGED <<vars, informerVars>>
  BY <1>3 DEF vars, informerVars, VInv, FoundSoFar, OnlyPreferredRuns, Running, DInv
<1> QED
  BY <1>1, <1>2, <1>3 DEF WatchNext

\* For any versions and Served: while the CRD stays as it was found, no informer
\* runs for a version other than the preferred one, whichever reads fail.
THEOREM WatchOnlyPreferredRuns == WatchSpec => []OnlyPreferredRuns
<1>1. VInv => OnlyPreferredRuns
  BY DEF VInv
<1> QED
  BY <1>1, WatchInitial, WatchStep, PTL DEF WatchSpec

\* For any handlers: once the real informer has taken over from the placeholder,
\* a registration reports synced only after its handler has seen the list.
THEOREM WatchSyncedMeansSeen == WatchSpec => []SyncedMeansSeen
<1>1. DInv => SyncedMeansSeen
  BY DEF DInv, SyncedMeansSeen, Informer!SyncedMeansSeen, Informer!HasSynced
<1> QED
  BY <1>1, WatchInitial, WatchStep, PTL DEF WatchSpec

HIDE VersionsAssumption

-----------------------------------------------------------------------------
(* Validation: a translation publishes what it asked Envoy about.             *)

CONSTANTS Worker, Jobs, Clash, CacheSize, MaxJobs, MaxFaults
VARIABLES strict, work, cache, memo, jobs, killed, failed

Val == INSTANCE Validation

\* The fields of a translation of a virtual host, and of a cluster.
VhostWork(rec) ==
    DOMAIN rec = {"pc", "job", "end", "out", "computed", "i", "kept", "boot", "to"}
ClusterWork(rec) == DOMAIN rec = {"pc", "job", "end", "out", "boot", "to"}

\* What a worker waits for a verdict on is what it publishes if the verdict is good.
AsksExact(rec) ==
    \/ /\ Val!IsVhost(rec.job) /\ VhostWork(rec)
       /\ rec.to \in {"batch", "alone", "matcher", "again"}
       /\ rec.to = "batch" => rec.boot = Val!validateFullRoutes(Val!RoutesOf(rec.computed))
       /\ rec.to = "again" => rec.boot = Val!validateFullRoutes(rec.kept)
    \/ /\ ~Val!IsVhost(rec.job) /\ ClusterWork(rec)
       /\ rec.to = "cluster" /\ rec.boot = Val!clusterBootstrap(rec.job.cluster)

\* What Envoy would be asked about a translation that is over.
Published(rec) ==
    IF Val!IsVhost(rec.job) THEN Val!validateFullRoutes(rec.out) ELSE Val!clusterBootstrap(rec.job.cluster)

\* A translation is over and what it publishes is accepted, waits for a verdict,
\* or takes a virtual host apart.
Sound(rec) ==
    \/ rec.pc = "idle" /\ (strict /\ rec.end = "served" => Val!Accepts(Published(rec)))
    \/ strict /\ rec.pc \in {"get", "do", "leads", "joins"} /\ rec.end = "none" /\ AsksExact(rec)
    \/ strict /\ rec.pc = "isolate" /\ rec.end = "none" /\ Val!IsVhost(rec.job) /\ VhostWork(rec)

\* A good verdict is Envoy's; a bad one may also be that of a killed process.
Trusted(e) ==
    /\ e = [boot |-> e.boot, verdict |-> e.verdict]
    /\ e.verdict = "valid" => Val!Accepts(e.boot)
    /\ killed = 0 => e.verdict = Val!Verdict(e.boot)

\* A flight has one leader, and whoever joined has one to wait for.
OneLeader ==
    \A v, w \in Worker :
        work[v].pc = "leads" /\ work[w].pc = "leads" /\ work[v].boot = work[w].boot => v = w
JoinersLed ==
    \A w \in Worker : work[w].pc = "joins" =>
        \E v \in Worker : work[v].pc = "leads" /\ work[v].boot = work[w].boot
FlightsLed == OneLeader /\ JoinersLed

\* Verdicts are trusted, every translation is sound and every flight has its leader.
ValidationInv ==
    /\ killed \in Nat
    /\ \A e \in cache \cup memo : Trusted(e)
    /\ work = [w \in Worker |-> work[w]]
    /\ \A w \in Worker : Sound(work[w])
    /\ FlightsLed

\* A call for a verdict.
LEMMA CallSound ==
  ASSUME strict, NEW rec, rec.end = "none", NEW b, NEW t,
         \/ /\ Val!IsVhost(rec.job) /\ VhostWork(rec)
            /\ t \in {"batch", "alone", "matcher", "again"}
            /\ t = "batch" => b = Val!validateFullRoutes(Val!RoutesOf(rec.computed))
            /\ t = "again" => b = Val!validateFullRoutes(rec.kept)
         \/ /\ ~Val!IsVhost(rec.job) /\ ClusterWork(rec)
            /\ t = "cluster" /\ b = Val!clusterBootstrap(rec.job.cluster)
  PROVE  Sound(Val!Call(rec, b, t)) /\ Val!Call(rec, b, t).pc = "get"
<1> DEFINE r == Val!Call(rec, b, t)
<1>1. {"pc", "job", "end", "boot", "to"} \subseteq DOMAIN rec
  BY DEF VhostWork, ClusterWork
<1>2. /\ DOMAIN r = DOMAIN rec /\ r.pc = "get" /\ r.boot = b /\ r.to = t
      /\ r.job = rec.job /\ r.end = rec.end
  BY <1>1 DEF Val!Call
<1>3. VhostWork(rec) => r.computed = rec.computed /\ r.kept = rec.kept
  BY ZenonT(30) DEF Val!Call, VhostWork
<1> HIDE DEF r
<1>4. AsksExact(r)
  BY ZenonT(30), <1>2, <1>3 DEF AsksExact, VhostWork, ClusterWork
<1>5. QED
  BY <1>2, <1>4 DEF Sound, r

\* Isolation goes on with the next route.
LEMMA IsolatedSound ==
  ASSUME strict, NEW rec, rec.end = "none", Val!IsVhost(rec.job), VhostWork(rec), NEW err
  PROVE  Sound(Val!Isolated(rec, err)) /\ Val!Isolated(rec, err).pc = "isolate"
<1> DEFINE c == rec.computed[rec.i]
           route == IF err = "ok" THEN <<c.route>> ELSE Val!finalizeRoute(c.in, c.route, err)
           r == Val!Isolated(rec, err)
<1>1. r = [rec EXCEPT !.pc = "isolate", !.i = rec.i + 1, !.kept = rec.kept \o route]
  BY DEF Val!Isolated
<1> HIDE DEF route, r
<1>2. DOMAIN r = DOMAIN rec /\ r.pc = "isolate" /\ r.job = rec.job /\ r.end = rec.end
  BY ZenonT(30), <1>1 DEF VhostWork
<1>3. QED
  BY <1>2 DEF Sound, VhostWork, r

\* Whatever a translation does with a result, it publishes only what was accepted.
LEMMA ResumeSound ==
  ASSUME strict, NEW rec, rec.end = "none", AsksExact(rec), NEW result,
         result = "valid" => Val!Accepts(rec.boot)
  PROVE  Sound(Val!Resume(rec, result)) /\ Val!Resume(rec, result).pc \in {"idle", "isolate", "get"}
<1> DEFINE ok == result = "valid"
<1>1. CASE rec.to = "batch"
  <2>1. Val!IsVhost(rec.job) /\ VhostWork(rec) /\ rec.boot = Val!validateFullRoutes(Val!RoutesOf(rec.computed))
    BY <1>1 DEF AsksExact
  <2>2. Val!Resume(rec, result) = IF ok THEN Val!Served(rec, Val!RoutesOf(rec.computed)) ELSE [rec EXCEPT !.pc = "isolate"]
    BY <1>1 DEF Val!Resume
  <2>3. CASE ok
    BY SMTT(30), <2>1, <2>2, <2>3 DEF Sound, Val!Served, Published
  <2>4. CASE ~ok
    <3> DEFINE r == [rec EXCEPT !.pc = "isolate"]
    <3>1. DOMAIN r = DOMAIN rec /\ r.pc = "isolate" /\ r.job = rec.job /\ r.end = rec.end
      BY <2>1 DEF VhostWork
    <3>2. Val!Resume(rec, result) = r
      BY ZenonT(30), <2>2, <2>4
    <3> HIDE DEF r
    <3>3. QED
      BY <2>1, <3>1, <3>2 DEF Sound, VhostWork
  <2>5. QED
    BY <2>3, <2>4
<1>2. CASE rec.to = "alone"
  <2>1. Val!IsVhost(rec.job) /\ VhostWork(rec)
    BY <1>2 DEF AsksExact
  <2>2. Val!Resume(rec, result) = IF ok THEN Val!Isolated(rec, "ok")
                              ELSE Val!Call(rec, Val!validateMatcherOnlyEnvoy(rec.computed[rec.i].route), "matcher")
    BY <1>2 DEF Val!Resume
  <2>3. QED
    BY SMTT(30), <2>1, <2>2, IsolatedSound, CallSound
<1>3. CASE rec.to = "matcher"
  <2>1. Val!IsVhost(rec.job) /\ VhostWork(rec)
    BY <1>3 DEF AsksExact
  <2>2. Val!Resume(rec, result) = Val!Isolated(rec, IF ok THEN "route" ELSE "matcher")
    BY <1>3 DEF Val!Resume
  <2>3. QED
    BY <2>1, <2>2, IsolatedSound
<1>4. CASE rec.to = "again"
  <2>1. Val!IsVhost(rec.job) /\ rec.boot = Val!validateFullRoutes(rec.kept)
    BY <1>4 DEF AsksExact
  <2>2. Val!Resume(rec, result) = IF ok THEN Val!Served(rec, rec.kept) ELSE Val!Fallback(rec)
    BY <1>4 DEF Val!Resume
  <2>3. QED
    BY <2>1, <2>2 DEF Sound, Val!Served, Val!Fallback, Published
<1>5. CASE rec.to = "cluster"
  <2>1. ~Val!IsVhost(rec.job) /\ rec.boot = Val!clusterBootstrap(rec.job.cluster)
    BY <1>5 DEF AsksExact
  <2>2. Val!Resume(rec, result) = IF ok THEN Val!Served(rec, <<>>) ELSE Val!Fallback(rec)
    BY <1>5 DEF Val!Resume
  <2>3. QED
    BY <2>1, <2>2 DEF Sound, Val!Served, Val!Fallback, Published
<1>6. QED
  BY ZenonT(30), <1>1, <1>2, <1>3, <1>4, <1>5 DEF AsksExact

\* One worker goes on.
LEMMA OneGoesOn ==
  ASSUME ValidationInv, NEW w \in Worker, work[w].pc \notin {"leads", "joins"},
         NEW r, Sound(r), r.pc \notin {"leads", "joins"},
         work' = [work EXCEPT ![w] = r], UNCHANGED strict
  PROVE  /\ (work = [v \in Worker |-> work[v]])' /\ \A v \in Worker : Sound(work[v])'
         /\ FlightsLed'
<1>1. work' = [v \in Worker |-> work'[v]] /\ \A v \in Worker : work'[v] = IF v = w THEN r ELSE work[v]
  BY DEF ValidationInv
<1>2. ASSUME NEW v \in Worker PROVE Sound(work[v])'
  <2>1. Sound(work'[v])
    BY <1>1 DEF ValidationInv
  <2>2. QED
    BY <2>1 DEF Sound
<1>3. FlightsLed'
  <2>1. OneLeader'
    BY <1>1 DEF ValidationInv, FlightsLed, OneLeader
  <2>2. JoinersLed'
    BY SMTT(30), ZenonT(30), <1>1 DEF ValidationInv, FlightsLed, JoinersLed
  <2>3. QED
    BY <2>1, <2>2 DEF FlightsLed
<1>4. QED
  BY <1>1, <1>2, <1>3

\* A flight lands with a result that is "valid" only for what Envoy accepts.
LEMMA LandSound ==
  ASSUME ValidationInv, NEW w \in Worker, work[w].pc = "leads", NEW result,
         result = "valid" => Val!Accepts(work[w].boot), Val!Land(w, result), UNCHANGED strict
  PROVE  /\ (work = [v \in Worker |-> work[v]])' /\ \A v \in Worker : Sound(work[v])'
         /\ FlightsLed'
<1>1. work' = [v \in Worker |-> IF v \in Val!Flight(w) THEN Val!Resume(work[v], result) ELSE work[v]]
  BY DEF Val!Land
<1>2. ASSUME NEW v \in Worker
      PROVE  Sound(work[v])' /\ (v \in Val!Flight(w) => work'[v].pc \notin {"leads", "joins"})
  <2>1. CASE v \in Val!Flight(w)
    <3>1. work[v].pc \in {"leads", "joins"} /\ work[v].boot = work[w].boot
      BY <2>1 DEF Val!Flight
    <3>2. strict /\ work[v].end = "none" /\ AsksExact(work[v])
      BY ZenonT(30), <3>1 DEF ValidationInv, Sound
    <3>3. Sound(Val!Resume(work[v], result)) /\ Val!Resume(work[v], result).pc \in {"idle", "isolate", "get"}
      BY ZenonT(30), <3>1, <3>2, ResumeSound
    <3>4. work'[v] = Val!Resume(work[v], result)
      BY <1>1, <2>1
    <3>5. Sound(work'[v]) /\ work'[v].pc \notin {"leads", "joins"}
      BY ZenonT(30), <3>3, <3>4
    <3>6. QED
      BY ZenonT(30), <3>5 DEF Sound
  <2>2. CASE v \notin Val!Flight(w)
    <3>1. Sound(work'[v])
      BY ZenonT(30), <1>1, <2>2 DEF ValidationInv
    <3>2. QED
      BY ZenonT(30), <2>2, <3>1 DEF Sound
  <2>3. QED
    BY ZenonT(30), <2>1, <2>2
<1>3. work' = [v \in Worker |-> work'[v]]
  BY ZenonT(30), <1>1
<1>4. \A v \in Worker : work'[v].pc \in {"leads", "joins"} => v \notin Val!Flight(w) /\ work'[v] = work[v]
  BY <1>1, <1>2
<1>5. OneLeader'
  BY ZenonT(30), <1>4 DEF ValidationInv, FlightsLed, OneLeader
<1>6. JoinersLed'
  <2> SUFFICES ASSUME NEW v \in Worker, work'[v].pc = "joins"
               PROVE  \E u \in Worker : work'[u].pc = "leads" /\ work'[u].boot = work'[v].boot
    BY ZenonT(30) DEF JoinersLed
  <2>1. v \notin Val!Flight(w) /\ work'[v] = work[v]
    BY <1>4
  <2>2. PICK u \in Worker : work[u].pc = "leads" /\ work[u].boot = work[v].boot
    BY ZenonT(30), <2>1 DEF ValidationInv, FlightsLed, JoinersLed
  <2>3. u \notin Val!Flight(w)
    BY ZenonT(30), <2>1, <2>2 DEF Val!Flight
  <2>4. QED
    BY ZenonT(30), <1>1, <2>1, <2>2, <2>3
<1>7. QED
  BY <1>2, <1>3, <1>5, <1>6 DEF FlightsLed

\* A verdict that is added displaces others and leaves the rest.
LEMMA AddedTrusted ==
  ASSUME NEW entries, NEW boot, NEW verdict, NEW s \in Val!Added(entries, boot, verdict)
  PROVE  \A e \in s : e \in entries \/ e = [boot |-> boot, verdict |-> verdict]
BY ZenonT(30) DEF Val!Added

\* No worker translates and nothing is remembered.
LEMMA ValidationInit == Val!Init => ValidationInv
BY DEF Val!Init, ValidationInv, Sound, Val!Idle, FlightsLed, OneLeader, JoinersLed

\* computeVirtualHost publishes at once only what needs no verdict.
LEMMA VhostStarts ==
  ASSUME ValidationInv, NEW w \in Worker, NEW job, Val!computeVirtualHost(w, job)
  PROVE  ValidationInv'
<1> DEFINE computed == Val!computedRoutes(job.rules)
           rec == [pc |-> "start", job |-> job, end |-> "none", out |-> <<>>, computed |-> computed,
                   i |-> 1, kept |-> <<>>, boot |-> "none", to |-> "none"]
           r == IF job.policy THEN Val!Fallback(rec)
                ELSE IF ~strict \/ computed = <<>> THEN Val!Served(rec, Val!RoutesOf(computed))
                ELSE Val!Call(rec, Val!validateFullRoutes(Val!RoutesOf(computed)), "batch")
<1>1. Val!IsVhost(job) /\ work[w].pc = "idle" /\ work' = [work EXCEPT ![w] = r] /\ UNCHANGED <<strict, cache, memo, killed>>
  BY ZenonT(30) DEF Val!computeVirtualHost
<1> HIDE DEF computed
<1>2. Sound(r) /\ r.pc \in {"idle", "get"}
  <2>1. CASE job.policy
    BY ZenonT(30), <2>1 DEF Sound, Val!Fallback
  <2>2. CASE ~job.policy /\ (~strict \/ computed = <<>>)
    <3>1. r = Val!Served(rec, Val!RoutesOf(computed))
      BY ZenonT(30), <2>2
    <3>2. computed = <<>> => Val!Accepts(Val!validateFullRoutes(Val!RoutesOf(computed)))
      BY SMTT(30) DEF Val!Accepts, Val!validateFullRoutes, Val!RoutesOf
    <3>3. QED
      BY ZenonT(30), <1>1, <2>2, <3>1, <3>2 DEF Sound, Val!Served, Published
  <2>3. CASE ~job.policy /\ strict /\ computed # <<>>
    <3>1. r = Val!Call(rec, Val!validateFullRoutes(Val!RoutesOf(computed)), "batch")
      BY ZenonT(30), <2>3
    <3>2. Val!IsVhost(rec.job) /\ VhostWork(rec) /\ rec.computed = computed /\ rec.end = "none"
      BY ZenonT(30), <1>1 DEF VhostWork
    <3> HIDE DEF rec
    <3>3. QED
      BY ZenonT(30), <2>3, <3>1, <3>2, CallSound
  <2>4. QED
    BY ZenonT(30), <2>1, <2>2, <2>3
<1> HIDE DEF r
<1>3. QED
  BY ZenonT(30), <1>1, <1>2, OneGoesOn DEF ValidationInv, Trusted

\* validateClusterConfig publishes at once only what the memo vouches for.
LEMMA ClusterStarts ==
  ASSUME ValidationInv, NEW w \in Worker, NEW job, Val!validateClusterConfig(w, job)
  PROVE  ValidationInv'
<1> DEFINE boot == Val!clusterBootstrap(job.cluster)
           hits == {e \in memo : e.boot = boot}
           rec == [pc |-> "start", job |-> job, end |-> "none", out |-> <<>>,
                   boot |-> "none", to |-> "cluster"]
           r == IF ~strict THEN Val!Served(rec, <<>>)
                ELSE IF hits = {} THEN Val!Call(rec, boot, "cluster")
                ELSE Val!Resume(rec, (CHOOSE e \in hits : TRUE).verdict)
<1>1. ~Val!IsVhost(job) /\ work[w].pc = "idle" /\ work' = [work EXCEPT ![w] = r] /\ UNCHANGED <<strict, cache, memo, killed>>
  BY SMTT(30) DEF Val!validateClusterConfig
<1>2. Sound(r) /\ r.pc \in {"idle", "get"}
  <2>1. CASE ~strict
    BY ZenonT(30), <2>1 DEF Sound, Val!Served
  <2>2. CASE strict /\ hits = {}
    <3>1. r = Val!Call(rec, boot, "cluster")
      BY ZenonT(30), <2>2
    <3>2. ~Val!IsVhost(rec.job) /\ ClusterWork(rec) /\ rec.end = "none" /\ boot = Val!clusterBootstrap(rec.job.cluster)
      BY ZenonT(30), <1>1 DEF ClusterWork
    <3> HIDE DEF rec, boot
    <3>3. QED
      BY ZenonT(30), <2>2, <3>1, <3>2, CallSound
  <2>3. CASE strict /\ hits # {}
    <3> DEFINE e == CHOOSE x \in hits : TRUE
    <3>1. e \in memo /\ e.boot = boot
      BY SMTT(30), <2>3
    <3>2. e.verdict = "valid" => Val!Accepts(boot)
      BY ZenonT(30), <3>1 DEF ValidationInv, Trusted
    <3>3. r = Val!Resume(rec, e.verdict)
      BY SMTT(30), <2>3
    <3>4. Val!Resume(rec, e.verdict) = IF e.verdict = "valid" THEN Val!Served(rec, <<>>) ELSE Val!Fallback(rec)
      BY ZenonT(30) DEF Val!Resume
    <3> HIDE DEF e
    <3>5. QED
      BY SMTT(30), <1>1, <3>2, <3>3, <3>4 DEF Sound, Val!Served, Val!Fallback, Published
  <2>4. QED
    BY ZenonT(30), <2>1, <2>2, <2>3
<1> HIDE DEF r
<1>3. QED
  BY ZenonT(30), <1>1, <1>2, OneGoesOn DEF ValidationInv, Trusted

\* Envoy accepts a virtual host that has no routes left.
LEMMA NoRoutesAccepted == Val!Accepts(Val!validateFullRoutes(<<>>))
<1> DEFINE boot == Val!validateFullRoutes(<<>>)
<1>1. "cluster" \notin DOMAIN boot /\ boot.routes = <<>>
  BY DEF Val!validateFullRoutes
<1>2. DOMAIN <<>> = {}
  OBVIOUS
<1> HIDE DEF boot
<1>3. QED
  BY <1>1, <1>2, Zenon DEF Val!Accepts, boot

\* validateStrictRouteBatch publishes nothing that it has not asked about.
LEMMA IsolationGoesOn ==
  ASSUME ValidationInv, NEW w \in Worker, Val!validateStrictRouteBatch(w)
  PROVE  ValidationInv'
<1> DEFINE rec == work[w]
           err == Val!validateRoutePreEnvoy(rec.computed[rec.i].route)
           r == IF rec.i <= Len(rec.computed)
                THEN IF err # "ok" THEN Val!Isolated(rec, err)
                     ELSE Val!Call(rec, Val!validateFullRoutes(<<rec.computed[rec.i].route>>), "alone")
                ELSE IF rec.kept = <<>> THEN Val!Served(rec, <<>>)
                ELSE Val!Call(rec, Val!validateFullRoutes(rec.kept), "again")
<1>1. rec.pc = "isolate" /\ work' = [work EXCEPT ![w] = r] /\ UNCHANGED <<strict, cache, memo, killed>>
  BY ZenonT(30) DEF Val!validateStrictRouteBatch
<1>2. strict /\ rec.end = "none" /\ Val!IsVhost(rec.job) /\ VhostWork(rec)
  BY SMTT(30), <1>1 DEF ValidationInv, Sound
<1>3. Sound(r) /\ r.pc \in {"idle", "isolate", "get"}
  <2> HIDE DEF rec, err
  <2>1. CASE rec.i <= Len(rec.computed) /\ err # "ok"
    BY ZenonT(30), <1>2, <2>1, IsolatedSound
  <2>2. CASE rec.i <= Len(rec.computed) /\ err = "ok"
    BY ZenonT(30), <1>2, <2>2, CallSound
  <2>3. CASE ~(rec.i <= Len(rec.computed)) /\ rec.kept = <<>>
    <3>1. Val!Accepts(Val!validateFullRoutes(<<>>))
      BY NoRoutesAccepted, Zenon
    <3>2. r = Val!Served(rec, <<>>)
      BY SMTT(30), <2>3
    <3>3. QED
      BY SMTT(30), <1>2, <3>1, <3>2 DEF Sound, Val!Served, Published
  <2>4. CASE ~(rec.i <= Len(rec.computed)) /\ rec.kept # <<>>
    BY ZenonT(30), <1>2, <2>4, CallSound
  <2>5. QED
    BY ZenonT(30), <2>1, <2>2, <2>3, <2>4
<1> HIDE DEF r
<1>4. QED
  BY ZenonT(30), <1>1, <1>3, OneGoesOn DEF ValidationInv, Trusted
\* The cache answers, or the worker goes on to the flight.
LEMMA CacheAnswers ==
  ASSUME ValidationInv, NEW w \in Worker, Val!CacheGet(w)
  PROVE  ValidationInv'
<1> DEFINE rec == work[w]
           hits == {e \in cache : e.boot = rec.boot}
           e == CHOOSE x \in hits : TRUE
           r == IF hits = {} THEN [rec EXCEPT !.pc = "do"] ELSE Val!Resume(rec, e.verdict)
<1>1. /\ rec.pc = "get" /\ work' = [work EXCEPT ![w] = r]
      /\ memo' = memo \/ (hits # {} /\ memo' \in Val!Added(memo, rec.boot, e.verdict))
      /\ UNCHANGED <<strict, cache, killed>>
  BY DEF Val!CacheGet, ValidationInv
<1>2. strict /\ rec.end = "none" /\ AsksExact(rec)
  BY <1>1 DEF ValidationInv, Sound
<1>3. hits # {} => e \in cache /\ e.boot = rec.boot
  OBVIOUS
<1>4. hits # {} => Trusted(e)
  BY <1>3 DEF ValidationInv
<1> HIDE DEF e, hits
<1>5. Sound(r) /\ r.pc \in {"idle", "isolate", "get", "do"}
  <2>1. CASE hits = {}
    <3> DEFINE d == [rec EXCEPT !.pc = "do"]
    <3>1. {"pc", "job", "end", "boot", "to"} \subseteq DOMAIN rec
      BY SMTT(30), <1>2 DEF AsksExact, VhostWork, ClusterWork
    <3>2. /\ DOMAIN d = DOMAIN rec /\ d.pc = "do" /\ d.boot = rec.boot /\ d.to = rec.to
          /\ d.job = rec.job /\ d.end = rec.end
      BY <3>1
    <3>3. VhostWork(rec) => d.computed = rec.computed /\ d.kept = rec.kept
      BY ZenonT(30) DEF VhostWork
    <3> HIDE DEF d, rec
    <3>4. AsksExact(d)
      BY ZenonT(30), <1>2, <3>2, <3>3 DEF AsksExact, VhostWork, ClusterWork
    <3>5. r = d
      BY <2>1 DEF d
    <3>6. QED
      BY ZenonT(30), <1>2, <3>2, <3>4, <3>5 DEF Sound
  <2>2. CASE hits # {}
    <3>1. e.verdict = "valid" => Val!Accepts(rec.boot)
      BY <1>3, <1>4, <2>2 DEF Trusted
    <3> HIDE DEF rec
    <3>2. QED
      BY ZenonT(30), <1>2, <2>2, <3>1, ResumeSound
  <2>3. QED
    BY <2>1, <2>2
<1>6. \A x \in memo' : Trusted(x)
  <2>1. CASE memo' = memo
    BY <2>1 DEF ValidationInv
  <2>2. CASE hits # {} /\ memo' \in Val!Added(memo, rec.boot, e.verdict)
    <3>1. [boot |-> rec.boot, verdict |-> e.verdict] = e
      BY <1>3, <1>4, <2>2 DEF Trusted
    <3>2. \A x \in memo' : x \in memo \/ x = e
      BY ZenonT(30), <2>2, <3>1, AddedTrusted
    <3>3. QED
      BY ZenonT(30), <1>4, <2>2, <3>2 DEF ValidationInv
  <2>3. QED
    BY <1>1, <2>1, <2>2
<1> HIDE DEF r
<1>7. QED
  BY ZenonT(30), <1>1, <1>5, <1>6, OneGoesOn DEF ValidationInv, Trusted

\* A worker leads the flight of its bootstrap, or joins the one that leads it.
LEMMA FlightStarts ==
  ASSUME ValidationInv, NEW w \in Worker, Val!FlightDo(w)
  PROVE  ValidationInv'
<1> DEFINE rec == work[w]
           leaders == {v \in Worker : work[v].pc = "leads" /\ work[v].boot = rec.boot}
           p == IF leaders = {} THEN "leads" ELSE "joins"
           r == [rec EXCEPT !.pc = p]
<1>1. rec.pc = "do" /\ work' = [work EXCEPT ![w] = r] /\ UNCHANGED <<strict, cache, memo, killed>>
  BY DEF Val!FlightDo
<1>2. strict /\ rec.end = "none" /\ AsksExact(rec)
  BY <1>1 DEF ValidationInv, Sound
<1>3. {"pc", "job", "end", "boot", "to"} \subseteq DOMAIN rec
  BY ZenonT(30), <1>2 DEF AsksExact, VhostWork, ClusterWork
<1> HIDE DEF p
<1>4. /\ DOMAIN r = DOMAIN rec /\ r.pc = p /\ r.boot = rec.boot /\ r.to = rec.to
      /\ r.job = rec.job /\ r.end = rec.end
  BY <1>3
<1>5. VhostWork(rec) => r.computed = rec.computed /\ r.kept = rec.kept
  BY ZenonT(30) DEF VhostWork
<1> HIDE DEF r
<1>6. AsksExact(r)
  BY ZenonT(30), <1>2, <1>4, <1>5 DEF AsksExact, VhostWork, ClusterWork
<1>7. Sound(r)
  BY SMTT(30), <1>2, <1>4, <1>6 DEF Sound, p
<1>8. work' = [v \in Worker |-> work'[v]] /\ \A v \in Worker : work'[v] = IF v = w THEN r ELSE work[v]
  BY ZenonT(30), <1>1 DEF ValidationInv
<1>9. \A v \in Worker : Sound(work[v])'
  <2>1. \A v \in Worker : Sound(work'[v])
    BY <1>7, <1>8 DEF ValidationInv
  <2>2. QED
    BY ZenonT(30), <1>1, <2>1 DEF Sound
<1>10. FlightsLed'
  <2>1. OneLeader'
    BY SMTT(30), <1>1, <1>4, <1>8 DEF ValidationInv, FlightsLed, OneLeader, p
  <2>2. JoinersLed'
    BY SMTT(30), <1>1, <1>4, <1>8 DEF ValidationInv, FlightsLed, JoinersLed, p
  <2>3. QED
    BY ZenonT(30), <2>1, <2>2 DEF FlightsLed
<1>11. QED
  BY ZenonT(30), <1>1, <1>8, <1>9, <1>10 DEF ValidationInv, Trusted

\* A process ends: its verdict is remembered, as "invalid" if it was killed.
LEMMA FlightEnds ==
  ASSUME ValidationInv, NEW w \in Worker, Val!EnvoyExits(w) \/ Val!EnvoyKilled(w)
  PROVE  ValidationInv'
<1> DEFINE boot == work[w].boot
           verdict == IF Val!EnvoyExits(w) THEN Val!Verdict(boot) ELSE "invalid"
           entry == [boot |-> boot, verdict |-> verdict]
<1>1. /\ work[w].pc = "leads" /\ Val!Land(w, verdict) /\ Val!Remember(w, verdict) /\ UNCHANGED strict
      /\ killed' \in Nat
      /\ killed' = 0 => killed = 0 /\ verdict = Val!Verdict(boot)
  BY SMTT(30) DEF Val!EnvoyExits, Val!EnvoyKilled, ValidationInv
<1>2. verdict = "valid" => Val!Accepts(boot)
  BY DEF Val!Verdict
<1> HIDE DEF verdict
<1>3. /\ (work = [v \in Worker |-> work[v]])' /\ \A v \in Worker : Sound(work[v])'
      /\ FlightsLed'
  BY ZenonT(30), <1>1, <1>2, LandSound
<1>4. \A e \in cache' \cup memo' : e \in cache \cup memo \/ e = entry
  BY SMTT(30), <1>1, AddedTrusted DEF Val!Remember
<1>5. ASSUME NEW e \in cache' \cup memo' PROVE Trusted(e)'
  <2>1. CASE e \in cache \cup memo
    BY ZenonT(30), <1>1, <2>1 DEF ValidationInv, Trusted
  <2>2. CASE e = entry
    BY ZenonT(30), <1>1, <1>2, <2>2 DEF Trusted
  <2>3. QED
    BY ZenonT(30), <1>4, <2>1, <2>2
<1>6. QED
  BY ZenonT(30), <1>1, <1>3, <1>5 DEF ValidationInv

\* A process that could not be run leaves nothing behind.
LEMMA FlightFails ==
  ASSUME ValidationInv, NEW w \in Worker, Val!EnvoyFails(w)
  PROVE  ValidationInv'
<1>1. work[w].pc = "leads" /\ Val!Land(w, "error") /\ UNCHANGED <<strict, cache, memo, killed>>
  BY DEF Val!EnvoyFails
<1>2. /\ (work = [v \in Worker |-> work[v]])' /\ \A v \in Worker : Sound(work[v])'
      /\ FlightsLed'
  BY <1>1, LandSound
<1>3. QED
  BY ZenonT(30), <1>1, <1>2 DEF ValidationInv, Trusted

\* Every step of every worker.
LEMMA ValidationStep == ValidationInv /\ [Val!Next]_(Val!vars) => ValidationInv'
<1> SUFFICES ASSUME ValidationInv, [Val!Next]_(Val!vars) PROVE ValidationInv'
  BY ZenonT(30)
<1>1. CASE UNCHANGED Val!vars
  BY ZenonT(30), <1>1 DEF ValidationInv, Trusted, Sound, FlightsLed, OneLeader, JoinersLed, Val!vars
<1>2. CASE Val!Next
  BY ZenonT(30), <1>2, VhostStarts, ClusterStarts, IsolationGoesOn, CacheAnswers, FlightStarts,
       FlightEnds,
     FlightFails DEF Val!Next, Val!Step
<1>3. QED
  BY <1>1, <1>2

\* In strict mode Envoy accepts whatever is published as a whole, and while no
\* process was killed every remembered verdict is Envoy's own, for any number of
\* workers, any rules and any cache size (validateStrictRouteBatch,
\* cachingValidator.Validate, validateClusterConfig).
THEOREM ValidationServesValid == Val!Spec => [](Val!OnlyValidServed /\ Val!VerdictsExact)
<1>1. ValidationInv => Val!OnlyValidServed
  BY ZenonT(30) DEF ValidationInv, Sound, Val!OnlyValidServed, Published
<1>2. ValidationInv => Val!VerdictsExact
  BY DEF ValidationInv, Trusted, Val!VerdictsExact
<1>3. QED
  BY <1>1, <1>2, ValidationInit, ValidationStep, PTL DEF Val!Spec

\* A bootstrap is run by one process at a time, and whoever waits for a flight
\* waits for one that is running (cachingValidator.Validate, singleflight).
THEOREM ValidationFlightsLed == Val!Spec => []FlightsLed
<1>1. ValidationInv => FlightsLed
  BY DEF ValidationInv
<1>2. QED
  BY <1>1, ValidationInit, ValidationStep, PTL DEF Val!Spec
-----------------------------------------------------------------------------
(* Lists that are put together one after the other.                        *)

\* Induction over the positions of a list.
LEMMA Positions ==
  ASSUME NEW n \in Nat, NEW P, 0 \in P, \A k \in 0..(n - 1) : k \in P => k + 1 \in P
  PROVE  \A k \in 0..n : k \in P
<1> DEFINE T == (0..n) \ P
           R == {x \in Nat \X Nat : x[1] < x[2]}
<1> SUFFICES ASSUME T # {} PROVE FALSE
  OBVIOUS
<1>1. IsWellFoundedOn(R, Nat)
  BY NatLessThanWellFounded DEF OpToRel
<1>2. PICK m \in T : \A k \in T : <<k, m>> \notin R
  <2>1. T \subseteq Nat
    OBVIOUS
  <2>2. QED
    BY ZenonT(30), <1>1, <2>1, WFMin
<1>3. m \in Nat /\ m # 0 /\ m - 1 \in 0..(n - 1) /\ (m - 1) + 1 = m
  OBVIOUS
<1>4. m - 1 \in T
  BY <1>3
<1>5. <<m - 1, m>> \in R
  BY <1>3
<1>6. QED
  BY <1>2, <1>4, <1>5

\* Flatten appends one list after the other.
LEMMA FlattenSteps ==
  ASSUME NEW ss, Len(ss) \in Nat
  PROVE  \E all : /\ Val!Flatten(ss) = all[Len(ss)] /\ all[0] = <<>>
                  /\ \A k \in 1..Len(ss) : all[k] = all[k - 1] \o ss[k]
<1> DEFINE Built(f, n) == f = [i \in 0..n |-> IF i = 0 THEN <<>> ELSE f[i - 1] \o ss[i]]
           P == {n \in Nat : \E f : Built(f, n)}
<1>1. 0 \in P
  <2> DEFINE f == [i \in 0..0 |-> <<>>]
  <2>1. f = [i \in 0..0 |-> IF i = 0 THEN <<>> ELSE f[i - 1] \o ss[i]]
    OBVIOUS
  <2>2. Built(f, 0)
    BY <2>1
  <2>3. QED
    BY ZenonT(30), <2>2
<1>2. ASSUME NEW n \in 0..(Len(ss) - 1), n \in P
      PROVE  n + 1 \in P
  <2>1. PICK f : Built(f, n)
    BY ZenonT(30), <1>2
  <2> DEFINE g == [i \in 0..(n + 1) |-> IF i = n + 1 THEN f[n] \o ss[n + 1] ELSE f[i]]
  <2>2. ASSUME NEW i \in 0..(n + 1)
        PROVE  g[i] = IF i = 0 THEN <<>> ELSE g[i - 1] \o ss[i]
    <3>1. CASE i = n + 1
      <4>1. i \in 0..(n + 1) /\ i # 0 /\ i - 1 = n /\ n \in 0..(n + 1) /\ n # n + 1
        BY <3>1
      <4>2. g[i] = f[n] \o ss[n + 1]
        BY ZenonT(30), <3>1, <4>1
      <4>3. g[n] = f[n]
        BY ZenonT(30), <4>1
      <4>4. QED
        BY ZenonT(30), <3>1, <4>1, <4>2, <4>3
    <3>2. CASE i \in 0..n
      <4>1. f[i] = IF i = 0 THEN <<>> ELSE f[i - 1] \o ss[i]
        BY ZenonT(30), <2>1, <3>2
      <4>2. g[i] = f[i] /\ (i # 0 => g[i - 1] = f[i - 1])
        BY <3>2
      <4>3. QED
        BY <4>1, <4>2
    <3>3. QED
      BY <3>1, <3>2
  <2>3. Built(g, n + 1)
    BY ZenonT(30), <2>2
  <2>4. n + 1 \in Nat
    OBVIOUS
  <2> HIDE DEF g
  <2>5. QED
    BY ZenonT(30), <2>3, <2>4
<1>3. Len(ss) \in P
  <2> HIDE DEF P
  <2>1. \A k \in 0..Len(ss) : k \in P
    BY ZenonT(30), <1>1, <1>2, Positions
  <2>2. QED
    BY <2>1
<1> DEFINE all == CHOOSE f : Built(f, Len(ss))
<1>4. Built(all, Len(ss))
  BY ZenonT(30), <1>3
<1>5. Val!Flatten(ss) = all[Len(ss)]
  BY DEF Val!Flatten
<1> HIDE DEF all
<1>6. ASSUME NEW k \in 0..Len(ss)
      PROVE  all[k] = IF k = 0 THEN <<>> ELSE all[k - 1] \o ss[k]
  BY ZenonT(30), <1>4
<1>7. 0 \in 0..Len(ss) /\ \A k \in 1..Len(ss) : k \in 0..Len(ss) /\ k # 0
  OBVIOUS
<1>8. all[0] = <<>> /\ \A k \in 1..Len(ss) : all[k] = all[k - 1] \o ss[k]
  BY ZenonT(30), <1>6, <1>7
<1>9. QED
  BY ZenonT(30), <1>5, <1>8

\* Flatten of one list more.
LEMMA FlattenAppend ==
  ASSUME NEW ss, NEW tt, NEW n \in Nat, DOMAIN ss = 1..n, Len(ss) = n, Len(tt) = n + 1,
         \A k \in 1..n : tt[k] = ss[k]
  PROVE  Val!Flatten(tt) = Val!Flatten(ss) \o tt[n + 1]
<1>1. PICK a : /\ Val!Flatten(ss) = a[n] /\ a[0] = <<>>
               /\ \A k \in 1..n : a[k] = a[k - 1] \o ss[k]
  BY ZenonT(30), FlattenSteps
<1>2. PICK b : /\ Val!Flatten(tt) = b[n + 1] /\ b[0] = <<>>
               /\ \A k \in 1..(n + 1) : b[k] = b[k - 1] \o tt[k]
  <2>1. Len(tt) \in Nat
    OBVIOUS
  <2>2. \E b : /\ Val!Flatten(tt) = b[Len(tt)] /\ b[0] = <<>>
               /\ \A k \in 1..Len(tt) : b[k] = b[k - 1] \o tt[k]
    BY ZenonT(30), <2>1, FlattenSteps
  <2>3. QED
    BY ZenonT(30), <2>2
<1> DEFINE P == {k \in 0..n : a[k] = b[k]}
<1>3. 0 \in P
  BY <1>1, <1>2
<1>4. ASSUME NEW k \in 0..(n - 1), k \in P
      PROVE  k + 1 \in P
  <2>1. k + 1 \in 1..n /\ k + 1 \in 1..(n + 1) /\ (k + 1) - 1 = k /\ k + 1 \in 0..n
    OBVIOUS
  <2>2. a[k + 1] = a[k] \o ss[k + 1] /\ b[k + 1] = b[k] \o tt[k + 1]
    BY ZenonT(30), <1>1, <1>2, <2>1
  <2>3. a[k] = b[k] /\ ss[k + 1] = tt[k + 1]
    BY <1>4, <2>1
  <2>4. QED
    BY ZenonT(30), <2>1, <2>2, <2>3
<1>5. a[n] = b[n]
  <2> HIDE DEF P
  <2>1. \A k \in 0..n : k \in P
    BY ZenonT(30), <1>3, <1>4, Positions
  <2>2. n \in P
    BY <2>1
  <2>3. QED
    BY <2>2 DEF P
<1>6. n + 1 \in 1..(n + 1) /\ (n + 1) - 1 = n
  OBVIOUS
<1>7. b[n + 1] = b[n] \o tt[n + 1]
  BY ZenonT(30), <1>2, <1>6
<1>8. QED
  BY ZenonT(30), <1>1, <1>2, <1>5, <1>7

\* Flatten of no list.
LEMMA FlattenNone == ASSUME NEW ss, Len(ss) = 0 PROVE Val!Flatten(ss) = <<>>
<1>1. Len(ss) \in Nat
  OBVIOUS
<1>2. QED
  BY ZenonT(30), <1>1, FlattenSteps

-----------------------------------------------------------------------------
(* What isolation makes of a rule is its fate.                             *)

\* A rule with the route that it leaves in the virtual host.
Entry(c) == c.in \in Val!Rule /\ Val!envoyRoutes(c.in) = <<c.route>>

\* What envoyRoutes makes of a rule before Envoy is asked.
LEMMA RouteOfRule ==
  ASSUME strict, NEW rule \in Val!Rule
  PROVE  LET errs == rule.policy \/ rule.earlier \/ (~rule.delegates /\ rule.action \in {"none", "path"})
             gone == ~rule.policy /\ ~rule.delegates /\ rule.action \notin {"none", "path"} /\ rule.matcher = "syntax"
         IN  Val!envoyRoutes(rule) =
               IF gone \/ (rule.delegates /\ ~errs) THEN <<>>
               ELSE <<[name |-> rule.name, matcher |-> rule.matcher,
                       action |-> IF errs THEN "500" ELSE rule.action]>>
<1> DEFINE route == Val!initRoutes(rule)
           err == IF rule.policy THEN "policy"
                  ELSE IF rule.delegates THEN "ok"
                  ELSE IF rule.action = "none" THEN "route"
                  ELSE Val!validateRoutePreEnvoy(route)
<1>1. Val!envoyRoutes(rule) = Val!finalizeRoute(rule, route, err)
  BY DEF Val!envoyRoutes
<1>2. /\ route = [name |-> rule.name, matcher |-> rule.matcher, action |-> rule.action]
      /\ [route EXCEPT !.action = "500"] = [name |-> rule.name, matcher |-> rule.matcher, action |-> "500"]
  BY DEF Val!initRoutes
<1>3. Val!validateRoutePreEnvoy(route) =
        IF rule.action = "path" THEN "route" ELSE IF rule.matcher = "syntax" THEN "matcher" ELSE "ok"
  BY <1>2 DEF Val!validateRoutePreEnvoy, Val!BadPath, Val!BadSyntax
<1>4. rule.policy \in BOOLEAN /\ rule.delegates \in BOOLEAN /\ rule.earlier \in BOOLEAN
  BY DEF Val!Rule
<1> HIDE DEF route
<1>5. Val!finalizeRoute(rule, route, err) =
        IF err = "ok" /\ ~rule.earlier THEN IF rule.delegates THEN <<>> ELSE <<route>>
        ELSE IF err = "matcher" THEN <<>>
        ELSE <<[route EXCEPT !.action = "500"]>>
  BY DEF Val!finalizeRoute
<1>6. CASE rule.policy
  BY ZenonT(30), <1>1, <1>2, <1>4, <1>5, <1>6
<1>7. CASE ~rule.policy /\ rule.delegates
  BY ZenonT(30), <1>1, <1>2, <1>4, <1>5, <1>7
<1>8. CASE ~rule.policy /\ ~rule.delegates
  <2>1. err = IF rule.action \in {"none", "path"} THEN "route"
              ELSE IF rule.matcher = "syntax" THEN "matcher" ELSE "ok"
    BY ZenonT(30), <1>3, <1>8
  <2> HIDE DEF err
  <2>2. QED
    BY ZenonT(30), <1>1, <1>2, <1>4, <1>5, <1>8, <2>1
<1>9. QED
  BY ZenonT(30), <1>4, <1>6, <1>7, <1>8

\* A rule that leaves no route is dropped by its fate too.
LEMMA NoRouteNoFate ==
  ASSUME strict, NEW rule \in Val!Rule, Val!envoyRoutes(rule) = <<>>
  PROVE  Val!Fate(rule) = <<>>
<1>1. rule.policy \in BOOLEAN /\ rule.delegates \in BOOLEAN /\ rule.earlier \in BOOLEAN
  BY DEF Val!Rule
<1>2. \A x : <<x>> # <<>>
  OBVIOUS
<1>3. QED
  BY ZenonT(30), <1>1, <1>2, RouteOfRule DEF Val!Fate

\* The route of a rule that leaves one, against the rule's fate.
LEMMA EntryFate ==
  ASSUME strict, NEW c, Entry(c)
  PROVE  /\ c.route = [name |-> c.route.name, matcher |-> c.route.matcher, action |-> c.route.action]
         /\ c.route.action \in {"ok", "500", "rejected"}
         /\ c.route.matcher # "ok" => Val!Fate(c.in) = <<>>
         /\ c.route.matcher = "ok" /\ c.route.action # "rejected" => Val!Fate(c.in) = <<c.route>>
         /\ c.route.matcher = "ok" /\ c.route.action = "rejected"
              => Val!Fate(c.in) = <<[c.route EXCEPT !.action = "500"]>>
<1> DEFINE rule == c.in
           errs == rule.policy \/ rule.earlier \/ (~rule.delegates /\ rule.action \in {"none", "path"})
           a == IF errs THEN "500" ELSE rule.action
           gone == ~rule.policy /\ ~rule.delegates /\ rule.action \notin {"none", "path"} /\ rule.matcher = "syntax"
<1>1. rule.policy \in BOOLEAN /\ rule.delegates \in BOOLEAN /\ rule.earlier \in BOOLEAN
      /\ rule.action \in {"ok", "path", "rejected", "none"}
  BY DEF Entry, Val!Rule
<1>2. \A x : <<x>> # <<>>
  OBVIOUS
<1>3. /\ ~(gone \/ (rule.delegates /\ ~errs))
      /\ <<c.route>> = <<[name |-> rule.name, matcher |-> rule.matcher, action |-> a]>>
  BY ZenonT(30), <1>2, RouteOfRule DEF Entry
<1>4. c.route = [name |-> rule.name, matcher |-> rule.matcher, action |-> a]
  BY <1>3
<1>5. a \in {"ok", "500", "rejected"}
  BY ZenonT(30), <1>1, <1>3
<1>6. a = "500" <=> errs
  BY ZenonT(30), <1>1, <1>3
<1>7. ~errs => ~rule.delegates /\ a = rule.action /\ ~rule.policy /\ ~rule.earlier
  BY ZenonT(30), <1>1, <1>3
<1> HIDE DEF a
<1>8. /\ c.route.name = rule.name /\ c.route.matcher = rule.matcher /\ c.route.action = a
      /\ c.route = [name |-> c.route.name, matcher |-> c.route.matcher, action |-> c.route.action]
      /\ [c.route EXCEPT !.action = "500"] = [name |-> rule.name, matcher |-> rule.matcher, action |-> "500"]
  BY <1>4
<1> DEFINE bad == rule.policy \/ rule.earlier \/ (~rule.delegates /\ rule.action # "ok")
<1>9. Val!Fate(rule) = IF (rule.delegates /\ ~bad) \/ rule.matcher # "ok" THEN <<>>
                       ELSE <<[name |-> rule.name, matcher |-> "ok", action |-> IF bad THEN "500" ELSE "ok"]>>
  BY ZenonT(30) DEF Val!Fate
<1>10. a = "500" => bad
  BY ZenonT(30), <1>1, <1>6
<1>11. a = "rejected" => bad
  BY ZenonT(30), <1>6, <1>7
<1>12. a = "ok" => ~bad /\ ~rule.delegates
  BY ZenonT(30), <1>6, <1>7
<1> HIDE DEF bad, errs, gone
<1>13. bad => ~(rule.delegates /\ ~bad)
  OBVIOUS
<1>14. c.route.matcher = "ok" =>
         c.route = [name |-> rule.name, matcher |-> "ok", action |-> a]
         /\ [c.route EXCEPT !.action = "500"] = [name |-> rule.name, matcher |-> "ok", action |-> "500"]
  BY <1>4, <1>8
<1> DEFINE fate == Val!Fate(rule)
<1>15. c.route.matcher # "ok" => fate = <<>>
  BY ZenonT(30), <1>8, <1>9
<1>16. c.route.matcher = "ok" /\ a = "ok" => fate = <<c.route>>
  BY ZenonT(30), <1>8, <1>9, <1>12, <1>14
<1>17. c.route.matcher = "ok" /\ a = "500" => fate = <<c.route>>
  BY ZenonT(30), <1>8, <1>9, <1>10, <1>14
<1>18. c.route.matcher = "ok" /\ a = "rejected" => fate = <<[c.route EXCEPT !.action = "500"]>>
  BY ZenonT(30), <1>8, <1>9, <1>11, <1>14
<1>19. QED
  BY ZenonT(30), <1>5, <1>8, <1>15, <1>16, <1>17, <1>18

\* Envoy on a route alone: nothing clashes.
LEMMA AcceptsAlone ==
  ASSUME Val!JobsAdmitted, NEW route
  PROVE  Val!Accepts(Val!validateFullRoutes(<<route>>)) <=>
           route.matcher = "ok" /\ route.action \in {"ok", "500", "dummy-cluster"}
<1> DEFINE routes == <<route>>
           boot == Val!validateFullRoutes(routes)
<1>1. "cluster" \notin DOMAIN boot /\ boot.routes = routes
  BY DEF Val!validateFullRoutes
<1>2. DOMAIN routes = {1} /\ routes[1] = route
  OBVIOUS
<1>3. \A n : <<n, n>> \notin Clash
  BY DEF Val!JobsAdmitted
<1> HIDE DEF routes, boot
<1>4. Val!Accepts(boot) <=>
        /\ \A i \in DOMAIN routes :
             routes[i].matcher = "ok" /\ routes[i].action \in {"ok", "500", "dummy-cluster"}
        /\ \A i, k \in DOMAIN routes :
             routes[i].action = "ok" /\ routes[k].action = "ok"
               => <<routes[i].name, routes[k].name>> \notin Clash
  BY ZenonT(30), <1>1 DEF Val!Accepts
<1>5. QED
  BY ZenonT(30), <1>2, <1>3, <1>4 DEF boot, routes

\* Envoy on a matcher alone.
LEMMA AcceptsMatcher ==
  ASSUME Val!JobsAdmitted, NEW route,
         route = [name |-> route.name, matcher |-> route.matcher, action |-> route.action]
  PROVE  Val!Accepts(Val!validateMatcherOnlyEnvoy(route)) <=> route.matcher = "ok"
<1> DEFINE r == [route EXCEPT !.action = "dummy-cluster"]
<1>1. r.matcher = route.matcher /\ r.action = "dummy-cluster"
  OBVIOUS
<1>2. Val!validateMatcherOnlyEnvoy(route) = Val!validateFullRoutes(<<r>>)
  BY DEF Val!validateMatcherOnlyEnvoy, Val!validateFullRoutes
<1> HIDE DEF r
<1>3. QED
  BY ZenonT(30), <1>1, <1>2, AcceptsAlone

\* Envoy accepts every route of a virtual host that it accepts.
LEMMA AcceptsEach ==
  ASSUME NEW routes, Val!Accepts(Val!validateFullRoutes(routes)), NEW i \in DOMAIN routes
  PROVE  routes[i].matcher = "ok" /\ routes[i].action \in {"ok", "500", "dummy-cluster"}
<1> DEFINE boot == Val!validateFullRoutes(routes)
<1>1. "cluster" \notin DOMAIN boot /\ boot.routes = routes
  BY DEF Val!validateFullRoutes
<1> HIDE DEF boot
<1>2. QED
  BY ZenonT(30), <1>1 DEF Val!Accepts, boot

-----------------------------------------------------------------------------
(* The fates of the rules of a virtual host, one after the other.          *)

\* What isolation should have kept when it takes up route i.
KeptBefore(computed, i) == Val!Flatten([k \in 1..(i - 1) |-> Val!Fate(computed[k].in)])

\* Nothing is kept before the first route.
LEMMA KeptFirst == ASSUME NEW computed PROVE KeptBefore(computed, 1) = <<>>
<1> DEFINE ss == [k \in 1..(1 - 1) |-> Val!Fate(computed[k].in)]
<1>1. Len(ss) = 0
  OBVIOUS
<1> HIDE DEF ss
<1>2. QED
  BY <1>1, FlattenNone DEF KeptBefore, ss

\* Route i adds the fate of its rule.
LEMMA KeptNext ==
  ASSUME NEW computed, NEW i \in Nat \ {0}
  PROVE  KeptBefore(computed, i + 1) = KeptBefore(computed, i) \o Val!Fate(computed[i].in)
<1> DEFINE n == i - 1
           ss == [k \in 1..(i - 1) |-> Val!Fate(computed[k].in)]
           tt == [k \in 1..((i + 1) - 1) |-> Val!Fate(computed[k].in)]
<1>1. n \in Nat /\ n + 1 = i /\ (i + 1) - 1 = n + 1
  OBVIOUS
<1>2. DOMAIN ss = 1..n /\ Len(ss) = n /\ Len(tt) = n + 1 /\ tt[n + 1] = Val!Fate(computed[i].in)
  BY <1>1
<1>3. \A k \in 1..n : tt[k] = ss[k]
  BY <1>1
<1> HIDE DEF ss, tt, n
<1>4. Val!Flatten(tt) = Val!Flatten(ss) \o tt[n + 1]
  BY ZenonT(30), <1>1, <1>2, <1>3, FlattenAppend
<1>5. QED
  BY ZenonT(30), <1>2, <1>4 DEF KeptBefore, ss, tt

\* What is kept depends only on the routes before.
LEMMA KeptSame ==
  ASSUME NEW c, NEW d, NEW n \in Nat, \A k \in 1..n : c[k] = d[k]
  PROVE  KeptBefore(c, n + 1) = KeptBefore(d, n + 1)
<1>1. (n + 1) - 1 = n
  OBVIOUS
<1>2. [k \in 1..n |-> Val!Fate(c[k].in)] = [k \in 1..n |-> Val!Fate(d[k].in)]
  BY ZenonT(30)
<1>3. QED
  BY ZenonT(30), <1>1, <1>2 DEF KeptBefore

\* The rules that leave a route, each with its route.
Entries == {[in |-> r, route |-> Val!envoyRoutes(r)[1]] : r \in {x \in Val!Rule : Val!envoyRoutes(x) # <<>>}}

\* envoyRoutes makes at most one route of a rule.
LEMMA EntriesAre ==
  ASSUME strict
  PROVE  /\ \A c \in Entries : Entry(c)
         /\ \A r \in Val!Rule : Val!envoyRoutes(r) # <<>> =>
              /\ [in |-> r, route |-> Val!envoyRoutes(r)[1]] \in Entries
<1>1. ASSUME NEW r \in Val!Rule, Val!envoyRoutes(r) # <<>>
      PROVE  Val!envoyRoutes(r) = <<Val!envoyRoutes(r)[1]>>
  <2>1. \E x : Val!envoyRoutes(r) = <<x>>
    BY ZenonT(30), <1>1, RouteOfRule
  <2>2. QED
    BY <2>1
<1>2. \A c \in Entries : Entry(c)
  <2> SUFFICES ASSUME NEW c \in Entries PROVE Entry(c)
    OBVIOUS
  <2>1. PICK r \in Val!Rule : Val!envoyRoutes(r) # <<>> /\ c = [in |-> r, route |-> Val!envoyRoutes(r)[1]]
    BY ZenonT(30) DEF Entries
  <2>2. c.in = r /\ c.route = Val!envoyRoutes(r)[1]
    BY ZenonT(30), <2>1
  <2>3. QED
    BY ZenonT(30), <1>1, <2>1, <2>2 DEF Entry
<1>3. QED
  BY ZenonT(30), <1>2 DEF Entries

\* One rule more that leaves a route.
LEMMA EntryKept ==
  ASSUME NEW computed \in Seq(Entries), NEW c \in Entries
  PROVE  /\ computed \o <<c>> \in Seq(Entries)
         /\ KeptBefore(computed \o <<c>>, Len(computed \o <<c>>) + 1)
              = KeptBefore(computed, Len(computed) + 1) \o Val!Fate(c.in)
<1> DEFINE d == computed \o <<c>>
           n == Len(computed)
<1>1. d \in Seq(Entries) /\ Len(d) = n + 1 /\ d[n + 1] = c /\ n \in Nat
  OBVIOUS
<1>2. \A k \in 1..n : d[k] = computed[k]
  OBVIOUS
<1> HIDE DEF d, n
<1>3. n + 1 \in Nat \ {0}
  BY <1>1
<1>4. KeptBefore(d, (n + 1) + 1) = KeptBefore(d, n + 1) \o Val!Fate(c.in)
  BY ZenonT(30), <1>1, <1>3, KeptNext
<1>5. KeptBefore(d, n + 1) = KeptBefore(computed, n + 1)
  BY ZenonT(30), <1>1, <1>2, KeptSame
<1>6. QED
  BY ZenonT(30), <1>1, <1>4, <1>5 DEF d, n

\* The routes that the fates of the rules are made of.
Fates == [name : Nat, matcher : {"ok"}, action : {"ok", "500"}]

\* The fate of a rule is a route or none.
LEMMA FateIs == ASSUME NEW rule \in Val!Rule PROVE Val!Fate(rule) \in Seq(Fates)
<1>1. rule.name \in Nat
  BY DEF Val!Rule
<1>2. \A a \in {"ok", "500"} : [name |-> rule.name, matcher |-> "ok", action |-> a] \in Fates
  BY <1>1 DEF Fates
<1>3. <<>> \in Seq(Fates) /\ \A x \in Fates : <<x>> \in Seq(Fates)
  OBVIOUS
<1>4. QED
  BY ZenonT(30), <1>2, <1>3 DEF Val!Fate

\* computedRoutes has the rules that leave a route, and loses nothing of the fates.
LEMMA ComputedFates ==
  ASSUME strict, NEW rules \in Seq(Val!Rule)
  PROVE  LET computed == Val!computedRoutes(rules)
         IN  /\ computed \in Seq(Entries)
             /\ KeptBefore(computed, Len(computed) + 1)
                  = Val!Flatten([n \in DOMAIN rules |-> Val!Fate(rules[n])])
<1> DEFINE N == Len(rules)
           One(rule) == IF Val!envoyRoutes(rule) = <<>> THEN <<>>
                        ELSE <<[in |-> rule, route |-> Val!envoyRoutes(rule)[1]]>>
           es == [n \in DOMAIN rules |-> One(rules[n])]
           fs == [n \in DOMAIN rules |-> Val!Fate(rules[n])]
<1>1. N \in Nat /\ DOMAIN rules = 1..N /\ Len(es) = N /\ Len(fs) = N
  OBVIOUS
<1>2. \A n \in 1..N : rules[n] \in Val!Rule /\ es[n] = One(rules[n]) /\ fs[n] = Val!Fate(rules[n])
  <2>1. \A n \in 1..N : rules[n] \in Val!Rule
    BY <1>1
  <2>2. QED
    BY ZenonT(30), <1>1, <2>1
<1>3. Val!computedRoutes(rules) = Val!Flatten(es)
  BY DEF Val!computedRoutes
<1> HIDE DEF N, es, fs
<1>4. PICK a : /\ Val!Flatten(es) = a[N] /\ a[0] = <<>>
               /\ \A k \in 1..N : a[k] = a[k - 1] \o es[k]
  BY ZenonT(30), <1>1, FlattenSteps
<1>5. PICK b : /\ Val!Flatten(fs) = b[N] /\ b[0] = <<>>
               /\ \A k \in 1..N : b[k] = b[k - 1] \o fs[k]
  BY ZenonT(30), <1>1, FlattenSteps
<1> DEFINE Good(k) == a[k] \in Seq(Entries) /\ b[k] \in Seq(Fates) /\ b[k] = KeptBefore(a[k], Len(a[k]) + 1)
           P == {k \in 0..N : Good(k)}
<1>6. 0 \in P
  <2>1. <<>> \in Seq(Entries) /\ <<>> \in Seq(Fates) /\ Len(<<>>) + 1 = 1
    OBVIOUS
  <2>2. 0 \in 0..N
    BY <1>1
  <2>3. QED
    BY ZenonT(30), <1>4, <1>5, <2>1, <2>2, KeptFirst
<1>7. ASSUME NEW k \in 0..(N - 1), k \in P
      PROVE  k + 1 \in P
  <2> DEFINE rule == rules[k + 1]
  <2>1. k + 1 \in 1..N /\ (k + 1) - 1 = k /\ k + 1 \in 0..N
    BY <1>1
  <2>2. /\ rule \in Val!Rule /\ a[k + 1] = a[k] \o One(rule)
        /\ b[k + 1] = b[k] \o Val!Fate(rule)
    BY ZenonT(30), <1>2, <1>4, <1>5, <2>1
  <2>3. Good(k)
    BY <1>7
  <2> HIDE DEF rule
  <2>4. CASE Val!envoyRoutes(rule) = <<>>
    <3>1. Val!Fate(rule) = <<>>
      BY ZenonT(30), <2>2, <2>4, NoRouteNoFate
    <3>2. a[k] \o <<>> = a[k] /\ b[k] \o <<>> = b[k]
      BY <2>3
    <3>3. a[k + 1] = a[k] /\ b[k + 1] = b[k]
      BY ZenonT(30), <2>2, <2>3, <2>4, <3>1, <3>2
    <3>4. QED
      BY ZenonT(30), <2>1, <2>3, <3>3
  <2>5. CASE Val!envoyRoutes(rule) # <<>>
    <3> DEFINE c == [in |-> rule, route |-> Val!envoyRoutes(rule)[1]]
    <3>1. c \in Entries /\ c.in = rule /\ a[k + 1] = a[k] \o <<c>>
      BY ZenonT(30), <2>2, <2>5, EntriesAre
    <3> HIDE DEF c
    <3>2. /\ a[k + 1] \in Seq(Entries)
          /\ b[k + 1] = KeptBefore(a[k + 1], Len(a[k + 1]) + 1)
      BY ZenonT(30), <2>2, <2>3, <3>1, EntryKept
    <3>3. Val!Fate(rule) \in Seq(Fates)
      BY ZenonT(30), <2>2, FateIs
    <3>4. b[k] \o Val!Fate(rule) \in Seq(Fates)
      BY <2>3, <3>3
    <3>5. QED
      BY ZenonT(30), <2>1, <2>2, <3>2, <3>4
  <2>6. QED
    BY <2>4, <2>5
<1>8. Good(N)
  <2> HIDE DEF P
  <2>1. \A k \in 0..N : k \in P
    BY ZenonT(30), <1>1, <1>6, <1>7, Positions
  <2>2. N \in P
    BY <1>1, <2>1
  <2>3. QED
    BY ZenonT(30), <2>2 DEF P
<1>9. QED
  BY ZenonT(30), <1>3, <1>4, <1>5, <1>8 DEF fs

\* The routes of a virtual host that Envoy accepts at once are the fates of its rules.
LEMMA AcceptedKept ==
  ASSUME strict, NEW computed \in Seq(Entries),
         Val!Accepts(Val!validateFullRoutes(Val!RoutesOf(computed)))
  PROVE  KeptBefore(computed, Len(computed) + 1) = Val!RoutesOf(computed)
<1> DEFINE N == Len(computed)
           First(m) == [k \in 1..m |-> computed[k].route]
           P == {m \in 0..N : KeptBefore(computed, m + 1) = First(m)}
<1>1. N \in Nat /\ DOMAIN computed = 1..N /\ \A k \in 1..N : computed[k] \in Entries
  OBVIOUS
<1>2. ASSUME NEW k \in 1..N PROVE Val!Fate(computed[k].in) = <<computed[k].route>>
  <2>1. Entry(computed[k])
    BY ZenonT(30), <1>1, EntriesAre
  <2> DEFINE routes == Val!RoutesOf(computed)
  <2>2. k \in DOMAIN routes /\ routes[k] = computed[k].route
    BY ZenonT(30), <1>1 DEF Val!RoutesOf
  <2>3. Val!Accepts(Val!validateFullRoutes(routes))
    OBVIOUS
  <2> HIDE DEF routes
  <2>4. routes[k].matcher = "ok" /\ routes[k].action \in {"ok", "500", "dummy-cluster"}
    BY <2>2, <2>3, AcceptsEach
  <2>5. computed[k].route.matcher = "ok" /\ computed[k].route.action # "rejected"
    BY ZenonT(30), <2>2, <2>4
  <2>6. QED
    BY ZenonT(30), <2>1, <2>5, EntryFate
<1>3. 0 \in P
  <2>1. First(0) = <<>> /\ 0 + 1 = 1 /\ 0 \in 0..N
    BY <1>1
  <2>2. QED
    BY ZenonT(30), <2>1, KeptFirst
<1>4. ASSUME NEW m \in 0..(N - 1), m \in P
      PROVE  m + 1 \in P
  <2>1. m + 1 \in 1..N /\ m + 1 \in 0..N /\ m + 1 \in Nat \ {0}
    BY <1>1
  <2>2. KeptBefore(computed, (m + 1) + 1) = First(m) \o <<computed[m + 1].route>>
    BY ZenonT(30), <1>2, <1>4, <2>1, KeptNext
  <2>3. First(m) \o <<computed[m + 1].route>> = First(m + 1)
    <3> DEFINE f == First(m)
               x == computed[m + 1].route
               g == First(m + 1)
    <3>1. m \in Nat /\ Len(f) = m /\ DOMAIN f = 1..m /\ \A k \in 1..m : k \in 1..(m + 1)
      OBVIOUS
    <3>2. \A k \in 1..m : f[k] = g[k]
      BY ZenonT(30), <3>1
    <3>3. DOMAIN g = 1..(m + 1) /\ g[m + 1] = x /\ Len(g) = m + 1
      BY <1>1
    <3>4. f \in Seq({computed[k].route : k \in 1..N}) /\ g \in Seq({computed[k].route : k \in 1..N})
      BY <1>1, <2>1
    <3> HIDE DEF f, g, x
    <3>5. f \o <<x>> = g
      <4> DEFINE S == {computed[k].route : k \in 1..N}
                 h == f \o <<x>>
      <4>1. x \in S
        BY ZenonT(30), <2>1 DEF x
      <4>2. f \in Seq(S) /\ g \in Seq(S)
        BY ZenonT(30), <3>4
      <4> HIDE DEF S
      <4>3. h \in Seq(S) /\ Len(h) = m + 1 /\ h[m + 1] = x /\ \A k \in 1..m : h[k] = f[k]
        BY <3>1, <4>1, <4>2
      <4>4. DOMAIN h = 1..(m + 1)
        BY <4>3
      <4> HIDE DEF h
      <4>5. \A k \in 1..(m + 1) : k \in 1..m \/ k = m + 1
        BY <3>1
      <4>6. \A k \in 1..(m + 1) : h[k] = g[k]
        BY ZenonT(30), <3>3, <3>2, <4>3, <4>5
      <4>7. h = [k \in 1..(m + 1) |-> h[k]] /\ g = [k \in 1..(m + 1) |-> g[k]]
        BY <3>3, <4>3, <4>4, <4>2
      <4>8. h = g
        BY ZenonT(30), <4>6, <4>7
      <4>9. QED
        BY <4>8 DEF h
    <3>6. QED
      BY <3>5 DEF f, g, x
  <2>4. QED
    BY ZenonT(30), <2>1, <2>2, <2>3
<1>5. N \in P
  <2> HIDE DEF P
  <2>1. \A m \in 0..N : m \in P
    BY ZenonT(30), <1>1, <1>3, <1>4, Positions
  <2>2. QED
    BY <1>1, <2>1
<1>6. QED
  BY ZenonT(30), <1>1, <1>5 DEF Val!RoutesOf

\* What is expected of a virtual host, from the routes that isolation keeps.
LEMMA ExpectedKept ==
  ASSUME strict, NEW job \in Val!VirtualHost, ~job.policy, NEW computed,
         computed = Val!computedRoutes(job.rules), NEW kept, kept = KeptBefore(computed, Len(computed) + 1)
  PROVE  /\ computed \in Seq(Entries)
         /\ Val!Accepts(Val!validateFullRoutes(kept)) => Val!Expected(job) = <<"served", kept>>
         /\ ~Val!Accepts(Val!validateFullRoutes(kept)) => Val!Expected(job) = <<"fallback", <<>>>>
<1>1. job.rules \in Seq(Val!Rule)
  BY DEF Val!VirtualHost
<1>2. /\ computed \in Seq(Entries)
      /\ kept = Val!Flatten([n \in DOMAIN job.rules |-> Val!Fate(job.rules[n])])
  BY ZenonT(30), <1>1, ComputedFates
<1>3. Val!Expected(job) = IF job.policy \/ ~Val!Accepts(Val!validateFullRoutes(kept)) THEN <<"fallback", <<>>>>
                          ELSE <<"served", kept>>
  BY ZenonT(30), <1>2 DEF Val!Expected
<1>4. QED
  BY ZenonT(30), <1>2, <1>3

-----------------------------------------------------------------------------
(* Isolation ends with the fates of the rules.                             *)

\* What a virtual host that is taken apart has come to: the fates of the rules so far.
Isolating(rec) ==
    /\ rec.job \in Val!VirtualHost /\ ~rec.job.policy
    /\ rec.computed = Val!computedRoutes(rec.job.rules)
    /\ rec.i \in 1..(Len(rec.computed) + 1)
    /\ rec.kept = KeptBefore(rec.computed, rec.i)

\* What Envoy is asked while a virtual host is taken apart.
AsksNext(to, rec, boot) ==
    /\ to = "alone" => /\ rec.i <= Len(rec.computed)
                       /\ boot = Val!validateFullRoutes(<<rec.computed[rec.i].route>>)
    /\ to = "matcher" => /\ rec.i <= Len(rec.computed)
                         /\ boot = Val!validateMatcherOnlyEnvoy(rec.computed[rec.i].route)
                         /\ ~Val!Accepts(Val!validateFullRoutes(<<rec.computed[rec.i].route>>))
    /\ to = "again" => rec.i = Len(rec.computed) + 1

\* What is published is what is expected.
AsExpected(rec) ==
    <<rec.end, rec.out>> =
      IF Val!IsVhost(rec.job) THEN Val!Expected(rec.job)
      ELSE <<IF rec.job.cluster = "ok" THEN "served" ELSE "fallback", <<>>>>

\* A translation is over with what is expected of it, or on the way to it.
Exact(rec) ==
    \/ rec.pc = "idle" /\ (rec.end # "none" => AsExpected(rec))
    \/ rec.pc = "isolate" /\ Isolating(rec)
    \/ rec.pc \in {"get", "do", "leads", "joins"} /\ Val!IsVhost(rec.job)
       /\ Isolating(rec) /\ AsksNext(rec.to, rec, rec.boot)
    \/ rec.pc \in {"get", "do", "leads", "joins"} /\ ~Val!IsVhost(rec.job)

IsolationInv ==
    /\ ValidationInv /\ failed \in Nat
    /\ strict /\ killed + failed = 0 => \A w \in Worker : Exact(work[w])

\* A call for a verdict while a virtual host is taken apart.
LEMMA CallExact ==
  ASSUME NEW rec, Val!IsVhost(rec.job), VhostWork(rec), Isolating(rec), NEW b, NEW t, AsksNext(t, rec, b)
  PROVE  Exact(Val!Call(rec, b, t))
<1> DEFINE r == Val!Call(rec, b, t)
<1>1. /\ r.pc = "get" /\ r.boot = b /\ r.to = t /\ r.job = rec.job /\ r.computed = rec.computed
      /\ r.i = rec.i /\ r.kept = rec.kept
  BY ZenonT(30) DEF Val!Call, VhostWork
<1> HIDE DEF r
<1>2. Isolating(r) /\ AsksNext(r.to, r, r.boot)
  BY ZenonT(30), <1>1 DEF Isolating, AsksNext
<1>3. QED
  BY ZenonT(30), <1>1, <1>2 DEF Exact, r

\* Isolation is done with a route when it has made its fate of it.
LEMMA IsolatedExact ==
  ASSUME NEW rec, VhostWork(rec), Isolating(rec), Len(rec.computed) \in Nat, rec.i <= Len(rec.computed), NEW err,
         Val!Fate(rec.computed[rec.i].in) =
           IF err = "ok" THEN <<rec.computed[rec.i].route>>
           ELSE Val!finalizeRoute(rec.computed[rec.i].in, rec.computed[rec.i].route, err)
  PROVE  Exact(Val!Isolated(rec, err))
<1> DEFINE c == rec.computed[rec.i]
           route == IF err = "ok" THEN <<c.route>> ELSE Val!finalizeRoute(c.in, c.route, err)
           r == Val!Isolated(rec, err)
<1>1. r = [rec EXCEPT !.pc = "isolate", !.i = rec.i + 1, !.kept = rec.kept \o route]
  BY ZenonT(30) DEF Val!Isolated
<1>2. route = Val!Fate(rec.computed[rec.i].in)
  BY ZenonT(30)
<1> HIDE DEF route, r
<1>3. /\ r.pc = "isolate" /\ r.job = rec.job /\ r.computed = rec.computed
      /\ r.i = rec.i + 1 /\ r.kept = rec.kept \o route
  BY ZenonT(30), <1>1 DEF VhostWork
<1>4. rec.i \in Nat \ {0} /\ rec.i + 1 \in 1..(Len(rec.computed) + 1)
  BY DEF Isolating
<1>5. r.kept = KeptBefore(rec.computed, rec.i + 1)
  BY ZenonT(30), <1>2, <1>3, <1>4, KeptNext DEF Isolating
<1>6. Isolating(r)
  BY ZenonT(30), <1>3, <1>4, <1>5 DEF Isolating
<1>7. QED
  BY ZenonT(30), <1>3, <1>6 DEF Exact, r

\* The routes of a virtual host that is taken apart.
LEMMA IsolatingEntries ==
  ASSUME strict, NEW rec, Isolating(rec)
  PROVE  /\ rec.computed \in Seq(Entries) /\ Len(rec.computed) \in Nat /\ rec.i \in Nat
         /\ rec.i <= Len(rec.computed) => Entry(rec.computed[rec.i])
<1>1. rec.job.rules \in Seq(Val!Rule)
  BY DEF Isolating, Val!VirtualHost
<1>2. rec.computed \in Seq(Entries)
  BY ZenonT(30), <1>1, ComputedFates DEF Isolating
<1>3. Len(rec.computed) \in Nat /\ rec.i \in Nat /\ rec.i >= 1
  BY <1>2 DEF Isolating
<1>4. rec.i <= Len(rec.computed) => rec.computed[rec.i] \in Entries
  BY <1>2, <1>3
<1>5. QED
  BY ZenonT(30), <1>2, <1>3, <1>4, EntriesAre

\* What a translation publishes once no route is left is what is expected.
LEMMA KeptExact ==
  ASSUME strict, NEW rec, Val!IsVhost(rec.job), Isolating(rec), NEW kept,
         kept = KeptBefore(rec.computed, Len(rec.computed) + 1)
  PROVE  /\ Val!Accepts(Val!validateFullRoutes(kept)) => Exact(Val!Served(rec, kept))
         /\ ~Val!Accepts(Val!validateFullRoutes(kept)) => Exact(Val!Fallback(rec))
<1>1. /\ Val!Accepts(Val!validateFullRoutes(kept)) => Val!Expected(rec.job) = <<"served", kept>>
      /\ ~Val!Accepts(Val!validateFullRoutes(kept)) => Val!Expected(rec.job) = <<"fallback", <<>>>>
  BY ZenonT(30), ExpectedKept DEF Isolating
<1>2. /\ Val!Served(rec, kept).pc = "idle" /\ Val!Served(rec, kept).end = "served"
      /\ Val!Served(rec, kept).job = rec.job /\ Val!Served(rec, kept).out = kept
  BY ZenonT(30) DEF Val!Served
<1>3. /\ Val!Fallback(rec).pc = "idle" /\ Val!Fallback(rec).end = "fallback"
      /\ Val!Fallback(rec).job = rec.job /\ Val!Fallback(rec).out = <<>>
  BY ZenonT(30) DEF Val!Fallback
<1>4. QED
  BY ZenonT(30), <1>1, <1>2, <1>3 DEF Exact, AsExpected

\* Envoy on a cluster.
LEMMA ClusterExact ==
  ASSUME NEW rec, ~Val!IsVhost(rec.job)
  PROVE  /\ Val!Accepts(Val!clusterBootstrap(rec.job.cluster)) => Exact(Val!Served(rec, <<>>))
         /\ ~Val!Accepts(Val!clusterBootstrap(rec.job.cluster)) => Exact(Val!Fallback(rec))
<1> DEFINE b == Val!clusterBootstrap(rec.job.cluster)
<1>1. "cluster" \in DOMAIN b /\ b.cluster = rec.job.cluster
  BY DEF Val!clusterBootstrap
<1> HIDE DEF b
<1>2. Val!Accepts(b) <=> rec.job.cluster = "ok"
  BY ZenonT(30), <1>1 DEF Val!Accepts
<1>3. /\ Val!Served(rec, <<>>).pc = "idle" /\ Val!Served(rec, <<>>).end = "served"
      /\ Val!Served(rec, <<>>).job = rec.job /\ Val!Served(rec, <<>>).out = <<>>
  BY ZenonT(30) DEF Val!Served
<1>4. /\ Val!Fallback(rec).pc = "idle" /\ Val!Fallback(rec).end = "fallback"
      /\ Val!Fallback(rec).job = rec.job /\ Val!Fallback(rec).out = <<>>
  BY ZenonT(30) DEF Val!Fallback
<1>5. QED
  BY ZenonT(30), <1>2, <1>3, <1>4 DEF Exact, AsExpected, b

\* Whatever a translation does with Envoy's own verdict, it is on the way to what
\* is expected.
LEMMA ResumeExact ==
  ASSUME strict, Val!JobsAdmitted, NEW rec, rec.pc \in {"get", "do", "leads", "joins"},
         AsksExact(rec), Exact(rec)
  PROVE  Exact(Val!Resume(rec, Val!Verdict(rec.boot)))
<1> DEFINE result == Val!Verdict(rec.boot)
           ok == result = "valid"
           c == rec.computed[rec.i]
<1>1. ok <=> Val!Accepts(rec.boot)
  BY ZenonT(30) DEF Val!Verdict
<1>2. Val!IsVhost(rec.job) => VhostWork(rec) /\ Isolating(rec) /\ AsksNext(rec.to, rec, rec.boot)
  BY ZenonT(30) DEF Exact, AsksExact
<1>3. Val!IsVhost(rec.job) => Len(rec.computed) \in Nat /\ rec.computed \in Seq(Entries)
                              /\ (rec.i <= Len(rec.computed) => Entry(c))
  BY ZenonT(30), <1>2, IsolatingEntries
<1> HIDE DEF result
<1>4. CASE rec.to = "batch"
  <2>1. Val!IsVhost(rec.job) /\ rec.boot = Val!validateFullRoutes(Val!RoutesOf(rec.computed))
    BY ZenonT(30), <1>4 DEF AsksExact
  <2>2. Val!Resume(rec, result) = IF ok THEN Val!Served(rec, Val!RoutesOf(rec.computed)) ELSE [rec EXCEPT !.pc = "isolate"]
    BY <1>4 DEF Val!Resume
  <2>3. CASE ok
    <3>1. KeptBefore(rec.computed, Len(rec.computed) + 1) = Val!RoutesOf(rec.computed)
      BY ZenonT(30), <1>1, <1>3, <2>1, <2>3, AcceptedKept
    <3>2. QED
      BY ZenonT(30), <1>1, <1>2, <2>1, <2>2, <2>3, <3>1, KeptExact DEF result
  <2>4. CASE ~ok
    <3> DEFINE r == [rec EXCEPT !.pc = "isolate"]
    <3>1. /\ r.pc = "isolate" /\ r.job = rec.job /\ r.computed = rec.computed /\ r.i = rec.i /\ r.kept = rec.kept
      BY ZenonT(30), <1>2, <2>1 DEF VhostWork
    <3>2. Val!Resume(rec, result) = r
      BY ZenonT(30), <2>2, <2>4
    <3> HIDE DEF r
    <3>3. Isolating(r)
      BY ZenonT(30), <1>2, <2>1, <3>1 DEF Isolating
    <3>4. QED
      BY ZenonT(30), <3>1, <3>2, <3>3 DEF Exact, result
  <2>5. QED
    BY <2>3, <2>4
<1>5. CASE rec.to = "alone"
  <2>1. Val!IsVhost(rec.job) /\ rec.i <= Len(rec.computed) /\ rec.boot = Val!validateFullRoutes(<<c.route>>)
    BY ZenonT(30), <1>2, <1>5 DEF AsksExact, AsksNext
  <2>2. Val!Resume(rec, result) = IF ok THEN Val!Isolated(rec, "ok")
                              ELSE Val!Call(rec, Val!validateMatcherOnlyEnvoy(c.route), "matcher")
    BY <1>5 DEF Val!Resume
  <2>3. CASE ok
    <3>1. c.route.matcher = "ok" /\ c.route.action # "rejected"
      BY ZenonT(30), <1>1, <2>1, <2>3, AcceptsAlone
    <3>2. Val!Fate(c.in) = <<c.route>>
      BY ZenonT(30), <1>3, <2>1, <3>1, EntryFate
    <3>3. Exact(Val!Isolated(rec, "ok"))
      BY ZenonT(30), <1>2, <1>3, <2>1, <3>2, IsolatedExact
    <3>4. QED
      BY ZenonT(30), <2>2, <2>3, <3>3 DEF result
  <2>4. CASE ~ok
    <3>1. AsksNext("matcher", rec, Val!validateMatcherOnlyEnvoy(c.route))
      BY ZenonT(30), <1>1, <2>1, <2>4 DEF AsksNext
    <3>2. Exact(Val!Call(rec, Val!validateMatcherOnlyEnvoy(c.route), "matcher"))
      BY ZenonT(30), <1>2, <2>1, <3>1, CallExact
    <3>3. QED
      BY ZenonT(30), <2>2, <2>4, <3>2 DEF result
  <2>5. QED
    BY <2>3, <2>4
<1>6. CASE rec.to = "matcher"
  <2>1. /\ Val!IsVhost(rec.job) /\ rec.i <= Len(rec.computed) /\ rec.boot = Val!validateMatcherOnlyEnvoy(c.route)
        /\ ~Val!Accepts(Val!validateFullRoutes(<<c.route>>))
    BY ZenonT(30), <1>2, <1>6 DEF AsksExact, AsksNext
  <2>2. Val!Resume(rec, result) = Val!Isolated(rec, IF ok THEN "route" ELSE "matcher")
    BY <1>6 DEF Val!Resume
  <2>3. ok <=> c.route.matcher = "ok"
    BY ZenonT(30), <1>1, <1>3, <2>1, EntryFate, AcceptsMatcher
  <2>4. ok => c.route.action = "rejected"
    BY ZenonT(30), <1>3, <2>1, <2>3, EntryFate, AcceptsAlone
  <2> DEFINE err == IF ok THEN "route" ELSE "matcher"
  <2>5. Val!Fate(c.in) = Val!finalizeRoute(c.in, c.route, err) /\ err # "ok"
    <3>1. CASE ok
      BY ZenonT(30), <1>3, <2>1, <2>3, <2>4, <3>1, EntryFate DEF Val!finalizeRoute
    <3>2. CASE ~ok
      BY ZenonT(30), <1>3, <2>1, <2>3, <3>2, EntryFate DEF Val!finalizeRoute
    <3>3. QED
      BY <3>1, <3>2
  <2> HIDE DEF err
  <2>6. Exact(Val!Isolated(rec, err))
    BY ZenonT(30), <1>2, <1>3, <2>1, <2>5, IsolatedExact
  <2>7. QED
    BY ZenonT(30), <2>2, <2>6 DEF err, result
<1>7. CASE rec.to = "again"
  <2>1. Val!IsVhost(rec.job) /\ rec.boot = Val!validateFullRoutes(rec.kept) /\ rec.i = Len(rec.computed) + 1
    BY ZenonT(30), <1>2, <1>7 DEF AsksExact, AsksNext
  <2>2. Val!Resume(rec, result) = IF ok THEN Val!Served(rec, rec.kept) ELSE Val!Fallback(rec)
    BY <1>7 DEF Val!Resume
  <2>3. rec.kept = KeptBefore(rec.computed, Len(rec.computed) + 1)
    BY ZenonT(30), <1>2, <2>1 DEF Isolating
  <2>4. QED
    BY ZenonT(30), <1>1, <1>2, <2>1, <2>2, <2>3, KeptExact DEF result
<1>8. CASE rec.to = "cluster"
  <2>1. ~Val!IsVhost(rec.job) /\ rec.boot = Val!clusterBootstrap(rec.job.cluster)
    BY <1>8 DEF AsksExact
  <2>2. Val!Resume(rec, result) = IF ok THEN Val!Served(rec, <<>>) ELSE Val!Fallback(rec)
    BY <1>8 DEF Val!Resume
  <2>3. QED
    BY ZenonT(30), <1>1, <2>1, <2>2, ClusterExact DEF result
<1>9. QED
  BY ZenonT(30), <1>4, <1>5, <1>6, <1>7, <1>8 DEF AsksExact

\* ValidationMode stays, so a translation that is exact stays so.
LEMMA ExactStays ==
  ASSUME UNCHANGED strict, NEW v, Exact(work'[v])
  PROVE  Exact(work[v])'
BY ZenonT(30) DEF Exact, Isolating, Val!computedRoutes, Val!envoyRoutes, Val!validateRoutePreEnvoy

\* One worker goes on.
LEMMA OneExact ==
  ASSUME ValidationInv, \A v \in Worker : Exact(work[v]), NEW w \in Worker, NEW r, Exact(r),
         work' = [work EXCEPT ![w] = r], UNCHANGED strict
  PROVE  \A v \in Worker : Exact(work[v])'
<1>1. \A v \in Worker : work'[v] = IF v = w THEN r ELSE work[v]
  BY ZenonT(30) DEF ValidationInv
<1>2. \A v \in Worker : Exact(work'[v])
  BY ZenonT(30), <1>1
<1>3. QED
  BY ZenonT(30), <1>2, ExactStays

\* A worker that waits for a verdict goes on to wait for it.
LEMMA WaitExact ==
  ASSUME NEW rec, rec.pc \in {"get", "do", "leads", "joins"}, AsksExact(rec), Exact(rec),
         NEW p \in {"do", "leads", "joins"}, NEW r, r = [rec EXCEPT !.pc = p]
  PROVE  Exact(r)
<1>1. {"pc", "job", "boot", "to"} \subseteq DOMAIN rec
  BY ZenonT(30) DEF AsksExact, VhostWork, ClusterWork
<1>2. r.pc = p /\ r.boot = rec.boot /\ r.to = rec.to /\ r.job = rec.job
  BY <1>1
<1>3. VhostWork(rec) => r.computed = rec.computed /\ r.kept = rec.kept /\ r.i = rec.i
  BY ZenonT(30) DEF VhostWork
<1>4. CASE Val!IsVhost(rec.job)
  <2>1. VhostWork(rec) /\ Isolating(rec) /\ AsksNext(rec.to, rec, rec.boot)
    BY ZenonT(30), <1>4 DEF Exact, AsksExact
  <2>2. Isolating(r) /\ AsksNext(r.to, r, r.boot)
    BY ZenonT(30), <1>2, <1>3, <2>1 DEF Isolating, AsksNext
  <2>3. QED
    BY ZenonT(30), <1>2, <1>4, <2>2 DEF Exact
<1>5. CASE ~Val!IsVhost(rec.job)
  BY ZenonT(30), <1>2, <1>5 DEF Exact
<1>6. QED
  BY <1>4, <1>5

\* computeVirtualHost begins with nothing kept, or is over.
LEMMA VhostExact ==
  ASSUME Val!JobsAdmitted, ValidationInv, strict, \A v \in Worker : Exact(work[v]),
         NEW w \in Worker, NEW job \in Jobs, Val!computeVirtualHost(w, job)
  PROVE  \A v \in Worker : Exact(work[v])'
<1> DEFINE computed == Val!computedRoutes(job.rules)
           rec == [pc |-> "start", job |-> job, end |-> "none", out |-> <<>>, computed |-> computed,
                   i |-> 1, kept |-> <<>>, boot |-> "none", to |-> "none"]
           r == IF job.policy THEN Val!Fallback(rec)
                ELSE IF ~strict \/ computed = <<>> THEN Val!Served(rec, Val!RoutesOf(computed))
                ELSE Val!Call(rec, Val!validateFullRoutes(Val!RoutesOf(computed)), "batch")
<1>1. Val!IsVhost(job) /\ work' = [work EXCEPT ![w] = r] /\ UNCHANGED strict
  BY ZenonT(30) DEF Val!computeVirtualHost
<1>2. job \in Val!VirtualHost
  <2>1. job \in Val!VirtualHost \/ job \in Val!Cluster
    BY ZenonT(30) DEF Val!JobsAdmitted
  <2>2. \A x \in Val!Cluster : "rules" \notin DOMAIN x
    BY DEF Val!Cluster
  <2>3. QED
    BY ZenonT(30), <1>1, <2>1, <2>2 DEF Val!IsVhost
<1>3. job.rules \in Seq(Val!Rule) /\ job.policy \in BOOLEAN
  BY <1>2 DEF Val!VirtualHost
<1>4. computed \in Seq(Entries)
  BY ZenonT(30), <1>3, ComputedFates
<1>5. /\ rec.job = job /\ VhostWork(rec) /\ rec.computed = computed /\ rec.i = 1 /\ rec.kept = <<>>
  BY ZenonT(30) DEF VhostWork
<1>6. ~job.policy => Isolating(rec)
  <2>1. 1 \in 1..(Len(computed) + 1)
    BY <1>4
  <2> HIDE DEF rec
  <2>2. QED
    BY ZenonT(30), <1>2, <1>5, <2>1, KeptFirst DEF Isolating
<1>7. Exact(r)
  <2> HIDE DEF rec
  <2>1. CASE job.policy
    <3>1. Val!Expected(job) = <<"fallback", <<>>>>
      BY ZenonT(30), <2>1 DEF Val!Expected
    <3>2. /\ Val!Fallback(rec).pc = "idle" /\ Val!Fallback(rec).end = "fallback"
          /\ Val!Fallback(rec).job = job /\ Val!Fallback(rec).out = <<>>
      BY ZenonT(30), <1>5 DEF Val!Fallback
    <3>3. QED
      BY ZenonT(30), <1>1, <2>1, <3>1, <3>2 DEF Exact, AsExpected
  <2>2. CASE ~job.policy /\ computed = <<>>
    <3>1. Len(computed) + 1 = 1 /\ Val!RoutesOf(computed) = <<>>
      BY <2>2 DEF Val!RoutesOf
    <3>2. KeptBefore(rec.computed, Len(rec.computed) + 1) = <<>>
      BY ZenonT(30), <1>5, <3>1, KeptFirst
    <3>3. Exact(Val!Served(rec, <<>>))
      BY ZenonT(30), <1>1, <1>5, <1>6, <2>2, <3>2, NoRoutesAccepted, KeptExact
    <3>4. QED
      BY ZenonT(30), <2>2, <3>1, <3>3
  <2>3. CASE ~job.policy /\ computed # <<>>
    <3> DEFINE b == Val!validateFullRoutes(Val!RoutesOf(computed))
    <3>1. AsksNext("batch", rec, b)
      BY DEF AsksNext
    <3>2. r = Val!Call(rec, b, "batch")
      BY ZenonT(30), <2>3
    <3> HIDE DEF b
    <3>3. QED
      BY ZenonT(30), <1>1, <1>5, <1>6, <2>3, <3>1, <3>2, CallExact
  <2>4. QED
    BY ZenonT(30), <1>3, <2>1, <2>2, <2>3
<1> HIDE DEF r
<1>8. QED
  BY ZenonT(30), <1>1, <1>7, OneExact

\* validateClusterConfig is over with what the memo says, or asks.
LEMMA ClusterStartExact ==
  ASSUME ValidationInv, strict, killed = 0, \A v \in Worker : Exact(work[v]),
         NEW w \in Worker, NEW job, Val!validateClusterConfig(w, job)
  PROVE  \A v \in Worker : Exact(work[v])'
<1> DEFINE boot == Val!clusterBootstrap(job.cluster)
           hits == {e \in memo : e.boot = boot}
           rec == [pc |-> "start", job |-> job, end |-> "none", out |-> <<>>,
                   boot |-> "none", to |-> "cluster"]
           r == IF ~strict THEN Val!Served(rec, <<>>)
                ELSE IF hits = {} THEN Val!Call(rec, boot, "cluster")
                ELSE Val!Resume(rec, (CHOOSE e \in hits : TRUE).verdict)
<1>1. ~Val!IsVhost(job) /\ work' = [work EXCEPT ![w] = r] /\ UNCHANGED strict
  BY ZenonT(30) DEF Val!validateClusterConfig
<1>2. Exact(r)
  <2>1. CASE hits = {}
    <3>1. r = Val!Call(rec, boot, "cluster")
      BY ZenonT(30), <2>1
    <3>2. Val!Call(rec, boot, "cluster").pc = "get" /\ Val!Call(rec, boot, "cluster").job = job
      BY ZenonT(30) DEF Val!Call
    <3>3. QED
      BY ZenonT(30), <1>1, <3>1, <3>2 DEF Exact
  <2>2. CASE hits # {}
    <3> DEFINE e == CHOOSE x \in hits : TRUE
    <3>1. e \in memo /\ e.boot = boot
      BY <2>2
    <3>2. e.verdict = Val!Verdict(boot)
      BY ZenonT(30), <3>1 DEF ValidationInv, Trusted
    <3>3. r = Val!Resume(rec, e.verdict)
      BY ZenonT(30), <2>2
    <3>4. Val!Resume(rec, e.verdict) = IF e.verdict = "valid" THEN Val!Served(rec, <<>>) ELSE Val!Fallback(rec)
      BY ZenonT(30) DEF Val!Resume
    <3>5. ~Val!IsVhost(rec.job) /\ boot = Val!clusterBootstrap(rec.job.cluster)
      BY ZenonT(30), <1>1
    <3> HIDE DEF e, rec, boot
    <3>6. e.verdict = "valid" <=> Val!Accepts(boot)
      BY ZenonT(30), <3>2 DEF Val!Verdict
    <3>7. QED
      BY ZenonT(30), <3>3, <3>4, <3>5, <3>6, ClusterExact
  <2>3. QED
    BY <2>1, <2>2
<1> HIDE DEF r
<1>3. QED
  BY ZenonT(30), <1>1, <1>2, OneExact

\* validateStrictRouteBatch makes its fate of a route that fails before Envoy,
\* asks about another, and after the last is over or asks again.
LEMMA IsolationExactStep ==
  ASSUME ValidationInv, strict, \A v \in Worker : Exact(work[v]),
         NEW w \in Worker, Val!validateStrictRouteBatch(w)
  PROVE  \A v \in Worker : Exact(work[v])'
<1> DEFINE rec == work[w]
           c == rec.computed[rec.i]
           err == Val!validateRoutePreEnvoy(c.route)
           r == IF rec.i <= Len(rec.computed)
                THEN IF err # "ok" THEN Val!Isolated(rec, err)
                     ELSE Val!Call(rec, Val!validateFullRoutes(<<c.route>>), "alone")
                ELSE IF rec.kept = <<>> THEN Val!Served(rec, <<>>)
                ELSE Val!Call(rec, Val!validateFullRoutes(rec.kept), "again")
<1>1. rec.pc = "isolate" /\ work' = [work EXCEPT ![w] = r] /\ UNCHANGED strict
  BY ZenonT(30) DEF Val!validateStrictRouteBatch
<1>2. Val!IsVhost(rec.job) /\ VhostWork(rec)
  BY ZenonT(30), <1>1 DEF ValidationInv, Sound
<1>3. Isolating(rec)
  BY ZenonT(30), <1>1 DEF Exact
<1> HIDE DEF rec
<1>4. /\ rec.computed \in Seq(Entries) /\ Len(rec.computed) \in Nat /\ rec.i \in Nat
      /\ rec.i <= Len(rec.computed) => Entry(c)
  BY ZenonT(30), <1>3, IsolatingEntries
<1>5. Exact(r)
  <2>1. CASE rec.i <= Len(rec.computed) /\ err # "ok"
    <3>1. Entry(c)
      BY <1>4, <2>1
    <3>2. c.route.action # "path"
      BY ZenonT(30), <3>1, EntryFate
    <3>3. err = "matcher" /\ c.route.matcher = "syntax"
      BY ZenonT(30), <2>1, <3>2 DEF Val!validateRoutePreEnvoy, Val!BadPath, Val!BadSyntax
    <3>4. Val!Fate(c.in) = <<>>
      BY ZenonT(30), <3>1, <3>3, EntryFate
    <3>5. Val!finalizeRoute(c.in, c.route, "matcher") = <<>>
      BY ZenonT(30) DEF Val!finalizeRoute
    <3>6. r = Val!Isolated(rec, "matcher")
      BY ZenonT(30), <2>1, <3>3
    <3> HIDE DEF err
    <3>7. QED
      BY ZenonT(30), <1>2, <1>3, <1>4, <2>1, <3>4, <3>5, <3>6, IsolatedExact
  <2>2. CASE rec.i <= Len(rec.computed) /\ err = "ok"
    <3> DEFINE b == Val!validateFullRoutes(<<c.route>>)
    <3>1. AsksNext("alone", rec, b)
      BY ZenonT(30), <2>2 DEF AsksNext
    <3>2. r = Val!Call(rec, b, "alone")
      BY ZenonT(30), <2>2
    <3> HIDE DEF b
    <3>3. QED
      BY ZenonT(30), <1>2, <1>3, <3>1, <3>2, CallExact
  <2>3. CASE ~(rec.i <= Len(rec.computed))
    <3>1. rec.i = Len(rec.computed) + 1
      BY <1>3, <1>4, <2>3 DEF Isolating
    <3>2. rec.kept = KeptBefore(rec.computed, Len(rec.computed) + 1)
      BY ZenonT(30), <1>3, <3>1 DEF Isolating
    <3>3. CASE rec.kept = <<>>
      <4>1. r = Val!Served(rec, rec.kept)
        BY ZenonT(30), <2>3, <3>3
      <4>2. Val!Accepts(Val!validateFullRoutes(rec.kept))
        BY ZenonT(30), <3>3, NoRoutesAccepted
      <4>3. QED
        BY ZenonT(30), <1>2, <1>3, <3>2, <4>1, <4>2, KeptExact
    <3>4. CASE rec.kept # <<>>
      <4> DEFINE b == Val!validateFullRoutes(rec.kept)
      <4>1. AsksNext("again", rec, b)
        BY ZenonT(30), <3>1 DEF AsksNext
      <4>2. r = Val!Call(rec, b, "again")
        BY ZenonT(30), <2>3, <3>4
      <4> HIDE DEF b
      <4>3. QED
        BY ZenonT(30), <1>2, <1>3, <4>1, <4>2, CallExact
    <3>5. QED
      BY <3>3, <3>4
  <2>4. QED
    BY ZenonT(30), <2>1, <2>2, <2>3
<1> HIDE DEF r
<1>6. QED
  BY ZenonT(30), <1>1, <1>5, OneExact DEF rec

\* The cache answers with Envoy's own verdict.
LEMMA CacheExact ==
  ASSUME Val!JobsAdmitted, ValidationInv, strict, killed = 0, \A v \in Worker : Exact(work[v]),
         NEW w \in Worker, Val!CacheGet(w)
  PROVE  \A v \in Worker : Exact(work[v])'
<1> DEFINE rec == work[w]
           hits == {e \in cache : e.boot = rec.boot}
           e == CHOOSE x \in hits : TRUE
           r == IF hits = {} THEN [rec EXCEPT !.pc = "do"] ELSE Val!Resume(rec, e.verdict)
<1>1. rec.pc = "get" /\ work' = [work EXCEPT ![w] = r] /\ UNCHANGED strict
  BY DEF Val!CacheGet, ValidationInv
<1>2. AsksExact(rec) /\ Exact(rec)
  BY ZenonT(30), <1>1 DEF ValidationInv, Sound
<1>3. hits # {} => e \in cache /\ e.boot = rec.boot
  OBVIOUS
<1> HIDE DEF e, hits
<1>4. hits # {} => e.verdict = Val!Verdict(rec.boot)
  BY ZenonT(30), <1>3 DEF ValidationInv, Trusted
<1> HIDE DEF rec
<1>5. Exact(r)
  <2>1. rec.pc \in {"get", "do", "leads", "joins"} /\ "do" \in {"do", "leads", "joins"}
    BY <1>1
  <2>2. CASE hits = {}
    <3>1. r = [rec EXCEPT !.pc = "do"]
      BY ZenonT(30), <2>2
    <3> HIDE DEF r
    <3>2. QED
      BY SMTT(30), <1>2, <2>1, <3>1, WaitExact
  <2>3. CASE hits # {}
    <3>1. Exact(Val!Resume(rec, Val!Verdict(rec.boot)))
      BY SMTT(30), <1>2, <2>1, ResumeExact
    <3>2. QED
      BY ZenonT(30), <1>4, <2>3, <3>1
  <2>4. QED
    BY <2>2, <2>3
<1> HIDE DEF r
<1>6. QED
  BY ZenonT(30), <1>1, <1>5, OneExact DEF rec

\* A worker leads a flight or joins one.
LEMMA FlightDoExact ==
  ASSUME ValidationInv, strict, \A v \in Worker : Exact(work[v]), NEW w \in Worker, Val!FlightDo(w)
  PROVE  \A v \in Worker : Exact(work[v])'
<1> DEFINE rec == work[w]
           leaders == {v \in Worker : work[v].pc = "leads" /\ work[v].boot = rec.boot}
           p == IF leaders = {} THEN "leads" ELSE "joins"
           r == [rec EXCEPT !.pc = p]
<1>1. rec.pc = "do" /\ work' = [work EXCEPT ![w] = r] /\ UNCHANGED strict
  BY DEF Val!FlightDo
<1>2. AsksExact(rec) /\ Exact(rec)
  BY ZenonT(30), <1>1 DEF ValidationInv, Sound
<1>3. p \in {"do", "leads", "joins"}
  OBVIOUS
<1> HIDE DEF p, rec
<1>4. Exact(r)
  <2>1. rec.pc \in {"get", "do", "leads", "joins"}
    BY <1>1
  <2>2. r = [rec EXCEPT !.pc = p]
    OBVIOUS
  <2> HIDE DEF r
  <2>3. QED
    BY SMTT(30), <1>2, <1>3, <2>1, <2>2, WaitExact
<1> HIDE DEF r
<1>5. QED
  BY ZenonT(30), <1>1, <1>4, OneExact DEF rec

\* A process that ran to its end tells all of its flight Envoy's own verdict.
LEMMA LandExact ==
  ASSUME Val!JobsAdmitted, ValidationInv, strict, \A v \in Worker : Exact(work[v]),
         NEW w \in Worker, Val!EnvoyExits(w)
  PROVE  \A v \in Worker : Exact(work[v])'
<1> DEFINE result == Val!Verdict(work[w].boot)
<1>1. /\ work' = [v \in Worker |-> IF v \in Val!Flight(w) THEN Val!Resume(work[v], result) ELSE work[v]]
      /\ UNCHANGED strict
  BY ZenonT(30) DEF Val!EnvoyExits, Val!Land
<1>2. ASSUME NEW v \in Worker PROVE Exact(work'[v])
  <2>1. CASE v \in Val!Flight(w)
    <3>1. work[v].pc \in {"leads", "joins"} /\ work[v].boot = work[w].boot
      BY ZenonT(30), <2>1 DEF Val!Flight
    <3>2. AsksExact(work[v]) /\ Exact(work[v])
      BY ZenonT(30), <3>1 DEF ValidationInv, Sound
    <3>3. work'[v] = Val!Resume(work[v], Val!Verdict(work[v].boot))
      BY ZenonT(30), <1>1, <2>1, <3>1
    <3>4. work[v].pc \in {"get", "do", "leads", "joins"}
      BY <3>1
    <3>5. Exact(Val!Resume(work[v], Val!Verdict(work[v].boot)))
      BY SMTT(30), <3>2, <3>4, ResumeExact
    <3>6. QED
      BY ZenonT(30), <3>3, <3>5
  <2>2. CASE v \notin Val!Flight(w)
    BY ZenonT(30), <1>1, <2>2
  <2>3. QED
    BY <2>1, <2>2
<1>3. QED
  BY ZenonT(30), <1>1, <1>2, ExactStays

\* Every step of every worker, for as long as Envoy answers.
LEMMA IsolationStep ==
  ASSUME Val!JobsAdmitted, IsolationInv, [Val!Next]_(Val!vars)
  PROVE  IsolationInv'
<1>1. ValidationInv' /\ killed \in Nat
  BY ZenonT(30), ValidationStep DEF IsolationInv, ValidationInv
<1>2. CASE UNCHANGED Val!vars
  <2>1. UNCHANGED <<strict, work, killed, failed>>
    BY ZenonT(30), <1>2 DEF Val!vars
  <2>2. ASSUME strict, killed + failed = 0, NEW w \in Worker PROVE Exact(work[w])'
    BY ZenonT(30), <2>1, <2>2, ExactStays DEF IsolationInv
  <2>3. QED
    BY ZenonT(30), <1>1, <2>1, <2>2 DEF IsolationInv
<1>3. CASE Val!Next
  <2>1. PICK w \in Worker :
          \/ \E job \in Jobs : Val!computeVirtualHost(w, job) \/ Val!validateClusterConfig(w, job)
          \/ Val!Step(w) \/ Val!EnvoyKilled(w) \/ Val!EnvoyFails(w)
    BY ZenonT(30), <1>3 DEF Val!Next
  <2>2. CASE Val!EnvoyKilled(w) \/ Val!EnvoyFails(w)
    <3>1. failed' \in Nat /\ killed' \in Nat /\ killed' + failed' # 0
      BY <1>1, <2>2 DEF Val!EnvoyKilled, Val!EnvoyFails, IsolationInv
    <3>2. QED
      BY ZenonT(30), <1>1, <3>1 DEF IsolationInv
  <2>3. CASE \/ \E job \in Jobs : Val!computeVirtualHost(w, job) \/ Val!validateClusterConfig(w, job)
             \/ Val!Step(w)
    <3>1. UNCHANGED <<strict, killed, failed>>
      BY ZenonT(30), <2>3 DEF Val!computeVirtualHost, Val!validateClusterConfig, Val!Step,
           Val!validateStrictRouteBatch, Val!CacheGet, Val!FlightDo, Val!EnvoyExits
    <3>2. ASSUME strict, killed + failed = 0 PROVE \A v \in Worker : Exact(work[v])'
      <4>1. ValidationInv /\ killed = 0 /\ \A v \in Worker : Exact(work[v])
        BY <1>1, <3>2 DEF IsolationInv
      <4>2. QED
        BY ZenonT(30), <2>3, <3>2, <4>1, VhostExact, ClusterStartExact, IsolationExactStep, CacheExact,
             FlightDoExact, LandExact DEF Val!Step
    <3>3. QED
      BY ZenonT(30), <1>1, <3>1, <3>2 DEF IsolationInv
  <2>4. QED
    BY ZenonT(30), <2>1, <2>2, <2>3
<1>4. QED
  BY <1>2, <1>3

\* While Envoy always answers, an invalid rule costs only itself, for any rules, any
\* number of workers and any caches: a bad matcher drops the rule, another error makes
\* it a 500, the rules beside it stay, and the whole virtual host falls back only for
\* what no rule alone explains (validateStrictRouteBatch, finalizeRoute).
THEOREM ValidationIsolates == Val!JobsAdmitted => (Val!Spec => []Val!IsolationExact)
<1> SUFFICES ASSUME Val!JobsAdmitted PROVE Val!Spec => []Val!IsolationExact
  OBVIOUS
<1>1. Val!Init => IsolationInv
  <2> SUFFICES ASSUME Val!Init PROVE IsolationInv
    OBVIOUS
  <2>1. failed \in Nat /\ \A w \in Worker : work[w].pc = "idle" /\ work[w].end = "none"
    BY DEF Val!Init, Val!Idle
  <2>2. QED
    BY ZenonT(30), <2>1, ValidationInit DEF IsolationInv, Exact
<1>2. IsolationInv /\ [Val!Next]_(Val!vars) => IsolationInv'
  BY ZenonT(30), IsolationStep
<1>3. IsolationInv => Val!IsolationExact
  <2> SUFFICES ASSUME IsolationInv, strict, killed + failed = 0, NEW w \in Worker, work[w].end # "none"
               PROVE  AsExpected(work[w])
    BY ZenonT(30) DEF Val!IsolationExact, AsExpected
  <2>1. work[w].pc = "idle"
    BY ZenonT(30) DEF IsolationInv, ValidationInv, Sound
  <2>2. QED
    BY ZenonT(30), <2>1 DEF IsolationInv, Exact
<1>4. QED
  BY <1>1, <1>2, <1>3, PTL DEF Val!Spec
=============================================================================
