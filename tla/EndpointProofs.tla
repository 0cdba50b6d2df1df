--------------------------- MODULE EndpointProofs ---------------------------
(***************************************************************************)
(* For any backends, credentials and changes: a row serves no endpoint that *)
(* was resolved for another configuration, and a failed listing takes none  *)
(* away.                                                                    *)
(* The second part: what ClaRetainer retains for a backend is given up when *)
(* the backend goes, and shared until then.                                 *)
(***************************************************************************)
EXTENDS Ec2Discovery, TLAPS

USE Ec2Assumption

Targets(s) == {s} \X Instance

\* What a pass has, and what it has published, was resolved as it is keyed.
ResolvedAsKeyed(r) == \A b \in DOMAIN r : r[b].endpoints \subseteq Targets(r[b].config.semantics)

\* A pass has an entry per config it listed, and a group that is still to answer
\* has left its entries as they began.
PassKeyed ==
    /\ DOMAIN next = DOMAIN configs
    /\ \A b \in DOMAIN next : /\ next[b].config = configs[b]
                              /\ configs[b].credential \in groups => next[b].status = ""

\* What no listing has answered is what the last pass published.
CarriedForward ==
    \A b \in DOMAIN next \cap DOMAIN state :
        /\ next[b].config.semantics = state[b].config.semantics
        /\ next[b].status \notin {"ok", "none"}
        => next[b].endpoints = state[b].endpoints

IInv ==
    /\ running \in [Semantics -> SUBSET Instance] /\ spec \in [Backend -> Specs \cup {None}]
    /\ row \in [Backend -> (SUBSET Endpoint) \cup {None}]
    /\ DOMAIN next \subseteq Backend /\ DOMAIN state \subseteq Backend
    /\ next = [b \in DOMAIN next |-> next[b]]
    /\ \A b \in DOMAIN next : next[b] \in Resolved
    /\ \A b \in DOMAIN state : state[b] \in Resolved
    /\ ResolvedAsKeyed(next) /\ ResolvedAsKeyed(state)
    /\ PassKeyed /\ CarriedForward
    /\ NeverWrongTargets

LEMMA SpecTypes ==
  ASSUME IInv, NEW b \in Backend, Pollable(b)
  PROVE  spec[b] \in Config
BY DEF IInv, Pollable, Config

LEMMA TargetTypes ==
  ASSUME NEW s \in Semantics
  PROVE  Targets(s) \in SUBSET Endpoint
BY DEF Targets, Endpoint

LEMMA Initial == Init => IInv
<1> SUFFICES ASSUME Init PROVE IInv
  OBVIOUS
<1>1. DOMAIN next = {} /\ DOMAIN state = {} /\ DOMAIN configs = {} /\ next = [b \in DOMAIN next |-> next[b]]
  BY DEF Init, Unknown
<1>2. spec \in [Backend -> Specs \cup {None}]
  BY DEF Init
<1>3. row \in [Backend -> (SUBSET Endpoint) \cup {None}] /\ running \in [Semantics -> SUBSET Instance]
  BY DEF Init
<1>4. NeverWrongTargets
  BY DEF Init, NeverWrongTargets
<1>5. ResolvedAsKeyed(next) /\ ResolvedAsKeyed(state) /\ PassKeyed /\ CarriedForward
  BY <1>1 DEF ResolvedAsKeyed, PassKeyed, CarriedForward
<1> QED
  BY <1>1, <1>2, <1>3, <1>4, <1>5 DEF IInv

\* A pass begins with what the last one published for the same semantics.
LEMMA PassBegins ==
  ASSUME IInv, computeState, UNCHANGED <<spec, running, state, stale, rows>>
  PROVE  IInv'
<1> DEFINE polled == {b \in Backend : Pollable(b)}
<1>1. /\ configs' = [b \in polled |-> spec[b]]
      /\ next' = [b \in polled |-> [config |-> spec[b], endpoints |-> carried(b), status |-> ""]]
      /\ groups' = {spec[b].credential : b \in polled}
  BY DEF computeState
<1>2. \A b \in polled : spec[b] \in Config /\ spec[b].semantics \in Semantics
  BY SpecTypes DEF Config
<1>3. \A b \in polled : carried(b) \subseteq Targets(spec[b].semantics)
  BY DEF carried, IInv, ResolvedAsKeyed
<1>4. \A b \in polled : next'[b] \in Resolved
  <2> SUFFICES ASSUME NEW b \in polled PROVE next'[b] \in Resolved
    OBVIOUS
  <2>1. carried(b) \subseteq Endpoint
    BY <1>2, <1>3, TargetTypes
  <2> QED
    BY <1>1, <1>2, <2>1 DEF Resolved, Condition
<1>5. ResolvedAsKeyed(next)'
  BY <1>1, <1>3 DEF ResolvedAsKeyed
<1>6. PassKeyed'
  BY <1>1 DEF PassKeyed
<1>7. CarriedForward'
  BY <1>1 DEF CarriedForward, carried
<1>8. next' = [b \in DOMAIN next' |-> next'[b]] /\ DOMAIN next' \subseteq Backend
  BY <1>1
<1> QED
  BY <1>4, <1>5, <1>6, <1>7, <1>8, <1>1 DEF IInv, ResolvedAsKeyed, NeverWrongTargets, rows

LEMMA ListingKeeps ==
  ASSUME IInv, NEW g \in Credential, ListInstances(g)
  PROVE  IInv'
<1> DEFINE found(b) == selected(configs[b].semantics)
<1>1. /\ groups' = groups \ {g}
      /\ next' = [b \in DOMAIN next |->
                    IF b \notin Group(g) THEN next[b]
                    ELSE [config |-> configs[b], endpoints |-> found(b),
                          status |-> IF found(b) = {} THEN "none" ELSE "ok"]]
      /\ UNCHANGED <<spec, running, loop, requested, configs, state, stale, rows, left>>
  BY DEF ListInstances
<1>2. \A b \in DOMAIN next : configs[b] = next[b].config /\ configs[b] \in Config /\ configs[b].semantics \in Semantics
  BY DEF IInv, PassKeyed, Resolved, Config
<1>3. \A b \in DOMAIN next : found(b) \subseteq Targets(configs[b].semantics)
  BY <1>2 DEF selected, Targets, IInv
<1>4. \A b \in DOMAIN next' : next'[b] \in Resolved
  <2> SUFFICES ASSUME NEW b \in DOMAIN next PROVE next'[b] \in Resolved
    BY ZenonT(30), <1>1
  <2>1. found(b) \subseteq Endpoint
    BY <1>2, <1>3, TargetTypes
  <2> QED
    BY <1>1, <1>2, <2>1 DEF IInv, Resolved, Condition
<1>5. ResolvedAsKeyed(next)'
  <2> SUFFICES ASSUME NEW b \in DOMAIN next
               PROVE  next'[b].endpoints \subseteq Targets(next'[b].config.semantics)
    BY <1>1 DEF ResolvedAsKeyed
  <2>1. CASE b \in Group(g)
    BY <1>1, <1>3, <2>1
  <2>2. CASE b \notin Group(g)
    BY <1>1, <2>2 DEF IInv, ResolvedAsKeyed
  <2> QED
    BY <2>1, <2>2
<1>6. PassKeyed'
  BY <1>1, <1>2 DEF PassKeyed, IInv, Group
<1>7. CarriedForward'
  <2> SUFFICES ASSUME NEW b \in DOMAIN next \cap DOMAIN state,
                      next'[b].config.semantics = state[b].config.semantics, next'[b].status \notin {"ok", "none"}
               PROVE  next'[b].endpoints = state[b].endpoints
    BY <1>1 DEF CarriedForward
  <2>1. b \notin Group(g)
    BY <1>1
  <2> QED
    BY <1>1, <2>1 DEF IInv, CarriedForward
<1>8. next' = [b \in DOMAIN next' |-> next'[b]] /\ DOMAIN next' = DOMAIN next
  BY <1>1
<1> QED
  BY ZenonT(30), <1>1, <1>4, <1>5, <1>6, <1>7, <1>8 DEF IInv, ResolvedAsKeyed, NeverWrongTargets,
       rows

LEMMA FailureKeeps ==
  ASSUME IInv, NEW g \in Credential, ListFails(g)
  PROVE  IInv'
<1>1. /\ groups' = groups \ {g} /\ g \in groups
      /\ next' = [b \in DOMAIN next |->
                    IF b \notin Group(g) THEN next[b]
                    ELSE [next[b] EXCEPT !.status = IF next[b].endpoints # {} THEN "degraded" ELSE "failed"]]
      /\ UNCHANGED <<spec, running, loop, requested, configs, state, stale, rows, left>>
  BY DEF ListFails
<1>2. ASSUME NEW b \in DOMAIN next
      PROVE  /\ next'[b] \in Resolved
             /\ next'[b].config = next[b].config /\ next'[b].endpoints = next[b].endpoints
  BY ZenonT(30), <1>1 DEF IInv, Resolved, Condition
<1>3. DOMAIN next' = DOMAIN next /\ next' = [b \in DOMAIN next' |-> next'[b]]
  BY <1>1
<1>4. ResolvedAsKeyed(next)'
  BY <1>2, <1>3 DEF IInv, ResolvedAsKeyed
<1>5. PassKeyed'
  BY ZenonT(30), <1>1, <1>2, <1>3 DEF IInv, PassKeyed, Group
<1>6. CarriedForward'
  <2> SUFFICES ASSUME NEW b \in DOMAIN next \cap DOMAIN state,
                      next'[b].config.semantics = state[b].config.semantics, next'[b].status \notin {"ok", "none"}
               PROVE  next'[b].endpoints = state[b].endpoints
    BY <1>1 DEF CarriedForward
  <2>1. next[b].status \notin {"ok", "none"}
    BY <1>1 DEF IInv, PassKeyed, Group
  <2> QED
    BY <1>2, <2>1 DEF IInv, CarriedForward
<1> QED
  BY <1>1, <1>2, <1>3, <1>4, <1>5, <1>6 DEF IInv, ResolvedAsKeyed, NeverWrongTargets, rows

\* A row that is computed serves what was resolved for the backend as it is.
LEMMA RowKeeps ==
  ASSUME IInv, NEW b \in Backend, endpointsForBackend(b)
  PROVE  IInv'
<1>1. /\ stale' = stale \ {<<"endpoints", b>>} /\ row' = [row EXCEPT ![b] = served(b)]
      /\ UNCHANGED <<spec, running, loop, pass, state, condition, left>>
  BY DEF endpointsForBackend
<1>2. served(b) = None \/ served(b) \subseteq Targets(spec[b].semantics)
  BY DEF served, IInv, ResolvedAsKeyed
<1>3. served(b) \in (SUBSET Endpoint) \cup {None}
  BY DEF served, IInv, Resolved
<1>4. NeverWrongTargets'
  <2> SUFFICES ASSUME NEW c \in Backend, <<"endpoints", c>> \notin stale', row'[c] # None
               PROVE  row'[c] \subseteq {spec[c].semantics} \X Instance
    BY <1>1 DEF NeverWrongTargets
  <2>1. CASE c = b
    BY <1>1, <1>2, <2>1 DEF IInv, Targets
  <2>2. CASE c # b
    BY <1>1, <2>2 DEF IInv, NeverWrongTargets
  <2> QED
    BY <2>1, <2>2
<1>5. row' \in [Backend -> (SUBSET Endpoint) \cup {None}]
  BY <1>1, <1>3 DEF IInv
<1> QED
  BY <1>1, <1>4, <1>5 DEF IInv, pass, ResolvedAsKeyed, PassKeyed, CarriedForward

\* A changed spec makes the rows of its backend stale and touches no other.
LEMMA SpecChangeKeeps ==
  ASSUME IInv, NEW b \in Backend, SpecChanges(b)
  PROVE  IInv'
<1>1. /\ \A c \in Backend \ {b} : spec'[c] = spec[c]
      /\ spec' \in [Backend -> Specs \cup {None}]
  BY DEF SpecChanges, IInv
<1>2. stale \subseteq stale' /\ <<"endpoints", b>> \in stale'
  BY DEF SpecChanges, Rows
<1>3. UNCHANGED <<running, next, groups, configs, state, row>>
  BY DEF SpecChanges, pass, rows
<1>4. NeverWrongTargets'
  BY <1>1, <1>2, <1>3 DEF IInv, NeverWrongTargets
<1>5. ResolvedAsKeyed(next)' /\ ResolvedAsKeyed(state)' /\ PassKeyed' /\ CarriedForward'
  BY <1>3 DEF IInv, ResolvedAsKeyed, PassKeyed, CarriedForward
<1> QED
  BY <1>1, <1>3, <1>4, <1>5 DEF IInv

\* Every step keeps the invariant.
LEMMA Step ==
  ASSUME IInv, [Next]_vars
  PROVE  IInv'
<1> USE DEF IInv, ResolvedAsKeyed, PassKeyed, CarriedForward, NeverWrongTargets
<1>1. ASSUME NEW b \in Backend, SpecChanges(b)
      PROVE  IInv'
  BY ZenonT(30), <1>1, SpecChangeKeeps
<1>2. ASSUME NEW s \in Semantics, InstancesChange(s)
      PROVE  IInv'
  BY ZenonT(30), <1>2 DEF InstancesChange, pass, rows
<1>3. ASSUME NEW g \in Credential, ListInstances(g) \/ ListFails(g)
      PROVE  IInv'
  BY ZenonT(30), <1>3, ListingKeeps, FailureKeeps
<1>4. CASE drainRefreshRequest
  BY <1>4 DEF drainRefreshRequest, pass, rows
<1>5. CASE firstRefresh \/ requestedRefresh \/ scheduledRefresh
  BY <1>5, PassBegins DEF firstRefresh, requestedRefresh, scheduledRefresh
<1>6. CASE refreshOnce
  <2>1. /\ state' = next /\ next' = Unknown /\ configs' = Unknown /\ stale \subseteq stale'
        /\ UNCHANGED <<spec, running, requested, groups, rows, left>>
    BY <1>6 DEF refreshOnce
  <2>2. DOMAIN next' = {} /\ DOMAIN configs' = {} /\ next' = [b \in DOMAIN next' |-> next'[b]]
    BY <2>1 DEF Unknown
  <2> QED
    BY <2>1, <2>2 DEF rows
<1>7. ASSUME NEW b \in Backend, endpointsForBackend(b)
      PROVE  IInv'
  BY ZenonT(30), <1>7, RowKeeps
<1>8. ASSUME NEW b \in Backend, discoveryStatusForBackend(b)
      PROVE  IInv'
  BY ZenonT(30), <1>8 DEF discoveryStatusForBackend, pass
<1>9. CASE UNCHANGED vars
  BY ZenonT(30), <1>9 DEF vars
<1> QED
  BY ZenonT(30), <1>1, <1>2, <1>3, <1>4, <1>5, <1>6, <1>7, <1>8, <1>9
     DEF Next, Environment, Lists, Refresh, Collections

LEMMA Invariance == Spec => []IInv
BY Initial, Step, PTL DEF Spec

\* For any backends, specs and credentials: a row that is up to date serves no
\* endpoint of another region, port, address type or filter than its backend's.
THEOREM DiscoveryNeverWrongTargets == Spec => []NeverWrongTargets
<1>1. IInv => NeverWrongTargets
  BY DEF IInv
<1> QED
  BY <1>1, Invariance, PTL

\* For any grouping of backends by credential: a refresh whose listing failed
\* leaves the endpoints of a backend that selects the same instances alone.
THEOREM DiscoveryFailureKeepsEndpoints == Spec => FailureKeepsEndpoints
<1> DEFINE A == \A b \in DOMAIN state \cap DOMAIN state' :
                  /\ state'[b].config.semantics = state[b].config.semantics
                  /\ state'[b].status \in {"failed", "degraded"}
                  => state'[b].endpoints = state[b].endpoints
<1>1. ASSUME IInv, [Next]_vars
      PROVE  [A]_vars
  <2>1. CASE refreshOnce
    BY <1>1, <2>1 DEF refreshOnce, IInv, CarriedForward
  <2>2. CASE ~refreshOnce
    <3>1. UNCHANGED state
      BY <1>1, <2>2 DEF Next, Environment, Lists, Refresh, Collections, SpecChanges,
           InstancesChange,
         ListInstances, ListFails, drainRefreshRequest, firstRefresh, requestedRefresh, scheduledRefresh,
         endpointsForBackend, discoveryStatusForBackend, vars
    <3> QED
      BY <3>1
  <2> QED
    BY <2>1, <2>2
<1> QED
  BY <1>1, Invariance, PTL DEF Spec, FailureKeepsEndpoints

HIDE Ec2Assumption

-----------------------------------------------------------------------------
(* ClaRetainer: rows may go on sharing a proto only if equal ones are the     *)
(* same wherever they are: stored, under way in a pass, or retained.          *)

CONSTANTS Client, LocalityOf, Content, NoContent, MaxChanges, MaxInstance
VARIABLES backend, uccs, dirty, deletes, claRows, retained, claPass, handler, instances, raced,
          changes

Retainer == INSTANCE ClaRetainer WITH rows <- claRows, pass <- claPass, None <- NoContent

Equal(x, y) == x.content = y.content /\ x.locality = y.locality

\* Rows f are those of clients, each of its client's locality.
Located(f) == Retainer!IsRows(f) /\ \A c \in DOMAIN f : f[c].locality = LocalityOf[c]

\* Among rows f and g, equal ones are the same proto.
Shared(f, g) == \A c \in DOMAIN f, d \in DOMAIN g : Equal(f[c], g[d]) => f[c] = g[d]

\* Every row of f is a retained proto.
Holds(f) == \A c \in DOMAIN f : f[c] \in retained

\* The types, and what a pass that is under way has built.
RetainerTypes ==
    /\ backend \in Content \cup {NoContent} /\ uccs \subseteq Client
    /\ deletes \in Nat /\ instances \in Nat /\ raced \in BOOLEAN
    /\ Located(claRows) /\ Located(claPass.rows) /\ retained \subseteq Retainer!Cla
    /\ claPass = [at |-> claPass.at, rows |-> claPass.rows]
    /\ claPass.at = "idle" => claPass.rows = Retainer!NoRows

\* Unless the backend came back while its entry was being lost: an entry is
\* given up only while the backend is gone, no two retained protos are equal, and
\* what is retained is what the rows of the last pass are, whether they are
\* stored already or still under way.
RetainerSharing ==
    /\ backend # NoContent => handler # "absent" /\ claPass.at # "absent"
    /\ \A x, y \in retained : Equal(x, y) => x = y
    /\ claPass.at = "idle" => (retained = {} /\ backend = NoContent) \/ Holds(claRows)
    /\ claPass.at \in {"kept", "absent", "done"} => (retained = {} /\ backend = NoContent) \/ Holds(claPass.rows)
    /\ Shared(claRows, claRows) /\ Shared(claPass.rows, claPass.rows) /\ Shared(claRows, claPass.rows)

\* A race with the backend coming back costs sharing, never an entry that leaks.
RetainerInv == RetainerTypes /\ Retainer!NoLeak /\ (~raced => RetainerSharing)

\* A retainer without rows.
LEMMA RetainerInit == Retainer!Init => RetainerInv
<1> SUFFICES ASSUME Retainer!Init PROVE RetainerInv
  OBVIOUS
<1>1. DOMAIN Retainer!NoRows = {}
  BY DEF Retainer!NoRows
<1>2. Located(Retainer!NoRows) /\ Shared(Retainer!NoRows, Retainer!NoRows) /\ Holds(Retainer!NoRows)
  BY <1>1 DEF Located, Retainer!IsRows, Shared, Holds
<1>3. /\ backend = NoContent /\ uccs = {} /\ deletes = 0 /\ claRows = Retainer!NoRows /\ retained = {}
      /\ claPass = [at |-> "idle", rows |-> Retainer!NoRows] /\ handler = "idle"
      /\ instances = 0 /\ raced = FALSE
  BY DEF Retainer!Init, Retainer!Idle
<1>4. RetainerTypes
  BY ZenonT(30), <1>2, <1>3 DEF RetainerTypes
<1>5. Retainer!NoLeak
  BY <1>3 DEF Retainer!NoLeak
<1>6. RetainerSharing
  BY <1>2, <1>3 DEF RetainerSharing
<1> QED BY <1>4, <1>5, <1>6 DEF RetainerInv

\* The backend changes, goes or comes back: the last is the race, if its entry is being lost.
LEMMA BackendChangesKeeps == RetainerInv /\ Retainer!BackendChanges => RetainerInv'
<1> SUFFICES ASSUME RetainerInv, Retainer!BackendChanges
             PROVE  RetainerInv'
  OBVIOUS
<1> USE DEF RetainerInv
<1>1. PICK x \in (Content \cup {NoContent}) \ {backend} :
        backend' = x /\ deletes' = IF x = NoContent THEN deletes + 1 ELSE deletes
  BY DEF Retainer!BackendChanges
<1>2. /\ raced' = (raced \/ (backend = NoContent /\ Retainer!EntryLost))
      /\ UNCHANGED <<uccs, claRows, retained, claPass, handler, instances>>
  BY DEF Retainer!BackendChanges
<1>3. RetainerTypes'
  BY <1>1, <1>2 DEF RetainerTypes, Located, Retainer!IsRows, Retainer!Cla
<1>4. Retainer!NoLeak'
  BY <1>1, <1>2 DEF Retainer!NoLeak, RetainerTypes
<1>5. ASSUME ~raced' PROVE RetainerSharing'
  <2>1. ~raced /\ (backend = NoContent => ~Retainer!EntryLost)
    BY ZenonT(30), <1>2, <1>5
  <2>2. CASE backend # NoContent
    BY SMTT(30), ZenonT(30), <1>1, <1>2, <2>1, <2>2 DEF RetainerSharing, Shared, Holds, Equal
  <2>3. CASE backend = NoContent
    BY SMTT(30), <1>1, <1>2, <2>1, <2>3 DEF RetainerSharing, Retainer!EntryLost, Retainer!NoRows,
         Shared,
         Holds, Equal
  <2> QED BY <2>2, <2>3
<1> QED BY <1>3, <1>4, <1>5

\* A pass interns its rows: one that equals a stored row is that row, for stored
\* rows are retained while the backend is there.
LEMMA BuildRowsKeeps == RetainerInv /\ Retainer!BuildRows => RetainerInv'
<1> SUFFICES ASSUME RetainerInv, Retainer!BuildRows
             PROVE  RetainerInv'
  OBVIOUS
<1> USE DEF RetainerInv
<1>1. claPass.at = "idle" /\ UNCHANGED <<backend, uccs, deletes, retained, handler, raced>>
  BY ZenonT(30) DEF Retainer!BuildRows
<1>2. CASE backend = NoContent
  <2>1. claRows' = Retainer!NoRows /\ UNCHANGED <<claPass, instances>>
    BY <1>2 DEF Retainer!BuildRows
  <2> QED BY SMTT(30), <1>1, <1>2, <2>1 DEF RetainerTypes, RetainerSharing, Retainer!NoLeak,
               Retainer!NoRows,
             Retainer!IsRows, Located, Shared, Holds, Equal, Retainer!Cla
<1>3. CASE backend # NoContent
  <2> DEFINE new(l) == [content |-> backend, locality |-> l, instance |-> instances + 1]
             f == [c \in uccs |-> Retainer!Intern(LocalityOf[c])]
  <2>1. claPass' = [at |-> "built", rows |-> f] /\ instances' = instances + 1 /\ UNCHANGED claRows
    BY <1>3 DEF Retainer!BuildRows
  <2>2. \A c \in uccs : LocalityOf[c] \in Retainer!Locality /\ c \in Client
    BY DEF RetainerTypes, Retainer!Locality
  <2>3. ASSUME NEW l \in Retainer!Locality
        PROVE  /\ Retainer!Intern(l) \in Retainer!Cla
               /\ Retainer!Intern(l).locality = l
               /\ Retainer!Intern(l).content = backend
               /\ \A x \in retained : x.content = backend /\ x.locality = l => Retainer!Intern(l) \in retained
    <3> DEFINE equal == {x \in retained : x.content = backend /\ x.locality = l}
    <3>1. Retainer!Intern(l) = IF equal # {} THEN CHOOSE x \in equal : TRUE ELSE new(l)
      BY DEF Retainer!Intern
    <3>2. CASE equal # {}
      <4>1. Retainer!Intern(l) \in equal
        BY <3>1, <3>2
      <4> QED BY <4>1 DEF RetainerTypes
    <3>3. CASE equal = {}
      <4>1. Retainer!Intern(l) = new(l)
        BY <3>1, <3>3
      <4>2. new(l) \in Retainer!Cla
        BY <1>3 DEF RetainerTypes, Retainer!Cla
      <4> QED BY <4>1, <4>2, <3>3
    <3> QED BY <3>2, <3>3
  <2>4. \A c \in uccs : /\ f[c] = Retainer!Intern(LocalityOf[c]) /\ f[c] \in Retainer!Cla
                        /\ f[c].locality = LocalityOf[c] /\ f[c].content = backend
    BY <2>2, <2>3
  <2>5. Located(f) /\ DOMAIN f = uccs
    BY SMTT(30), <2>2, <2>4 DEF Located, Retainer!IsRows
  <2>6. RetainerTypes'
    BY <1>1, <2>1, <2>5 DEF RetainerTypes, Located, Retainer!IsRows, Retainer!Cla
  <2>7. Retainer!NoLeak'
    BY ZenonT(30), <1>1, <1>3 DEF Retainer!NoLeak
  <2>8. ASSUME ~raced PROVE RetainerSharing'
    <3>1. Shared(f, f)
      BY SMTT(30), <2>4, <2>5 DEF Shared, Equal
    <3>2. ASSUME NEW c \in DOMAIN claRows, NEW d \in uccs, Equal(claRows[c], f[d])
          PROVE  claRows[c] = f[d]
      <4>1. claRows[c] \in retained
        BY <1>1, <1>3, <2>8 DEF RetainerSharing, Holds
      <4>2. claRows[c].content = backend /\ claRows[c].locality = LocalityOf[d]
        BY <2>4, <3>2 DEF Equal
      <4>3. f[d] \in retained
        BY <2>2, <2>3, <2>4, <4>1, <4>2
      <4> QED BY <2>8, <4>1, <4>3, <3>2 DEF RetainerSharing
    <3>3. Shared(claRows, f)
      BY <2>5, <3>2 DEF Shared
    <3> HIDE DEF f
    <3> QED BY SMTT(30), ZenonT(30), <1>1, <2>1, <2>8, <3>1, <3>3 DEF RetainerSharing, Shared, Equal
  <2> QED BY <1>1, <2>6, <2>7, <2>8
<1> QED BY <1>2, <1>3

\* The pass keeps its rows, and forgets them again if the backend has gone since.
LEMMA TransformKeeps ==
  RetainerInv /\ (Retainer!keep \/ Retainer!checkPresent \/ Retainer!forgetKept) => RetainerInv'
<1> SUFFICES ASSUME RetainerInv, Retainer!keep \/ Retainer!checkPresent \/ Retainer!forgetKept
             PROVE  RetainerInv'
  OBVIOUS
<1> USE DEF RetainerInv
<1>1. UNCHANGED <<backend, uccs, deletes, claRows, handler, instances, raced>>
  BY DEF Retainer!keep, Retainer!checkPresent, Retainer!forgetKept
<1>2. CASE Retainer!keep
  <2>1. /\ claPass.at = "built" /\ claPass' = [claPass EXCEPT !.at = "kept"]
        /\ retained' = {claPass.rows[c] : c \in DOMAIN claPass.rows}
    BY <1>2 DEF Retainer!keep
  <2>2. claPass' = [at |-> "kept", rows |-> claPass.rows]
    BY <2>1 DEF RetainerTypes
  <2>3. RetainerTypes'
    BY <1>1, <2>1, <2>2 DEF RetainerTypes, Located, Retainer!IsRows, Retainer!Cla
  <2>4. Retainer!NoLeak'
    BY <1>1, <2>2 DEF Retainer!NoLeak
  <2>5. ~raced => RetainerSharing'
    BY <1>1, <2>1, <2>2 DEF RetainerSharing, Shared, Holds, Equal
  <2> QED BY <1>1, <2>3, <2>4, <2>5
<1>3. CASE Retainer!checkPresent
  <2>1. /\ claPass.at = "kept" /\ UNCHANGED retained
        /\ claPass' = [at |-> IF backend = NoContent THEN "absent" ELSE "done", rows |-> claPass.rows]
    BY <1>3 DEF Retainer!checkPresent, RetainerTypes
  <2>3. RetainerTypes'
    BY <1>1, <2>1 DEF RetainerTypes, Located, Retainer!IsRows, Retainer!Cla
  <2>4. Retainer!NoLeak'
    BY ZenonT(30), <1>1, <2>1 DEF Retainer!NoLeak
  <2>5. ~raced => RetainerSharing'
    BY SMTT(30), <1>1, <2>1 DEF RetainerSharing, Shared, Holds, Equal
  <2> QED BY <1>1, <2>3, <2>4, <2>5
<1>4. CASE Retainer!forgetKept
  <2>1. /\ claPass.at = "absent" /\ retained' = {}
        /\ claPass' = [at |-> "done", rows |-> claPass.rows]
    BY <1>4 DEF Retainer!forgetKept, Retainer!forget, RetainerTypes
  <2>3. RetainerTypes'
    BY <1>1, <2>1 DEF RetainerTypes, Located, Retainer!IsRows, Retainer!Cla
  <2>4. Retainer!NoLeak'
    BY ZenonT(30), <1>1, <2>1 DEF Retainer!NoLeak
  <2>5. ~raced => RetainerSharing'
    BY SMTT(30), <1>1, <2>1 DEF RetainerSharing, Shared, Holds, Equal
  <2> QED BY <1>1, <2>3, <2>4, <2>5
<1> QED BY <1>2, <1>3, <1>4

\* KRT stores the rows of a pass, and of a row that has not changed the old proto.
LEMMA StoreRowsKeeps == RetainerInv /\ Retainer!StoreRows => RetainerInv'
<1> SUFFICES ASSUME RetainerInv, Retainer!StoreRows
             PROVE  RetainerInv'
  OBVIOUS
<1> USE DEF RetainerInv
<1> DEFINE f == claPass.rows
<1>1. /\ claPass.at = "done" /\ claPass' = [at |-> "idle", rows |-> Retainer!NoRows]
      /\ UNCHANGED <<backend, uccs, deletes, retained, handler, instances, raced>>
      /\ claRows' = [c \in DOMAIN f |->
                       IF c \in DOMAIN claRows /\ claRows[c].content = f[c].content
                       THEN claRows[c] ELSE f[c]]
  BY DEF Retainer!StoreRows, Retainer!Idle
<1>2. Located(f) /\ Located(claRows)
  BY ZenonT(30) DEF RetainerTypes
<1>3. Located(claRows') /\ DOMAIN claRows' = DOMAIN f
  BY ZenonT(30), <1>1, <1>2 DEF Located, Retainer!IsRows
<1>4. RetainerTypes'
  BY <1>1, <1>3 DEF RetainerTypes, Located, Retainer!IsRows, Retainer!NoRows, Retainer!Cla
<1>5. Retainer!NoLeak'
  BY ZenonT(30), <1>1 DEF Retainer!NoLeak
<1>6. ASSUME ~raced PROVE RetainerSharing'
  <2>1. \A c \in DOMAIN f : claRows'[c] = f[c]
    BY SMTT(30), <1>1, <1>2, <1>6 DEF RetainerSharing, Shared, Equal, Located
  <2> HIDE DEF f
  <2>2. Shared(claRows', claRows')
    BY SMTT(30), <1>3, <1>6, <2>1 DEF RetainerSharing, Shared, Equal, f
  <2>3. (retained = {} /\ backend = NoContent) \/ \A c \in DOMAIN claRows' : claRows'[c] \in retained
    BY ZenonT(30), <1>1, <1>3, <1>6, <2>1 DEF RetainerSharing, Holds, f
  <2> QED BY ZenonT(30), <1>1, <1>6, <2>2, <2>3 DEF RetainerSharing, Shared, Holds, Equal,
               Retainer!NoRows
<1> QED BY SMTT(30), <1>1, <1>4, <1>5, <1>6

\* Every step of the transform, of the delete handler and of the inputs.
LEMMA RetainerStep == RetainerInv /\ [Retainer!Next]_(Retainer!vars) => RetainerInv'
<1> SUFFICES ASSUME RetainerInv, [Retainer!Next]_(Retainer!vars)
             PROVE  RetainerInv'
  OBVIOUS
<1>1. ASSUME NEW c \in Client, Retainer!ClientChanges(c) PROVE RetainerInv'
  BY SMTT(30), ZenonT(30), <1>1 DEF Retainer!ClientChanges, RetainerInv, RetainerTypes,
       RetainerSharing,
       Retainer!NoLeak,
     Located, Retainer!IsRows, Retainer!Cla, Shared, Holds, Equal
<1>2. CASE Retainer!HandleDelete
  BY SMTT(30), <1>2 DEF Retainer!HandleDelete, RetainerInv, RetainerTypes, RetainerSharing,
       Retainer!NoLeak,
     Located, Retainer!IsRows, Retainer!Cla, Shared, Holds, Equal
<1>3. CASE Retainer!forgetIfAbsent
  BY SMTT(30), ZenonT(30), <1>3 DEF Retainer!forgetIfAbsent, Retainer!forget, RetainerInv,
       RetainerTypes,
       RetainerSharing,
     Retainer!NoLeak, Located, Retainer!IsRows, Retainer!Cla, Shared, Holds, Equal
<1>4. CASE UNCHANGED Retainer!vars
  BY SMTT(30), <1>4 DEF Retainer!vars, RetainerInv, RetainerTypes, RetainerSharing, Retainer!NoLeak,
     Located, Retainer!IsRows, Retainer!Cla, Shared, Holds, Equal
<1> QED
  BY <1>1, <1>2, <1>3, <1>4, BackendChangesKeeps, BuildRowsKeeps, TransformKeeps, StoreRowsKeeps
     DEF Retainer!Next, Retainer!Transform, Retainer!Handler

\* Whatever clients and contents there are: while the entry of a deleted backend
\* is retained, a step that gives it up is still to come, and equal rows are one
\* proto unless the backend came back while its entry was being lost (claRetainer:
\* keep, forget, forgetIfAbsent).
THEOREM RetainerKeepsExact == Retainer!Spec => []Retainer!RetainerExact
<1>1. RetainerInv => Retainer!RetainerExact
  BY DEF RetainerInv, RetainerSharing, Retainer!RetainerExact, Retainer!RowsShare, Shared, Equal
<1> QED
  BY <1>1, RetainerInit, RetainerStep, PTL DEF Retainer!Spec
=============================================================================
