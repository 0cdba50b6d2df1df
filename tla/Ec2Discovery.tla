---------------------------- MODULE Ec2Discovery ----------------------------
(***************************************************************************)
(* ec2EndpointsCollection (plugins/backend/ec2.go): one refresh loop polls  *)
(* EC2 per credential, concurrently, and swaps in a new state; two KRT      *)
(* collections derive from it the endpoints and the discovery condition of  *)
(* each backend, and ask for a refresh when the state does not fit the      *)
(* backend.  A backend's spec is its endpoint semantics (region, filters,   *)
(* port, address type) and its credential; a failed secret lookup is the    *)
(* credential Unresolved, which is never polled.                            *)
(***************************************************************************)
EXTENDS Integers, FiniteSets

CONSTANTS
    Backend,
    Semantics,     \* region, filters, port and address type
    Credential,    \* role and secret version: a credential group
    Unresolved,
    Instance,      \* running instances
    None,
    Specs,         \* the specs that backends take
    Scenarios      \* bounds: the backends at startup, which of them change and
                   \* how often, and how often EC2's instances do

Config == [semantics : Semantics, credential : Credential]
\* An instance is reached at the address and port of the semantics that selects it.
Endpoint == Semantics \X Instance
Condition == {"", "ok", "none", "failed", "degraded"}
Resolved == [config : Config, endpoints : SUBSET Endpoint, status : Condition]

ASSUME Ec2Assumption ==
    /\ Unresolved \notin Credential
    /\ Specs \subseteq [semantics : Semantics, credential : Credential \cup {Unresolved}]
    /\ \A x \in Scenarios : /\ x.spec \in [Backend -> Specs \cup {None}]
                            /\ x.changing \subseteq Backend
                            /\ x.specs \in Nat /\ x.instances \in Nat

VARIABLES
    spec,       \* spec[b]: the backend, or None
    running,    \* running[s]: the instances that semantics s selects
    loop,       \* the refresh loop: "sync", "first", "listing", "waiting"
    requested,  \* refreshCh
    next,       \* nextState of the pass
    groups,     \* credential groups that have still to answer
    configs,    \* the configs the pass has listed
    state,      \* c.state
    stale,      \* <<collection, b>>: KRT has to recompute the row
    row,        \* row[b]: the endpoints published for b, or None
    condition,  \* condition[b]: EndpointsDiscovered, "" for none
    left        \* the changes of the scenario that are left

vars == <<spec, running, loop, requested, next, groups, configs, state, stale, row,
          condition, left>>
pass == <<next, groups, configs>>
rows == <<row, condition>>

Rows == {"endpoints", "status"} \X Backend
\* KRT recomputes rows of backends that exist.
Existing == {r \in Rows : spec[r[2]] # None}
Unknown == [b \in {} |-> None]

Init ==
    /\ \E x \in Scenarios :
         /\ spec = x.spec
         /\ left = [changing |-> x.changing, specs |-> x.specs, instances |-> x.instances]
    /\ running \in [Semantics -> SUBSET Instance]
    /\ loop = "sync" /\ requested = FALSE
    /\ next = Unknown /\ groups = {} /\ configs = Unknown /\ state = Unknown
    /\ stale = Existing
    /\ row = [b \in Backend |-> None] /\ condition = [b \in Backend |-> ""]

\* ec2ConfigFromBackend: the backends that are polled.
Pollable(b) == spec[b] # None /\ spec[b].credential # Unresolved

-----------------------------------------------------------------------------
(* The environment *)

SpecChanges(b) ==
    /\ b \in left.changing /\ left.specs > 0
    /\ left' = [left EXCEPT !.specs = @ - 1]
    /\ \E x \in (Specs \cup {None}) \ {spec[b]} : spec' = [spec EXCEPT ![b] = x]
    /\ stale' = stale \cup {r \in Rows : r[2] = b}
    /\ UNCHANGED <<running, loop, requested, pass, state, rows>>

InstancesChange(s) ==
    /\ left.instances > 0
    /\ left' = [left EXCEPT !.instances = @ - 1]
    /\ \E x \in (SUBSET Instance) \ {running[s]} : running' = [running EXCEPT ![s] = x]
    /\ UNCHANGED <<spec, loop, requested, pass, state, stale, rows>>

-----------------------------------------------------------------------------
(* The refresh loop *)

\* Endpoints are carried forward while the backend selects the same instances.
carried(b) ==
    IF b \in DOMAIN state /\ state[b].config.semantics = spec[b].semantics
    THEN state[b].endpoints ELSE {}

\* computeState up to its goroutines: the configs of the moment, and their
\* credential groups.
computeState ==
    LET polled == {b \in Backend : Pollable(b)}
    IN  /\ configs' = [b \in polled |-> spec[b]]
        /\ next' = [b \in polled |-> [config |-> spec[b], endpoints |-> carried(b), status |-> ""]]
        /\ groups' = {spec[b].credential : b \in polled}

\* run: the backends are synced, queued requests are dropped, the first refresh
\* begins.
drainRefreshRequest ==
    /\ loop = "sync"
    /\ loop' = "first" /\ requested' = FALSE
    /\ UNCHANGED <<spec, running, pass, state, stale, rows, left>>

firstRefresh ==
    /\ loop = "first"
    /\ loop' = "listing"
    /\ computeState
    /\ UNCHANGED <<spec, running, requested, state, stale, rows, left>>

\* The ticker fires.
scheduledRefresh ==
    /\ loop = "waiting"
    /\ loop' = "listing"
    /\ computeState
    /\ UNCHANGED <<spec, running, requested, state, stale, rows, left>>

\* A requested refresh empties the channel as it begins.
requestedRefresh ==
    /\ loop = "waiting" /\ requested
    /\ loop' = "listing" /\ requested' = FALSE
    /\ computeState
    /\ UNCHANGED <<spec, running, state, stale, rows, left>>

\* The endpoints of the running instances that semantics s selects.
selected(s) == {s} \X running[s]

Group(g) == {b \in DOMAIN configs : configs[b].credential = g}

\* A group's listing: selectResolvedEc2Backend for each of its backends.
ListInstances(g) ==
    /\ loop = "listing" /\ g \in groups
    /\ groups' = groups \ {g}
    /\ next' = [b \in DOMAIN next |->
                  IF b \notin Group(g) THEN next[b]
                  ELSE LET found == selected(configs[b].semantics)
                       IN  [config |-> configs[b], endpoints |-> found,
                            status |-> IF found = {} THEN "none" ELSE "ok"]]
    /\ UNCHANGED <<spec, running, loop, requested, configs, state, stale, rows, left>>

\* Mutant: a failed listing drops the endpoints.
ListFailsFlushes(g) ==
    /\ loop = "listing" /\ g \in groups
    /\ groups' = groups \ {g}
    /\ next' = [b \in DOMAIN next |->
                  IF b \notin Group(g) THEN next[b]
                  ELSE [next[b] EXCEPT !.endpoints = {}, !.status = "failed"]]
    /\ UNCHANGED <<spec, running, loop, requested, configs, state, stale, rows, left>>

\* A failed listing changes the status alone.
ListFails(g) ==
    /\ loop = "listing" /\ g \in groups
    /\ groups' = groups \ {g}
    /\ next' = [b \in DOMAIN next |->
                  IF b \notin Group(g) THEN next[b]
                  ELSE [next[b] EXCEPT !.status = IF next[b].endpoints # {} THEN "degraded"
                                                  ELSE "failed"]]
    /\ UNCHANGED <<spec, running, loop, requested, configs, state, stale, rows, left>>

\* Mutant: only a change of the endpoints triggers a recomputation.
refreshOnceEndpointsOnly ==
    /\ loop = "listing" /\ groups = {}
    /\ loop' = "waiting"
    /\ state' = next
    /\ stale' = IF [b \in DOMAIN next |-> next[b].endpoints] # [b \in DOMAIN state |-> state[b].endpoints]
                THEN stale \cup Existing ELSE stale
    /\ next' = Unknown /\ configs' = Unknown
    /\ UNCHANGED <<spec, running, requested, groups, rows, left>>

\* The rest of refreshOnce: the state is swapped in, and any change of it makes
\* KRT recompute every row that depends on the trigger.
refreshOnce ==
    /\ loop = "listing" /\ groups = {}
    /\ loop' = "waiting"
    /\ state' = next
    /\ stale' = IF next # state THEN stale \cup Existing ELSE stale
    /\ next' = Unknown /\ configs' = Unknown
    /\ UNCHANGED <<spec, running, requested, groups, rows, left>>

-----------------------------------------------------------------------------
(* The collections *)

\* Mutant: a backend that changed is served what was resolved for it before.
servedStale(b) ==
    IF ~Pollable(b) THEN None ELSE IF b \in DOMAIN state THEN state[b].endpoints ELSE {}

\* What endpointsForBackend returns: nothing that was resolved under other
\* semantics.
served(b) ==
    IF ~Pollable(b) THEN None
    ELSE IF b \in DOMAIN state /\ state[b].config.semantics = spec[b].semantics
    THEN state[b].endpoints ELSE {}

\* Mutant: only a backend that no pass has covered asks for a refresh.
outdatedIfNew(b) == Pollable(b) /\ b \notin DOMAIN state

\* When it asks for a refresh: no pass has covered the backend as it is now.
outdated(b) == Pollable(b) /\ (b \notin DOMAIN state \/ state[b].config # spec[b])

endpointsForBackend(b) ==
    /\ <<"endpoints", b>> \in stale
    /\ stale' = stale \ {<<"endpoints", b>>}
    /\ row' = [row EXCEPT ![b] = served(b)]
    /\ requested' = (requested \/ outdated(b))
    /\ UNCHANGED <<spec, running, loop, pass, state, condition, left>>

discoveryStatusForBackend(b) ==
    /\ <<"status", b>> \in stale
    /\ stale' = stale \ {<<"status", b>>}
    /\ condition' = [condition EXCEPT ![b] =
                       IF spec[b] = None THEN ""
                       ELSE IF spec[b].credential = Unresolved THEN "failed"
                       ELSE IF b \in DOMAIN state THEN state[b].status ELSE ""]
    /\ UNCHANGED <<spec, running, loop, requested, pass, state, row, left>>

-----------------------------------------------------------------------------
Environment ==
    (\E b \in Backend : SpecChanges(b)) \/ (\E s \in Semantics : InstancesChange(s))
Lists == \E g \in Credential : ListInstances(g) \/ ListFails(g)
Refresh == drainRefreshRequest \/ firstRefresh \/ requestedRefresh \/ refreshOnce
Collections == \E b \in Backend : endpointsForBackend(b) \/ discoveryStatusForBackend(b)

Next == Environment \/ Lists \/ Refresh \/ scheduledRefresh \/ Collections

Spec == Init /\ [][Next]_vars

\* The loop and KRT make progress and every listing ends, if only by its
\* timeout.  The ticker is not relied on.
Fairness ==
    /\ WF_vars(Refresh) /\ WF_vars(Lists)
    /\ SF_vars(requestedRefresh)
    /\ \A b \in Backend : WF_vars(endpointsForBackend(b)) /\ WF_vars(discoveryStatusForBackend(b))

FairSpec == Spec /\ Fairness

-----------------------------------------------------------------------------
TypeOK ==
    /\ spec \in [Backend -> Specs \cup {None}] /\ running \in [Semantics -> SUBSET Instance]
    /\ loop \in {"sync", "first", "listing", "waiting"}
    /\ requested \in BOOLEAN
    /\ groups \subseteq Credential /\ stale \subseteq Rows
    /\ DOMAIN state \subseteq Backend /\ \A b \in DOMAIN state : state[b] \in Resolved
    /\ DOMAIN next = DOMAIN configs /\ \A b \in DOMAIN next : next[b] \in Resolved
    /\ row \in [Backend -> (SUBSET Endpoint) \cup {None}] /\ condition \in [Backend -> Condition]

\* A row that is up to date serves no endpoints that were resolved for a region,
\* a port, an address type or filters other than the backend's.
NeverWrongTargets ==
    \A b \in Backend :
        <<"endpoints", b>> \notin stale /\ row[b] # None =>
            row[b] \subseteq {spec[b].semantics} \X Instance

\* A refresh takes endpoints away from a backend that still selects the same
\* instances only if a listing that succeeded says so: a failed listing, or the
\* failure of another group, does not.
FailureKeepsEndpoints ==
    [][\A b \in DOMAIN state \cap DOMAIN state' :
         /\ state'[b].config.semantics = state[b].config.semantics
         /\ state'[b].status \in {"failed", "degraded"}
         => state'[b].endpoints = state[b].endpoints]_vars

\* Without waiting for the ticker, a pass in the end covers every backend as it
\* is: a request that arrives while a pass is under way, or is dropped before the
\* first one, is not lost.
RefreshedOnDemand ==
    <>[](\A b \in Backend : Pollable(b) => b \in DOMAIN state /\ state[b].config = spec[b])

\* The ticker keeps firing and listings have stopped failing.
Polled ==
    /\ []<><<scheduledRefresh>>_vars
    /\ <>[][~\E g \in Credential : ListFails(g)]_vars

\* While EC2 is polled and answers, what is published becomes what EC2 runs, and
\* a condition that told of a failure goes back to what EC2 answers, also when
\* the endpoints have stayed the same throughout.
DiscoveryConverges ==
    Polled => <>[](\A b \in Backend : Pollable(b) =>
                     /\ row[b] = selected(spec[b].semantics)
                     /\ condition[b] = IF row[b] = {} THEN "none" ELSE "ok")

\* Changes are covered without the ticker, and polling heals what failed.
RefreshesConverge == RefreshedOnDemand /\ DiscoveryConverges
=============================================================================
