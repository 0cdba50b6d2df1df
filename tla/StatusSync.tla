----------------------------- MODULE StatusSync -----------------------------
(***************************************************************************)
(* The status pipeline of the leader: raw-object and report handlers        *)
(* (pluginsdk/statussync/collections.go), the request table of the worker   *)
(* pool (StatusRequests), the writer (pluginsdk/statussync/writer.go) and   *)
(* the StatusSyncer that attaches them (proxy_syncer/status_syncer.go),     *)
(* against an API server with optimistic concurrency, an informer that lags *)
(* behind it, another controller that writes the same status, and restarts. *)
(*                                                                          *)
(* The status of an object is split by owner: `ours` are the entries that   *)
(* carry our controller name, `theirs` those of another controller.         *)
(***************************************************************************)
EXTENDS Integers

CONSTANTS
    Resource,      \* identities of the objects of one status kind
    Report,        \* statuses that translation can want for an object
    MaxAttempts,   \* maxRetryAttempts
    MaxChanges,    \* bound: changes of the desired reports
    MaxForeign,    \* bound: status writes of the other controller
    MaxDeletes,    \* bound: deletions and creations of objects
    MaxFailures,   \* bound: transient errors of the API server
    MaxRestarts    \* bound: losses of leadership

None == "none"         \* nothing of ours: no report, no entry of ours
Missing == "missing"   \* the report reducer has no row for the object
Absent == [rv |-> 0, ours |-> None, theirs |-> 0]   \* no such object

ASSUME StatusAssumption ==
    /\ None \notin Report /\ Missing \notin Report
    /\ MaxAttempts \in Nat \ {0}
    /\ {MaxChanges, MaxForeign, MaxDeletes, MaxFailures, MaxRestarts} \subseteq Nat

VARIABLES
    api,       \* api[r]: the stored object
    clock,     \* the API server's resourceVersion counter
    cache,     \* cache[r]: the object in the raw KRT collection
    want,      \* want[r]: the status contribution of translation
    report,    \* report[r]: the reducer's row, a Report, None or Missing
    synced,    \* WaitForCacheSync has returned
    attached,  \* the handlers are attached and the pool is open
    events,    \* resources with a handler event that has not been delivered
    owed,      \* the worker pool: see StatusRequests
    running,
    attempt,   \* attempt[r]: attempts started by the ApplyStatus call for r
    inFlight,  \* UpdateStatus calls that the API server has not answered
    orphans,   \* calls whose caller is gone; they may still arrive
    unwanted,  \* history: resources that translation has wanted no status for
    budget     \* what is left of each bound

vars == <<api, clock, cache, want, report, synced, attached, events, owed, running,
          attempt, inFlight, orphans, unwanted, budget>>
poolVars == <<owed, running>>
environment == <<api, clock, want, unwanted, budget>>

Pool == INSTANCE StatusRequests WITH open <- attached

Object == [rv : Nat, ours : Report \cup {None}, theirs : Nat]
Call == [res : Resource, rv : Nat, ours : Report \cup {None}, theirs : Nat]
Bound == {"change", "foreign", "delete", "fail", "restart"}

TypeOK ==
    /\ api \in [Resource -> Object] /\ cache \in [Resource -> Object]
    /\ clock \in Nat
    /\ want \in [Resource -> Report \cup {None}]
    /\ report \in [Resource -> Report \cup {None, Missing}]
    /\ synced \in BOOLEAN /\ attached \in BOOLEAN
    /\ events \subseteq Resource /\ owed \subseteq Resource /\ running \subseteq Resource
    /\ attempt \in [Resource -> 0..MaxAttempts]
    /\ inFlight \subseteq Call /\ orphans \subseteq Call
    /\ budget \in [Bound -> Nat]
    /\ \A r \in Resource : r \in running <=> attempt[r] # 0

Init ==
    /\ api \in [Resource -> {Absent, [rv |-> 1, ours |-> None, theirs |-> 0]}]
    /\ clock = 1
    /\ cache = [r \in Resource |-> Absent]
    /\ want \in [Resource -> Report \cup {None}]
    /\ report = [r \in Resource |-> Missing]
    /\ synced = FALSE /\ attached = FALSE
    /\ events = {} /\ owed = {} /\ running = {}
    /\ attempt = [r \in Resource |-> 0]
    /\ inFlight = {} /\ orphans = {}
    /\ unwanted = {r \in Resource : want[r] = None}
    /\ budget = [change |-> MaxChanges, foreign |-> MaxForeign, delete |-> MaxDeletes,
                 fail |-> MaxFailures, restart |-> MaxRestarts]

Spend(what) ==
    /\ budget[what] > 0
    /\ budget' = [budget EXCEPT ![what] = @ - 1]

Notify(r) == events' = IF attached THEN events \cup {r} ELSE events

-----------------------------------------------------------------------------
(* The world around the pipeline *)

\* Translation wants another status for r.
ContributionChanged(r) ==
    /\ Spend("change")
    /\ \E w \in (Report \cup {None}) \ {want[r]} :
         /\ want' = [want EXCEPT ![r] = w]
         /\ unwanted' = IF w = None THEN unwanted \cup {r} ELSE unwanted
    /\ UNCHANGED <<api, clock, cache, report, synced, attached, events, poolVars,
                   attempt, inFlight, orphans>>

\* The API server stores a new version of r.
Store(r, object) ==
    /\ clock' = clock + 1
    /\ api' = [api EXCEPT ![r] = object]

\* Another controller rewrites its own entries, leaving ours as they are.
ForeignWrite(r) ==
    /\ api[r] # Absent
    /\ Spend("foreign")
    /\ Store(r, [rv |-> clock + 1, ours |-> api[r].ours, theirs |-> api[r].theirs + 1])
    /\ UNCHANGED <<cache, want, unwanted, report, synced, attached, events, poolVars,
                   attempt, inFlight, orphans>>

DeleteObject(r) ==
    /\ api[r] # Absent
    /\ Spend("delete")
    /\ Store(r, Absent)
    /\ UNCHANGED <<cache, want, unwanted, report, synced, attached, events, poolVars,
                   attempt, inFlight, orphans>>

\* A new object of the same name: no status, a resourceVersion never used before.
CreateObject(r) ==
    /\ api[r] = Absent
    /\ Spend("delete")
    /\ Store(r, [rv |-> clock + 1, ours |-> None, theirs |-> 0])
    /\ UNCHANGED <<cache, want, unwanted, report, synced, attached, events, poolVars,
                   attempt, inFlight, orphans>>

-----------------------------------------------------------------------------
(* KRT collections and their handlers *)

\* The informer catches up with the API server.  registerResource pushes on
\* every event but a delete, status-only updates included.
InformerDelivers(r) ==
    /\ synced
    /\ cache[r] # api[r]
    /\ cache' = [cache EXCEPT ![r] = api[r]]
    /\ IF api[r] = Absent THEN UNCHANGED events ELSE Notify(r)
    /\ UNCHANGED <<environment, report, synced, attached, poolVars, attempt, inFlight, orphans>>

\* Mutant: the reducer's row changes and nobody is told.
ReducerSilent(r) ==
    /\ synced
    /\ report[r] # (IF cache[r] = Absent THEN Missing ELSE want[r])
    /\ report' = [report EXCEPT ![r] = IF cache[r] = Absent THEN Missing ELSE want[r]]
    /\ UNCHANGED <<environment, cache, synced, attached, events, poolVars, attempt, inFlight, orphans>>

\* NewResourceReports has one row per raw object, empty when nothing is
\* contributed; RegisterResourceReports pushes on every event but a delete.
ReducerUpdates(r) ==
    /\ synced
    /\ report[r] # (IF cache[r] = Absent THEN Missing ELSE want[r])
    /\ report' = [report EXCEPT ![r] = IF cache[r] = Absent THEN Missing ELSE want[r]]
    /\ IF cache[r] = Absent THEN UNCHANGED events ELSE Notify(r)
    /\ UNCHANGED <<environment, cache, synced, attached, poolVars, attempt, inFlight, orphans>>

\* A handler runs and pushes the identity of its resource.
HandlerPushes(r) ==
    /\ r \in events
    /\ events' = events \ {r}
    /\ Pool!Request(r)
    /\ UNCHANGED <<environment, cache, report, synced, attempt, inFlight, orphans>>

-----------------------------------------------------------------------------
(* StatusSyncer.Start *)

\* The raw collections list their objects; the reducers have rows but have not
\* seen the contributions.
ListObjects ==
    /\ ~synced
    /\ cache' = api
    /\ report' = [r \in Resource |-> IF api[r] = Absent THEN Missing ELSE None]
    /\ \E r \in Resource : cache'[r] # cache[r]
    /\ UNCHANGED <<environment, synced, attached, events, poolVars, attempt, inFlight, orphans>>

\* Every collection has synced: the reducers have seen the contributions.
CachesSynced ==
    /\ ~synced
    /\ synced' = TRUE
    /\ cache' = api
    /\ report' = [r \in Resource |-> IF api[r] = Absent THEN Missing ELSE want[r]]
    /\ UNCHANGED <<environment, attached, events, poolVars, attempt, inFlight, orphans>>

\* Mutant: the queue is set without waiting for the caches.
SetQueueEarly ==
    /\ ~attached
    /\ attached' = TRUE
    /\ events' = {r \in Resource : cache[r] # Absent}
    /\ UNCHANGED <<environment, cache, report, synced, poolVars, attempt, inFlight, orphans>>

\* Mutant: attaching a handler does not replay what the collection holds.
SetQueueNoReplay ==
    /\ synced /\ ~attached
    /\ attached' = TRUE
    /\ UNCHANGED <<environment, cache, report, synced, events, poolVars, attempt, inFlight, orphans>>

\* WaitForCacheSync returned; a new pool, and SetQueue attaches every handler:
\* the collections replay their current objects as adds.
SetQueue ==
    /\ synced /\ ~attached
    /\ attached' = TRUE
    /\ events' = {r \in Resource : cache[r] # Absent}
    /\ UNCHANGED <<environment, cache, report, synced, poolVars, attempt, inFlight, orphans>>

\* Leadership is lost or the process restarts: the pool is dropped, UnsetQueue
\* detaches the handlers, and a call to the API server may still be under way.
LoseLeadership ==
    /\ attached
    /\ Spend("restart")
    /\ attached' = FALSE /\ synced' = FALSE
    /\ events' = {} /\ owed' = {} /\ running' = {}
    /\ attempt' = [r \in Resource |-> 0]
    /\ orphans' = orphans \cup inFlight
    /\ inFlight' = {}
    /\ cache' = [r \in Resource |-> Absent]
    /\ report' = [r \in Resource |-> Missing]
    /\ UNCHANGED <<api, clock, want, unwanted>>

-----------------------------------------------------------------------------
(* Writer.ApplyStatus *)

\* Writer.Desired for a route: with an empty report there is something to
\* publish only when some entry of ours must be retracted.
HasDesired(r) ==
    \/ report[r] \in Report
    \/ report[r] = None /\ cache[r].ours # None

\* Desired, then Merge over the entries of the object that was read.
Merged(r) == [ours |-> report[r], theirs |-> cache[r].theirs]

\* decide: write only what differs from the live status.
decide(r) ==
    /\ cache[r] # Absent
    /\ HasDesired(r)
    /\ Merged(r) # [ours |-> cache[r].ours, theirs |-> cache[r].theirs]

\* Mutant: the attempts of a finished call are carried over to the next.
DoneKeepsAttempts(r) == Pool!Finish(r) /\ UNCHANGED attempt

Done(r) ==
    /\ Pool!Finish(r)
    /\ attempt' = [attempt EXCEPT ![r] = 0]

Begin(r) ==
    /\ attached
    /\ Pool!Start(r)
    /\ attempt' = [attempt EXCEPT ![r] = 1]
    /\ UNCHANGED <<environment, cache, report, synced, events, inFlight, orphans>>

CallOf(r) == {call \in inFlight : call.res = r}

\* Mutant: the call does not carry the resourceVersion.
SentForUnconditional(r) ==
    [res |-> r, rv |-> 0, ours |-> Merged(r).ours, theirs |-> Merged(r).theirs]

SentFor(r) ==
    [res |-> r, rv |-> cache[r].rv, ours |-> Merged(r).ours, theirs |-> Merged(r).theirs]

\* One attempt reads the collection and decides: nothing to write ends the
\* call, otherwise UpdateStatus is sent with the resourceVersion that was read.
Attempt(r) ==
    /\ r \in running
    /\ CallOf(r) = {}
    /\ \/ /\ ~decide(r)
          /\ Done(r)
          /\ UNCHANGED inFlight
       \/ /\ decide(r)
          /\ inFlight' = inFlight \cup {SentFor(r)}
          /\ UNCHANGED <<poolVars, attempt, attached>>
    /\ UNCHANGED <<environment, cache, report, synced, events, orphans>>

\* The API server accepts a status write against the current resourceVersion;
\* a write that names no resourceVersion would be unconditional.
Accepts(call) == api[call.res] # Absent /\ call.rv \in {0, api[call.res].rv}

Applied(call) == [rv |-> clock + 1, ours |-> call.ours, theirs |-> call.theirs]

\* UpdateStatus succeeds.
Updated(call) ==
    /\ Accepts(call)
    /\ Store(call.res, Applied(call))
    /\ Done(call.res)
    /\ inFlight' = inFlight \ {call}
    /\ UNCHANGED <<cache, want, unwanted, report, synced, events, orphans, budget>>

\* Conflict and NotFound are swallowed: the informer's event for the newer
\* object pushes the resource again.
Rejected(call) ==
    /\ ~Accepts(call)
    /\ Done(call.res)
    /\ inFlight' = inFlight \ {call}
    /\ UNCHANGED <<environment, cache, report, synced, events, orphans>>

\* A transient error, before or after the server stored the write.  retry.Do
\* runs the closure again, from its read of the collection, until the attempts
\* are used up; then the failure is only logged.
Failed(call) ==
    /\ Spend("fail")
    /\ \/ UNCHANGED <<api, clock>>
       \/ Accepts(call) /\ Store(call.res, Applied(call))
    /\ inFlight' = inFlight \ {call}
    /\ \/ /\ attempt[call.res] < MaxAttempts
          /\ attempt' = [attempt EXCEPT ![call.res] = @ + 1]
          /\ UNCHANGED <<poolVars, attached>>
       \/ /\ attempt[call.res] = MaxAttempts
          /\ Done(call.res)
    /\ UNCHANGED <<cache, want, unwanted, report, synced, events, orphans>>

\* A call of a previous leader reaches the server, or is lost.
OrphanArrives(call) ==
    /\ orphans' = orphans \ {call}
    /\ \/ UNCHANGED <<api, clock>>
       \/ Accepts(call) /\ Store(call.res, Applied(call))
    /\ UNCHANGED <<cache, want, unwanted, report, synced, attached, events, poolVars,
                   attempt, inFlight, budget>>

-----------------------------------------------------------------------------
Next ==
    \/ \E r \in Resource :
         \/ ContributionChanged(r) \/ ForeignWrite(r) \/ DeleteObject(r) \/ CreateObject(r)
         \/ InformerDelivers(r) \/ ReducerUpdates(r) \/ HandlerPushes(r)
         \/ Begin(r) \/ Attempt(r)
    \/ \E call \in inFlight : Updated(call) \/ Rejected(call) \/ Failed(call)
    \/ \E call \in orphans : OrphanArrives(call)
    \/ ListObjects \/ CachesSynced \/ SetQueue \/ LoseLeadership

Spec == Init /\ [][Next]_vars

(***************************************************************************)
(* Informers, handlers, workers and the API server keep going (they are     *)
(* goroutines that never block for ever, and calls that return); changes,   *)
(* failures and restarts are never obliged to happen.                       *)
(***************************************************************************)
Fairness ==
    /\ \A r \in Resource :
         /\ WF_vars(InformerDelivers(r)) /\ WF_vars(ReducerUpdates(r))
         /\ WF_vars(HandlerPushes(r)) /\ WF_vars(Begin(r)) /\ WF_vars(Attempt(r))
         /\ WF_vars(\E call \in CallOf(r) : Updated(call) \/ Rejected(call))
    /\ WF_vars(CachesSynced) /\ WF_vars(SetQueue)

FairSpec == Spec /\ Fairness

-----------------------------------------------------------------------------
\* Our writes never change another controller's entries, however stale the
\* object was that they were computed from, and whichever leader sent them.
ForeignEntriesKept ==
    [][\A r \in Resource :
         (api[r] # Absent /\ api'[r] # Absent /\ api'[r].ours # api[r].ours)
            => api'[r].theirs = api[r].theirs]_vars

\* Every write we get stored changes the status: the echo of our own write,
\* which the informer delivers and the handler pushes, never causes another.
NoRedundantWrite ==
    [][\A r \in Resource :
         (api[r] # Absent /\ api'[r] # Absent /\ api'[r].rv # api[r].rv)
            => \/ api'[r].ours # api[r].ours
               \/ api'[r].theirs # api[r].theirs]_vars

\* Our entries are cleared only if translation has at some time wanted none:
\* a starting leader never publishes a report that has not seen its inputs.
NeverClearedWhileWanted ==
    [][\A r \in Resource :
         (api[r] # Absent /\ api'[r] # Absent /\ api[r].ours # None /\ api'[r].ours = None)
            => r \in unwanted]_vars

\* With fewer failures than attempts, a resource whose status should be written
\* always has something that will make the pipeline look at it: an undelivered
\* event, a request, a run, or a version the informer has yet to deliver.
NeverForgotten ==
    attached => \A r \in Resource :
        decide(r) => \/ r \in events \cup owed \cup running
                     \/ cache[r] # api[r]

\* Once the world stops changing, every object ends up with exactly the
\* entries that translation wants, and keeps them.
Converges ==
    <>[](\A r \in Resource : api[r] # Absent => api[r].ours = want[r])
=============================================================================
