-------------------------- MODULE DelayedInformer ---------------------------
(***************************************************************************)
(* delayedInformer (delayed_dynamic_informer.go): the placeholder for an    *)
(* informer whose API version is not served yet.  Handlers and indexes are  *)
(* remembered while it is parked; the poll loop builds the real informer,   *)
(* set hands it what was remembered and only then publishes it.  Calls of   *)
(* other goroutines interleave with set wherever they do not need d.mu.     *)
(* The answer of the gate is an input: RouteWatch composes a placeholder    *)
(* with the version selection that decides it.                              *)
(***************************************************************************)
EXTENDS Integers, FiniteSets

CONSTANTS
    Handler,    \* event handlers that callers register, each once
    Index       \* indexes that callers ask for, each once

VARIABLES
    gateOpen,    \* input: the gate has answered (true, true)
    published,   \* d.inf
    polling,     \* the poll loop: "no", "waiting", "setting", "over"
    handlers, indexers,   \* what is remembered
    stop,        \* d.started
    todo,        \* what set has still to do, in order
    caller,      \* caller[x]: where the call for handler or index x is
    view,        \* view[h]: what the registration of h asks for HasSynced
    attached,    \* the real informer's handlers, as a count per handler
    bound,       \* the real informer's indexes that their holders can use
    running,     \* the real informer is started
    listed,      \* its initial list has arrived
    told         \* the handlers that have seen it

vars == <<published, polling, handlers, indexers, stop, todo, caller,
          view, attached, bound, running, listed, told>>
real == <<running, listed, told>>

Init ==
    /\ published = FALSE /\ polling = "no"
    /\ handlers = {} /\ indexers = {} /\ stop = FALSE /\ todo = "nothing"
    /\ caller = [x \in Handler \cup Index |-> "none"]
    /\ view = [h \in Handler |-> "none"]
    /\ attached = [h \in Handler |-> 0] /\ bound = {}
    /\ running = FALSE /\ listed = FALSE /\ told = {}

\* d.mu is held by set from its first step to its last.
Unlocked == todo = "nothing"

-----------------------------------------------------------------------------
(* Callers *)

\* Under the lock: remembered while parked, else passed on after the unlock.
AddEventHandler(h) ==
    /\ caller[h] = "none" /\ Unlocked
    /\ IF published
       THEN caller' = [caller EXCEPT ![h] = "direct"] /\ UNCHANGED <<handlers, view>>
       ELSE /\ caller' = [caller EXCEPT ![h] = "registered"]
            /\ handlers' = handlers \cup {h}
            /\ view' = [view EXCEPT ![h] = "delayed"]
    /\ UNCHANGED <<published, polling, indexers, stop, todo, attached, bound, real>>

AddEventHandlerDirect(h) ==
    /\ caller[h] = "direct"
    /\ caller' = [caller EXCEPT ![h] = "registered"]
    /\ attached' = [attached EXCEPT ![h] = @ + 1]
    /\ view' = [view EXCEPT ![h] = "real"]
    /\ UNCHANGED <<published, polling, handlers, indexers, stop, todo, bound, real>>

\* ShutdownHandler and ShutdownHandlers while parked; afterwards they are the
\* real informer's.
ShutdownHandlers(S) ==
    /\ Unlocked /\ ~published
    /\ S # {} /\ \A h \in S : caller[h] = "registered"
    /\ handlers' = handlers \ S
    /\ caller' = [x \in DOMAIN caller |-> IF x \in S THEN "shut" ELSE caller[x]]
    /\ UNCHANGED <<published, polling, indexers, stop, todo, view, attached, bound, real>>

AddIndex(x) ==
    /\ caller[x] = "none" /\ Unlocked
    /\ caller' = [caller EXCEPT ![x] = "registered"]
    /\ IF published THEN bound' = bound \cup {x} /\ UNCHANGED indexers
       ELSE indexers' = indexers \cup {x} /\ UNCHANGED bound
    /\ UNCHANGED <<published, polling, handlers, stop, todo, view, attached, real>>

\* Start records the stop channel; a parked informer begins to poll, once.
Start ==
    /\ Unlocked /\ ~stop
    /\ stop' = TRUE
    /\ polling' = IF polling = "no" THEN "waiting" ELSE polling
    /\ UNCHANGED <<published, handlers, indexers, todo, caller, view, attached, bound, real>>

-----------------------------------------------------------------------------
(* The poll loop *)

\* The gate opens: the informer is built and set takes the lock.
Poll ==
    /\ polling = "waiting" /\ gateOpen
    /\ polling' = "setting" /\ todo' = "handlers"
    /\ UNCHANGED <<published, handlers, indexers, stop, caller, view, attached, bound, real>>

\* Mutant: the registration keeps asking the placeholder.
setHandlerOldView(h) ==
    /\ todo = "handlers" /\ h \in handlers
    /\ attached' = [attached EXCEPT ![h] = @ + 1]
    /\ handlers' = handlers \ {h}
    /\ UNCHANGED <<published, polling, indexers, stop, todo, caller, view, bound, real>>

setHandler(h) ==
    /\ todo = "handlers" /\ h \in handlers
    /\ attached' = [attached EXCEPT ![h] = @ + 1]
    /\ view' = [view EXCEPT ![h] = "real"]
    /\ handlers' = handlers \ {h}
    /\ UNCHANGED <<published, polling, indexers, stop, todo, caller, bound, real>>

setIndexes ==
    /\ todo = "handlers" /\ handlers = {}
    /\ bound' = bound \cup indexers /\ indexers' = {}
    /\ todo' = "start"
    /\ UNCHANGED <<published, polling, handlers, stop, caller, view, attached, real>>

setStart ==
    /\ todo = "start"
    /\ running' = stop
    /\ todo' = "publish"
    /\ UNCHANGED <<published, polling, handlers, indexers, stop, caller, view,
                   attached, bound, listed, told>>

\* Mutant: the informer is published before it is handed anything.
publishFirst ==
    /\ todo = "handlers"
    /\ published' = TRUE /\ todo' = "nothing" /\ polling' = "over"
    /\ UNCHANGED <<handlers, indexers, stop, caller, view, attached, bound, real>>

publish ==
    /\ todo = "publish"
    /\ published' = TRUE /\ todo' = "nothing" /\ polling' = "over"
    /\ UNCHANGED <<handlers, indexers, stop, caller, view, attached, bound, real>>

-----------------------------------------------------------------------------
(* External: the real informer *)

Lists ==
    /\ running /\ ~listed
    /\ listed' = TRUE
    /\ UNCHANGED <<published, polling, handlers, indexers, stop, todo, caller, view,
                   attached, bound, running, told>>

Tells(h) ==
    /\ listed /\ attached[h] > 0 /\ h \notin told
    /\ told' = told \cup {h}
    /\ UNCHANGED <<published, polling, handlers, indexers, stop, todo, caller, view,
                   attached, bound, running, listed>>

-----------------------------------------------------------------------------
Set == (\E h \in Handler : setHandler(h)) \/ setIndexes \/ setStart \/ publish

Next ==
    \/ \E h \in Handler : AddEventHandler(h) \/ AddEventHandlerDirect(h) \/ Tells(h)
    \/ \E S \in SUBSET Handler : ShutdownHandlers(S)
    \/ \E x \in Index : AddIndex(x)
    \/ Start \/ Poll \/ Set \/ Lists

-----------------------------------------------------------------------------
\* HasSynced of a registration: the placeholder's is true while it is parked.
HasSynced(h) ==
    \/ view[h] = "delayed" /\ (published => listed)
    \/ view[h] = "real" /\ h \in told

TypeOK ==
    /\ published \in BOOLEAN
    /\ polling \in {"no", "waiting", "setting", "over"}
    /\ handlers \subseteq Handler /\ indexers \subseteq Index /\ stop \in BOOLEAN
    /\ todo \in {"nothing", "handlers", "start", "publish"}
    /\ caller \in [Handler \cup Index -> {"none", "direct", "registered", "shut"}]
    /\ view \in [Handler -> {"none", "delayed", "real"}]
    /\ attached \in [Handler -> 0..1] /\ bound \subseteq Index
    /\ running \in BOOLEAN /\ listed \in BOOLEAN /\ told \subseteq Handler

\* Once the real informer has taken over, a handler is reported synced only
\* after it has seen the initial list.
SyncedMeansSeen ==
    published => \A h \in Handler : caller[h] = "registered" /\ HasSynced(h) => h \in told
=============================================================================
