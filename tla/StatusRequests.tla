--------------------------- MODULE StatusRequests ---------------------------
(***************************************************************************)
(* What the status worker pool promises its callers, with no queue, locks   *)
(* or goroutines: a resource that was pushed is owed one run that starts    *)
(* after the push, and it is never run twice at once.  WorkerPool           *)
(* implements this specification; the status pipeline is built on it.       *)
(***************************************************************************)
CONSTANT Resource

VARIABLES
    owed,      \* resources pushed since their last run began
    running,   \* resources whose run has begun and not ended
    open       \* FALSE once the pool has been shut down

vars == <<owed, running, open>>

Init ==
    /\ owed = {}
    /\ running = {}
    /\ open = TRUE

\* Any number of pushes before the next run are one request.
Request(r) ==
    /\ open
    /\ owed' = owed \cup {r}
    /\ UNCHANGED <<running, open>>

Start(r) ==
    /\ r \in owed
    /\ r \notin running
    /\ owed' = owed \ {r}
    /\ running' = running \cup {r}
    /\ UNCHANGED open

Finish(r) ==
    /\ r \in running
    /\ running' = running \ {r}
    /\ UNCHANGED <<owed, open>>

\* Shutting down forgets everything; a run in progress is no longer tracked.
Close ==
    /\ open
    /\ open' = FALSE
    /\ owed' = {}
    /\ running' = {}

Next ==
    \/ \E r \in Resource : Request(r) \/ Start(r) \/ Finish(r)
    \/ Close

Spec == Init /\ [][Next]_vars

\* Owed work is started, work that runs finishes.
Fairness == \A r \in Resource : WF_vars(Start(r)) /\ WF_vars(Finish(r))

FairSpec == Spec /\ Fairness
=============================================================================
