----------------------------- MODULE WorkerPool -----------------------------
(***************************************************************************)
(* The status worker pool: pkg/pluginsdk/statussync/workerpool.go.          *)
(*                                                                          *)
(* Two locks matter.  WorkerPool.lock is held over a whole Push, over a     *)
(* worker's decision to exit and over the shutdown callback; WorkQueue.mu   *)
(* is held only inside one queue operation.  Dequeue and MarkDone take mu   *)
(* alone, so they run in the middle of a Push, of an exit or of a shutdown: *)
(* a step here is one mu section, and `lock` says who holds the outer lock  *)
(* between two of them.                                                     *)
(***************************************************************************)
EXTENDS Integers, Sequences, FiniteSets

CONSTANTS
    Resource,     \* the identities that are pushed
    Worker,       \* goroutine slots, at least as many as maxWorkers
    MaxWorkers    \* WorkerPool.maxWorkers

ASSUME WorkerAssumption ==
    /\ IsFiniteSet(Worker)
    /\ MaxWorkers \in Nat \ {0}
    /\ "free" \notin Worker /\ "push" \notin Worker /\ "close" \notin Worker

VARIABLES
    queue,         \* WorkQueue.queue
    pending,       \* keys of WorkQueue.pending
    processing,    \* WorkQueue.processing: "absent", or the bool as "clean" / "dirty"
    shuttingDown,  \* WorkQueue.shuttingDown
    closing,       \* WorkerPool.closing
    workerCount,   \* WorkerPool.workerCount
    lock,          \* holder of WorkerPool.lock between two mu sections
    pc,            \* pc[w]: where goroutine w stands in its loop
    res,           \* res[w]: the resource w dequeued
    owed           \* history: resources whose last accepted push no run has followed

queueVars == <<queue, pending, processing, shuttingDown>>
vars == <<queue, pending, processing, shuttingDown, closing, workerCount, lock, pc, res, owed>>

Items(q) == {q[i] : i \in 1..Len(q)}

TypeOK ==
    /\ queue \in Seq(Resource)
    /\ pending \subseteq Resource
    /\ processing \in [Resource -> {"absent", "clean", "dirty"}]
    /\ shuttingDown \in BOOLEAN
    /\ closing \in BOOLEAN
    /\ workerCount \in Nat
    /\ lock \in {"free", "push", "close"} \cup Worker
    /\ pc \in [Worker -> {"none", "check", "exit", "dequeue", "work"}]
    /\ res \in [Worker -> Resource]
    /\ owed \subseteq Resource

Init ==
    /\ queue = <<>>
    /\ pending = {}
    /\ processing = [r \in Resource |-> "absent"]
    /\ shuttingDown = FALSE
    /\ closing = FALSE
    /\ workerCount = 0
    /\ lock = "free"
    /\ pc = [w \in Worker |-> "none"]
    /\ res \in [Worker -> Resource]
    /\ owed = {}

-----------------------------------------------------------------------------
(* WorkQueue *)

\* Mutant: an enqueue of a resource in flight is taken for a duplicate.
EnqueueNoDirty(con) ==
    /\ IF shuttingDown \/ processing[con] # "absent" \/ con \in pending
         THEN UNCHANGED <<queue, pending>>
         ELSE /\ pending' = pending \cup {con}
              /\ queue' = Append(queue, con)
    /\ UNCHANGED <<processing, shuttingDown>>

\* Mutant: an enqueue of a resource in flight is queued like any other.
EnqueueInFlight(con) ==
    /\ IF shuttingDown \/ con \in pending
         THEN UNCHANGED <<queue, pending>>
         ELSE /\ pending' = pending \cup {con}
              /\ queue' = Append(queue, con)
    /\ UNCHANGED <<processing, shuttingDown>>

Enqueue(con) ==
    \/ /\ shuttingDown
       /\ UNCHANGED queueVars
    \/ /\ ~shuttingDown
       /\ processing[con] # "absent"
       /\ processing' = [processing EXCEPT ![con] = "dirty"]
       /\ UNCHANGED <<queue, pending, shuttingDown>>
    \/ /\ ~shuttingDown
       /\ processing[con] = "absent"
       /\ con \in pending
       /\ UNCHANGED queueVars
    \/ /\ ~shuttingDown
       /\ processing[con] = "absent"
       /\ con \notin pending
       /\ pending' = pending \cup {con}
       /\ queue' = Append(queue, con)
       /\ UNCHANGED <<processing, shuttingDown>>

Dequeue ==
    /\ queue # <<>>
    /\ queue' = Tail(queue)
    /\ pending' = pending \ {Head(queue)}
    /\ processing' = [processing EXCEPT ![Head(queue)] = "clean"]
    /\ UNCHANGED shuttingDown

MarkDone(con) ==
    /\ processing' = [processing EXCEPT ![con] = "absent"]
    /\ IF processing[con] = "dirty" /\ ~shuttingDown
         THEN /\ pending' = pending \cup {con}
              /\ queue' = Append(queue, con)
         ELSE UNCHANGED <<queue, pending>>
    /\ UNCHANGED shuttingDown

ShutDown ==
    /\ shuttingDown' = TRUE
    /\ pending' = {}
    /\ processing' = [r \in Resource |-> "absent"]
    /\ queue' = <<>>

-----------------------------------------------------------------------------
(* WorkerPool *)

\* Push up to the return of Enqueue.  A Push that finds the pool closing
\* returns with nothing changed.
Push(target) ==
    /\ lock = "free"
    /\ ~closing
    /\ Enqueue(target)
    /\ lock' = "push"
    /\ owed' = owed \cup {target}
    /\ UNCHANGED <<closing, workerCount, pc, res>>

\* Mutant: the new worker is not counted.
maybeAddWorkerUncounted ==
    /\ lock = "push"
    /\ lock' = "free"
    /\ IF workerCount >= MaxWorkers \/ queue = <<>>
         THEN UNCHANGED pc
         ELSE \E w \in Worker :
                /\ pc[w] = "none"
                /\ pc' = [pc EXCEPT ![w] = "check"]
    /\ UNCHANGED <<queueVars, closing, workerCount, res, owed>>

\* The rest of Push: its Length is read after other goroutines may have
\* dequeued what Enqueue appended.
maybeAddWorkerLocked ==
    /\ lock = "push"
    /\ lock' = "free"
    /\ IF workerCount >= MaxWorkers \/ queue = <<>>
         THEN UNCHANGED <<workerCount, pc>>
         ELSE \E w \in Worker :
                /\ pc[w] = "none"
                /\ pc' = [pc EXCEPT ![w] = "check"]
                /\ workerCount' = workerCount + 1
    /\ UNCHANGED <<queueVars, closing, res, owed>>

\* Mutant: the worker decides to exit without holding WorkerPool.lock.
workerCheckUnlocked(w) ==
    /\ pc[w] = "check"
    /\ pc' = [pc EXCEPT ![w] = IF closing \/ queue = <<>> THEN "exit" ELSE "dequeue"]
    /\ UNCHANGED <<queueVars, closing, workerCount, lock, res, owed>>

\* The top of the loop: closing and Length are read under WorkerPool.lock,
\* which is kept when the worker is going to exit.
workerCheck(w) ==
    /\ pc[w] = "check"
    /\ lock = "free"
    /\ IF closing \/ queue = <<>>
         THEN /\ pc' = [pc EXCEPT ![w] = "exit"]
              /\ lock' = w
         ELSE /\ pc' = [pc EXCEPT ![w] = "dequeue"]
              /\ UNCHANGED lock
    /\ UNCHANGED <<queueVars, closing, workerCount, res, owed>>

workerExit(w) ==
    /\ pc[w] = "exit"
    /\ pc' = [pc EXCEPT ![w] = "none"]
    /\ workerCount' = workerCount - 1
    /\ lock' = "free"
    /\ UNCHANGED <<queueVars, closing, res, owed>>

\* Another worker may have taken the item seen by the check: then go round.
workerDequeue(w) ==
    /\ pc[w] = "dequeue"
    /\ \/ /\ queue = <<>>
          /\ pc' = [pc EXCEPT ![w] = "check"]
          /\ UNCHANGED <<queueVars, res, owed>>
       \/ /\ Dequeue
          /\ pc' = [pc EXCEPT ![w] = "work"]
          /\ res' = [res EXCEPT ![w] = Head(queue)]
          /\ owed' = owed \ {Head(queue)}
    /\ UNCHANGED <<closing, workerCount, lock>>

\* work(ctx, res) has returned.
workerMarkDone(w) ==
    /\ pc[w] = "work"
    /\ MarkDone(res[w])
    /\ pc' = [pc EXCEPT ![w] = "check"]
    /\ UNCHANGED <<closing, workerCount, lock, res, owed>>

\* The context is done: the AfterFunc takes the lock and sets closing ...
beginClose ==
    /\ lock = "free"
    /\ ~closing
    /\ closing' = TRUE
    /\ lock' = "close"
    /\ UNCHANGED <<queueVars, workerCount, pc, res, owed>>

\* Mutant: the callback returns without unlocking.
finishCloseKeepsLock ==
    /\ lock = "close"
    /\ ShutDown
    /\ owed' = {}
    /\ UNCHANGED <<closing, workerCount, lock, pc, res>>

\* ... and then shuts the queue down.
finishClose ==
    /\ lock = "close"
    /\ ShutDown
    /\ lock' = "free"
    /\ owed' = {}
    /\ UNCHANGED <<closing, workerCount, pc, res>>

worker(w) == workerCheck(w) \/ workerExit(w) \/ workerDequeue(w) \/ workerMarkDone(w)

Next ==
    \/ \E target \in Resource : Push(target)
    \/ maybeAddWorkerLocked
    \/ \E w \in Worker : worker(w)
    \/ beginClose
    \/ finishClose

Spec == Init /\ [][Next]_vars

\* A goroutine that can run does run.  Taking WorkerPool.lock needs strong
\* fairness, since pushes take it again and again; sync.Mutex hands the lock
\* to a waiter that has starved, so no waiter loses it forever.
Fairness ==
    /\ WF_vars(maybeAddWorkerLocked)
    /\ WF_vars(finishClose)
    /\ \A w \in Worker :
         /\ SF_vars(workerCheck(w))
         /\ WF_vars(workerExit(w) \/ workerDequeue(w) \/ workerMarkDone(w))

FairSpec == Spec /\ Fairness
-----------------------------------------------------------------------------
(* Properties *)

Alive == {w \in Worker : pc[w] # "none"}

\* At most one write per resource is in flight, also while the pool is being
\* shut down and `processing` has already been cleared under the workers.
AtMostOneInFlight ==
    \A v, w \in Worker :
        pc[v] = "work" /\ pc[w] = "work" /\ res[v] = res[w] => v = w

\* Pending requests are coalesced: `pending` is the membership of `queue`, no
\* resource waits twice, and none waits while it is being processed.
Coalesced ==
    /\ pending = Items(queue)
    /\ \A i, j \in 1..Len(queue) : queue[i] = queue[j] => i = j
    /\ \A r \in pending : processing[r] = "absent"

\* workerCount is the number of live goroutines and never exceeds maxWorkers,
\* although it is updated by the goroutines themselves.
WorkersBounded ==
    /\ workerCount = Cardinality(Alive)
    /\ workerCount <= MaxWorkers

\* No lost wakeup: an item in the queue of an open pool has a goroutine that
\* will look at the queue again, or a Push that is about to start one.
NoStrandedWork ==
    queue # <<>> /\ ~closing =>
        \/ lock = "push"
        \/ \E w \in Worker : pc[w] \in {"check", "dequeue", "work"}

\* The outer lock is held by whoever is between two queue operations of one
\* critical section, and the queue's view of what is in flight is the truth
\* about the goroutines until a shutdown clears it.
Coherent ==
    /\ \A w \in Worker : pc[w] = "exit" <=> lock = w
    /\ lock = "push" => ~closing
    /\ lock = "close" <=> closing /\ ~shuttingDown
    /\ shuttingDown => closing /\ queue = <<>>
    /\ \A r \in Resource : processing[r] # "absent" =>
          ~shuttingDown /\ \E w \in Worker : pc[w] = "work" /\ res[w] = r
    /\ \A w \in Worker : pc[w] = "work" /\ ~shuttingDown => processing[res[w]] # "absent"

\* Once the queue has been shut down no worker picks up another resource: a
\* finishing worker does not resurrect the request it was running.
NothingStartsAfterShutDown ==
    [][\A w \in Worker : shuttingDown /\ pc'[w] = "work" => pc[w] = "work"]_vars

\* No push is lost: what the callers are owed is exactly what waits in the
\* queue or is marked dirty, so a push during the run of its resource counts.
NoLostPush == owed = pending \cup {r \in Resource : processing[r] = "dirty"}

Abstract == INSTANCE StatusRequests WITH
    running <- {r \in Resource : processing[r] # "absent"},
    open <- ~shuttingDown

\* The pool implements StatusRequests: every step of the locked queue and its
\* workers is a request, a start, a finish or a close, or is invisible.
ImplementsRequests == Abstract!Spec

\* A push is followed by a run of its resource that starts after the push,
\* also when it arrived while the resource was in flight, unless the pool closes.
EveryPushServed ==
    \A r \in Resource : r \in owed ~> (r \notin owed /\ processing[r] # "absent") \/ closing

\* After the context is cancelled every goroutine exits.
DrainsAfterClose == closing ~> Alive = {}
=============================================================================
