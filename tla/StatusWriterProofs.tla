------------------------- MODULE StatusWriterProofs -------------------------
(***************************************************************************)
(* The safety of the status worker pool for every set of resources and      *)
(* every number of workers, and that it implements StatusRequests.          *)
(* The second part: the two writers of a Gateway's status keep to their own *)
(* fields.                                                                  *)
(***************************************************************************)
EXTENDS WorkerPool, FiniteSetTheorems, TLAPS

-----------------------------------------------------------------------------
(* The queue as a set *)

Distinct(q) == \A i, j \in 1..Len(q) : q[i] = q[j] => i = j

\* Appending adds one item, and keeps the items distinct when it is a new one.
LEMMA AppendItems ==
    ASSUME NEW q \in Seq(Resource), NEW e \in Resource
    PROVE  /\ Append(q, e) \in Seq(Resource)
           /\ Items(Append(q, e)) = Items(q) \cup {e}
           /\ Distinct(q) /\ e \notin Items(q) => Distinct(Append(q, e))
<1> DEFINE a == Append(q, e)
<1>1. /\ a \in Seq(Resource)
      /\ Len(a) = Len(q) + 1
      /\ \A i \in 1..Len(q) : a[i] = q[i]
      /\ a[Len(q) + 1] = e
  OBVIOUS
<1>2. Items(a) = Items(q) \cup {e}
  BY <1>1 DEF Items
<1>3. Distinct(q) /\ e \notin Items(q) => Distinct(a)
  BY <1>1 DEF Items, Distinct
<1> QED
  BY <1>1, <1>2, <1>3

\* Removing the head of a queue of distinct items removes exactly that item.
LEMMA TailItems ==
    ASSUME NEW q \in Seq(Resource), q # <<>>, Distinct(q)
    PROVE  /\ Tail(q) \in Seq(Resource)
           /\ Head(q) \in Items(q)
           /\ Head(q) \in Resource
           /\ Items(Tail(q)) = Items(q) \ {Head(q)}
           /\ Distinct(Tail(q))
<1> DEFINE t == Tail(q)
<1>1. /\ t \in Seq(Resource)
      /\ Len(q) \in Nat \ {0}
      /\ Len(t) = Len(q) - 1
      /\ \A i \in 1..Len(t) : t[i] = q[i + 1]
      /\ Head(q) = q[1]
  OBVIOUS
<1>2. Distinct(t)
  BY <1>1 DEF Distinct
<1>3. Items(t) = Items(q) \ {Head(q)}
  <2>1. ASSUME NEW x \in Items(t) PROVE x \in Items(q) \ {Head(q)}
    <3>1. PICK i \in 1..Len(t) : x = q[i + 1]
      BY <1>1 DEF Items
    <3>2. i + 1 \in 1..Len(q) /\ 1 \in 1..Len(q) /\ i + 1 # 1
      BY <1>1
    <3> QED
      BY <3>1, <3>2, <1>1 DEF Items, Distinct
  <2>2. ASSUME NEW x \in Items(q) \ {Head(q)} PROVE x \in Items(t)
    <3>1. PICK j \in 1..Len(q) : x = q[j] /\ j # 1
      BY <1>1 DEF Items
    <3>2. j - 1 \in 1..Len(t) /\ t[j - 1] = x
      BY <1>1, <3>1
    <3> QED
      BY <3>2 DEF Items
  <2> QED
    BY <2>1, <2>2
<1>4. Head(q) \in Items(q) /\ Head(q) \in Resource
  BY <1>1 DEF Items
<1> QED
  BY <1>1, <1>2, <1>3, <1>4

-----------------------------------------------------------------------------
(* The inductive invariant *)

IInv ==
    /\ TypeOK
    /\ Coalesced
    /\ Coherent
    /\ AtMostOneInFlight
    /\ WorkersBounded
    /\ NoStrandedWork
    /\ NoLostPush

\* The initial state: an empty queue and no goroutine.
LEMMA InitInv == Init => IInv
<1> SUFFICES ASSUME Init PROVE IInv
  OBVIOUS
<1>1. TypeOK
  <2>1. queue \in Seq(Resource) /\ workerCount \in Nat
    BY DEF Init
  <2>2. /\ processing \in [Resource -> {"absent", "clean", "dirty"}]
        /\ pc \in [Worker -> {"none", "check", "exit", "dequeue", "work"}]
    BY DEF Init
  <2> QED
    BY <2>1, <2>2 DEF Init, TypeOK
<1>2. Coalesced
  BY DEF Init, Coalesced, Items
<1>4. Coherent /\ AtMostOneInFlight /\ NoStrandedWork
  BY WorkerAssumption DEF Init, Coherent, AtMostOneInFlight, NoStrandedWork
<1>5. NoLostPush
  BY DEF Init, NoLostPush
<1>3. WorkersBounded
  <2>1. Alive = {}
    BY DEF Init, Alive
  <2> QED
    BY <2>1, FS_EmptySet, WorkerAssumption DEF Init, WorkersBounded
<1> QED
  BY <1>1, <1>2, <1>3, <1>4, <1>5 DEF IInv

\* A push changes the queue and takes the lock; no goroutine moves.
LEMMA PushInv ==
    ASSUME IInv, NEW target \in Resource, Push(target)
    PROVE  IInv'
<1> USE DEF IInv
<1>1. TypeOK'
  <2>1. queue' \in Seq(Resource)
    BY AppendItems DEF Push, Enqueue, queueVars, TypeOK
  <2> QED
    BY <2>1 DEF Push, Enqueue, queueVars, TypeOK
<1>2. Coalesced'
  <2>1. Distinct(queue) /\ pending = Items(queue)
    BY DEF Coalesced, Distinct
  <2>2. Distinct(queue') /\ pending' = Items(queue')
    BY <2>1, AppendItems DEF Push, Enqueue, queueVars, TypeOK
  <2>3. \A r \in pending' : processing'[r] = "absent"
    BY DEF Push, Enqueue, queueVars, TypeOK, Coalesced
  <2> QED
    BY <2>2, <2>3 DEF Coalesced, Distinct
<1>3. Coherent'
  BY WorkerAssumption DEF Push, Enqueue, queueVars, TypeOK, Coherent
<1>4. AtMostOneInFlight' /\ NoStrandedWork'
  BY DEF Push, AtMostOneInFlight, NoStrandedWork
<1>5. WorkersBounded'
  BY DEF Push, WorkersBounded, Alive
<1>6. NoLostPush'
  <2>1. ~shuttingDown
    BY DEF Push, Coherent
  <2> QED
    BY <2>1 DEF Push, Enqueue, queueVars, NoLostPush, Coalesced, TypeOK
<1> QED
  BY <1>1, <1>2, <1>3, <1>4, <1>5, <1>6
\* The second half of a push: the count and the set of goroutines grow together,
\* and a pool that starts none has one that is not on its way out.
LEMMA AddWorkerInv ==
    ASSUME IInv, maybeAddWorkerLocked
    PROVE  IInv'
<1> USE DEF IInv
<1>1. TypeOK'
  BY DEF maybeAddWorkerLocked, queueVars, TypeOK
<1>2. Coalesced'
  BY DEF maybeAddWorkerLocked, queueVars, Coalesced
<1>3. Coherent'
  BY WorkerAssumption DEF maybeAddWorkerLocked, queueVars, Coherent, TypeOK
<1>4. AtMostOneInFlight'
  BY DEF maybeAddWorkerLocked, AtMostOneInFlight, TypeOK
<1>6. NoLostPush'
  BY DEF maybeAddWorkerLocked, queueVars, NoLostPush
<1>5. WorkersBounded' /\ NoStrandedWork'
  <2>1. IsFiniteSet(Alive)
    BY WorkerAssumption, FS_Subset, Alive \subseteq Worker DEF Alive
  <2>2. CASE workerCount >= MaxWorkers \/ queue = <<>>
    <3>1. WorkersBounded'
      BY ZenonT(30), <2>2 DEF maybeAddWorkerLocked, WorkersBounded, Alive
    <3>2. CASE queue = <<>>
      BY <3>1, <3>2 DEF maybeAddWorkerLocked, NoStrandedWork, queueVars
    <3>3. CASE workerCount >= MaxWorkers
      <4>1. Alive # {}
        <5>1. Cardinality(Alive) # 0
          BY <3>3, WorkerAssumption DEF WorkersBounded, TypeOK
        <5> QED
          BY <5>1, FS_EmptySet
      <4>2. PICK w \in Worker : pc[w] # "none" /\ pc[w] # "exit"
        BY <4>1, WorkerAssumption DEF Alive, Coherent, maybeAddWorkerLocked
      <4>3. pc'[w] \in {"check", "dequeue", "work"}
        BY <4>2, <2>2 DEF maybeAddWorkerLocked, TypeOK
      <4> QED
        BY <3>1, <4>3 DEF NoStrandedWork
    <3> QED
      BY <2>2, <3>2, <3>3
  <2>3. CASE ~(workerCount >= MaxWorkers \/ queue = <<>>)
    <3>1. PICK w \in Worker : /\ pc[w] = "none"
                              /\ pc' = [pc EXCEPT ![w] = "check"]
                              /\ workerCount' = workerCount + 1
      BY <2>3 DEF maybeAddWorkerLocked
    <3>2. pc'[w] = "check"
      BY <3>1 DEF TypeOK
    <3>3. Alive' = Alive \cup {w} /\ w \notin Alive
      BY <3>1 DEF Alive, TypeOK
    <3>4. Cardinality(Alive') = Cardinality(Alive) + 1
      BY <3>3, <2>1, FS_AddElement
    <3>5. WorkersBounded'
      BY <3>1, <3>4, <2>3, WorkerAssumption DEF WorkersBounded, TypeOK
    <3> QED
      BY <3>2, <3>5 DEF NoStrandedWork
  <2> QED
    BY <2>2, <2>3
<1> QED
  BY <1>1, <1>2, <1>3, <1>4, <1>5, <1>6

\* A worker that looks at the queue moves only itself, and is still alive.
LEMMA CheckInv ==
    ASSUME IInv, NEW w \in Worker, workerCheck(w)
    PROVE  IInv'
<1> USE DEF IInv
<1>1. TypeOK'
  BY DEF workerCheck, queueVars, TypeOK
<1>2. Coalesced'
  BY DEF workerCheck, queueVars, Coalesced
<1>3. Coherent'
  BY WorkerAssumption DEF workerCheck, queueVars, Coherent, TypeOK
<1>4. AtMostOneInFlight'
  BY DEF workerCheck, AtMostOneInFlight, TypeOK
<1>5. Alive' = Alive
  BY DEF workerCheck, Alive, TypeOK
<1>6. WorkersBounded'
  BY <1>5 DEF workerCheck, WorkersBounded
<1>7. NoStrandedWork'
  BY DEF workerCheck, NoStrandedWork, queueVars, TypeOK
<1>8. NoLostPush'
  BY DEF workerCheck, queueVars, NoLostPush
<1> QED
  BY <1>1, <1>2, <1>3, <1>4, <1>6, <1>7, <1>8

\* A worker that exits leaves the count and the goroutines in step.  It holds
\* the lock, so an item that appeared since it looked was requeued by another.
LEMMA ExitInv ==
    ASSUME IInv, NEW w \in Worker, workerExit(w)
    PROVE  IInv'
<1> USE DEF IInv
<1>1. IsFiniteSet(Alive)
  BY WorkerAssumption, FS_Subset, Alive \subseteq Worker DEF Alive
<1>2. Alive' = Alive \ {w} /\ w \in Alive
  BY DEF workerExit, Alive, TypeOK
<1>3. Cardinality(Alive') = Cardinality(Alive) - 1
  BY <1>1, <1>2, FS_RemoveElement
<1>4. Cardinality(Alive) \in Nat /\ Cardinality(Alive') \in Nat
  BY <1>1, <1>2, FS_CardinalityType, FS_RemoveElement
<1>5. workerCount' \in Nat /\ WorkersBounded'
  BY <1>3, <1>4, WorkerAssumption DEF workerExit, WorkersBounded, TypeOK
<1>6. TypeOK'
  BY <1>5 DEF workerExit, queueVars, TypeOK
<1>7. Coalesced'
  BY DEF workerExit, queueVars, Coalesced
<1>8. Coherent'
  BY WorkerAssumption DEF workerExit, queueVars, Coherent, TypeOK
<1>9. AtMostOneInFlight'
  BY DEF workerExit, AtMostOneInFlight, TypeOK
<1>10. NoStrandedWork'
  BY WorkerAssumption DEF workerExit, NoStrandedWork, Coherent, queueVars, TypeOK
<1>11. NoLostPush'
  BY DEF workerExit, queueVars, NoLostPush
<1> QED
  BY <1>5, <1>6, <1>7, <1>8, <1>9, <1>10, <1>11
\* A worker that dequeues takes a resource that nobody has in flight, because
\* a resource that waits is not in processing.
LEMMA DequeueInv ==
    ASSUME IInv, NEW w \in Worker, workerDequeue(w)
    PROVE  IInv'
<1> USE DEF IInv
<1>1. CASE queue = <<>>
  <2>1. pc' = [pc EXCEPT ![w] = "check"] /\ UNCHANGED <<queueVars, res, owed>>
    BY <1>1 DEF workerDequeue, Dequeue
  <2>2. TypeOK'
    BY <2>1 DEF workerDequeue, queueVars, TypeOK
  <2>3. Coalesced'
    BY <2>1 DEF queueVars, Coalesced
  <2>4. Coherent' /\ AtMostOneInFlight' /\ NoStrandedWork'
    BY <2>1 DEF workerDequeue, queueVars, Coherent, AtMostOneInFlight, NoStrandedWork, TypeOK
  <2>5. Alive' = Alive
    BY <2>1 DEF workerDequeue, Alive, TypeOK
  <2> QED
    BY <2>1, <2>2, <2>3, <2>4, <2>5 DEF workerDequeue, WorkersBounded, NoLostPush, queueVars
<1>2. CASE queue # <<>>
  <2> DEFINE h == Head(queue)
  <2>1. /\ Dequeue
        /\ pc' = [pc EXCEPT ![w] = "work"]
        /\ res' = [res EXCEPT ![w] = h]
        /\ owed' = owed \ {h}
        /\ pc[w] = "dequeue"
    BY <1>2 DEF workerDequeue
  <2>2. Distinct(queue) /\ pending = Items(queue) /\ queue \in Seq(Resource)
    BY DEF Coalesced, Distinct, TypeOK
  <2>3. /\ queue' \in Seq(Resource)
        /\ h \in pending
        /\ h \in Resource
        /\ pending' = Items(queue')
        /\ Distinct(queue')
    BY <1>2, <2>1, <2>2, TailItems DEF Dequeue
  <2>4. TypeOK'
    BY <2>1, <2>3 DEF workerDequeue, Dequeue, TypeOK
  <2>5. Coalesced'
    BY <2>1, <2>3 DEF Coalesced, Dequeue, Distinct, TypeOK
  <2>6. ~shuttingDown /\ processing[h] = "absent"
    BY <1>2, <2>3 DEF Coherent, Coalesced
  <2>7. Coherent'
    <3> SUFFICES /\ \A r \in Resource : processing'[r] # "absent" =>
                       \E v \in Worker : pc'[v] = "work" /\ res'[v] = r
                 /\ \A v \in Worker : pc'[v] = "work" => processing'[res'[v]] # "absent"
      BY <1>2, <2>1, <2>6 DEF workerDequeue, Dequeue, Coherent, TypeOK
    <3>1. pc'[w] = "work" /\ res'[w] = h /\ processing'[h] = "clean"
      BY <2>1, <2>3 DEF Dequeue, TypeOK
    <3>2. \A v \in Worker \ {w} : pc'[v] = pc[v] /\ res'[v] = res[v]
      BY <2>1 DEF TypeOK
    <3>3. \A r \in Resource \ {h} : processing'[r] = processing[r]
      BY <2>1, <2>3 DEF Dequeue, TypeOK
    <3> QED
      BY SMTT(30), <2>1, <2>6, <3>1, <3>2, <3>3 DEF Coherent, TypeOK
  <2>8. AtMostOneInFlight'
    <3>1. \A v \in Worker : pc[v] = "work" => res[v] # h
      BY <2>6 DEF Coherent
    <3> QED
      BY <2>1, <3>1 DEF AtMostOneInFlight, TypeOK
  <2>9. Alive' = Alive
    BY <2>1 DEF Alive, TypeOK
  <2>10. WorkersBounded'
    BY <2>9 DEF workerDequeue, WorkersBounded
  <2>11. NoStrandedWork'
    BY <2>1 DEF NoStrandedWork, TypeOK
  <2>12. NoLostPush'
    BY <2>1, <2>3, <2>6 DEF Dequeue, NoLostPush, TypeOK
  <2> QED
    BY <2>4, <2>5, <2>7, <2>8, <2>10, <2>11, <2>12
<1> QED
  BY <1>1, <1>2

\* A worker that finishes may put its resource back; it was the only one to
\* have it in flight, and it will look at the queue again itself.
LEMMA MarkDoneInv ==
    ASSUME IInv, NEW w \in Worker, workerMarkDone(w)
    PROVE  IInv'
<1> USE DEF IInv
<1> DEFINE c == res[w]
<1>1. /\ MarkDone(c)
      /\ pc[w] = "work"
      /\ pc' = [pc EXCEPT ![w] = "check"]
      /\ c \in Resource
      /\ UNCHANGED <<closing, workerCount, lock, res, shuttingDown, owed>>
  BY DEF workerMarkDone, MarkDone, TypeOK
<1>2. Distinct(queue) /\ pending = Items(queue) /\ queue \in Seq(Resource)
  BY DEF Coalesced, Distinct, TypeOK
<1>3. ~shuttingDown => c \notin pending
  BY <1>1 DEF Coherent, Coalesced
<1>4. /\ queue' \in Seq(Resource)
      /\ pending' \subseteq Resource
      /\ pending' = Items(queue')
      /\ Distinct(queue')
  BY <1>1, <1>2, <1>3, AppendItems DEF MarkDone, TypeOK
<1>5. TypeOK'
  BY <1>1, <1>4 DEF MarkDone, TypeOK
<1>6. Coalesced'
  <2>1. \A r \in pending' : processing'[r] = "absent"
    BY <1>1 DEF MarkDone, Coalesced, TypeOK
  <2> QED
    BY <1>4, <2>1 DEF Coalesced, Distinct
<1>7. Coherent'
  <2>1. \A v \in Worker \ {w} : pc'[v] = pc[v] /\ (pc[v] = "work" => res[v] # c)
    BY <1>1 DEF AtMostOneInFlight, TypeOK
  <2>2. \A r \in Resource \ {c} : processing'[r] = processing[r]
    BY <1>1 DEF MarkDone, TypeOK
  <2>3. processing'[c] = "absent" /\ pc'[w] = "check"
    BY <1>1 DEF MarkDone, TypeOK
  <2>4. shuttingDown => queue' = queue
    BY <1>1 DEF MarkDone
  <2> QED
    BY <1>1, <2>1, <2>2, <2>3, <2>4 DEF Coherent, TypeOK
<1>8. AtMostOneInFlight' /\ NoStrandedWork'
  BY <1>1 DEF AtMostOneInFlight, NoStrandedWork, TypeOK
<1>9. Alive' = Alive
  BY <1>1 DEF Alive, TypeOK
<1>10. NoLostPush'
  BY <1>1 DEF MarkDone, NoLostPush, Coherent, TypeOK
<1> QED
  BY <1>1, <1>5, <1>6, <1>7, <1>8, <1>9, <1>10 DEF WorkersBounded

\* Shutting down clears the queue and moves no goroutine.
LEMMA CloseInv ==
    ASSUME IInv, beginClose \/ finishClose
    PROVE  IInv'
<1> USE DEF IInv
<1>1. Alive' = Alive
  BY DEF beginClose, finishClose, Alive
<1>2. CASE beginClose
  <2>1. TypeOK'
    BY <1>2 DEF beginClose, queueVars, TypeOK
  <2>2. Coalesced'
    BY <1>2 DEF beginClose, queueVars, Coalesced
  <2>3. Coherent' /\ AtMostOneInFlight' /\ NoStrandedWork'
    BY <1>2, WorkerAssumption
    DEF beginClose, queueVars, Coherent, AtMostOneInFlight, NoStrandedWork, TypeOK
  <2> QED
    BY <1>1, <1>2, <2>1, <2>2, <2>3 DEF beginClose, WorkersBounded, NoLostPush, queueVars
<1>3. CASE finishClose
  <2>1. queue' = <<>> /\ pending' = {} /\ processing' = [r \in Resource |-> "absent"]
    BY <1>3 DEF finishClose, ShutDown
  <2>2. TypeOK'
    <3>1. queue' \in Seq(Resource)
      BY <2>1
    <3> QED
      BY <1>3, <2>1, <3>1 DEF finishClose, ShutDown, TypeOK
  <2>3. Coalesced'
    BY <2>1 DEF Coalesced, Items
  <2>4. Coherent' /\ AtMostOneInFlight' /\ NoStrandedWork'
    BY <1>3, <2>1, WorkerAssumption
    DEF finishClose, ShutDown, Coherent, AtMostOneInFlight, NoStrandedWork, TypeOK
  <2> QED
    BY <1>1, <1>3, <2>1, <2>2, <2>3, <2>4 DEF finishClose, WorkersBounded, NoLostPush
<1> QED
  BY <1>2, <1>3
LEMMA NextInv == IInv /\ [Next]_vars => IInv'
<1> SUFFICES ASSUME IInv, [Next]_vars PROVE IInv'
  OBVIOUS
<1>1. ASSUME NEW target \in Resource, Push(target) PROVE IInv'
  BY <1>1, PushInv
<1>2. CASE maybeAddWorkerLocked
  BY <1>2, AddWorkerInv
<1>3. ASSUME NEW w \in Worker, worker(w) PROVE IInv'
  BY <1>3, CheckInv, ExitInv, DequeueInv, MarkDoneInv DEF worker
<1>4. CASE beginClose \/ finishClose
  BY <1>4, CloseInv
<1>5. CASE UNCHANGED vars
  BY <1>5 DEF vars, IInv, TypeOK, Coalesced, Coherent, AtMostOneInFlight,
              WorkersBounded, Alive, NoStrandedWork, NoLostPush
<1> QED
  BY <1>1, <1>2, <1>3, <1>4, <1>5 DEF Next

LEMMA Invariance == Spec => []IInv
BY InitInv, NextInv, PTL DEF Spec

\* For any resources and any number of workers: the variables keep their types.
THEOREM PoolTypeOK == Spec => []TypeOK
<1>1. IInv => TypeOK
  BY DEF IInv
<1> QED
  BY <1>1, Invariance, PTL

\* Two goroutines never run the same resource at once, whatever the order in
\* which pushes, workers and the shutdown callback take the two locks.
THEOREM PoolAtMostOneInFlight == Spec => []AtMostOneInFlight
<1>1. IInv => AtMostOneInFlight
  BY DEF IInv
<1> QED
  BY <1>1, Invariance, PTL

\* An open pool never holds an item that no goroutine will look at: the check
\* that lets a worker exit and the one that lets a push start none agree.
THEOREM PoolNoStrandedWork == Spec => []NoStrandedWork
<1>1. IInv => NoStrandedWork
  BY DEF IInv
<1> QED
  BY <1>1, Invariance, PTL

\* The pool never runs more than maxWorkers goroutines and always knows how many.
THEOREM PoolWorkersBounded == Spec => []WorkersBounded
<1>1. IInv => WorkersBounded
  BY DEF IInv
<1> QED
  BY <1>1, Invariance, PTL

\* No resource waits twice, or waits while it runs.
THEOREM PoolCoalesced == Spec => []Coalesced
<1>1. IInv => Coalesced
  BY DEF IInv
<1> QED
  BY <1>1, Invariance, PTL

\* Every accepted push is still waiting, or marked for a follow-up, until a run
\* of its resource has begun.
THEOREM PoolNoLostPush == Spec => []NoLostPush
<1>1. IInv => NoLostPush
  BY DEF IInv
<1> QED
  BY <1>1, Invariance, PTL

\* A queue that has been shut down is empty, so no worker finds work in it.
THEOREM PoolNothingStartsAfterShutDown == Spec => NothingStartsAfterShutDown
<1> DEFINE A == \A w \in Worker : shuttingDown /\ pc'[w] = "work" => pc[w] = "work"
<1>1. IInv /\ [Next]_vars => [A]_vars
  <2> SUFFICES ASSUME IInv, Next, NEW v \in Worker, shuttingDown, pc'[v] = "work"
               PROVE  pc[v] = "work"
    BY DEF A
  <2>1. queue = <<>> /\ closing /\ pc \in [Worker -> {"none", "check", "exit", "dequeue", "work"}]
    BY DEF IInv, Coherent, TypeOK
  <2>2. CASE \E target \in Resource : Push(target)
    BY <2>2, <2>1 DEF Push
  <2>3. CASE maybeAddWorkerLocked
    BY <2>3, <2>1 DEF maybeAddWorkerLocked
  <2>4. ASSUME NEW w \in Worker, worker(w) PROVE pc[v] = "work"
    BY <2>4, <2>1 DEF worker, workerCheck, workerExit, workerDequeue, Dequeue, workerMarkDone
  <2>5. CASE beginClose \/ finishClose
    BY <2>5, <2>1 DEF beginClose, finishClose
  <2> QED
    BY <2>2, <2>3, <2>4, <2>5 DEF Next
<1> QED
  BY <1>1, Invariance, PTL DEF Spec, NothingStartsAfterShutDown

-----------------------------------------------------------------------------
(* Refinement *)

\* The locked queue and its goroutines implement StatusRequests: a push is a
\* request, a dequeue starts a run, MarkDone finishes it, the shutdown callback
\* closes, and nothing else is visible.
THEOREM PoolImplementsRequests == Spec => ImplementsRequests
<1> DEFINE running == {r \in Resource : processing[r] # "absent"}
<1>1. Init => Abstract!Init
  BY DEF Init, Abstract!Init
<1>2. IInv /\ [Next]_vars => [Abstract!Next]_(Abstract!vars)
  <2> SUFFICES ASSUME IInv, [Next]_vars
               PROVE  Abstract!Next \/ UNCHANGED <<owed, running, shuttingDown>>
    BY DEF Abstract!vars
  <2>1. TypeOK /\ Coalesced /\ Coherent /\ NoLostPush
    BY DEF IInv
  <2>2. ASSUME NEW target \in Resource, Push(target) PROVE Abstract!Request(target)
    <3>1. ~shuttingDown /\ UNCHANGED shuttingDown
      BY <2>1, <2>2 DEF Push, Enqueue, queueVars, Coherent
    <3>2. running' = running
      BY <2>1, <2>2 DEF Push, Enqueue, queueVars, TypeOK
    <3> QED
      BY <2>2, <3>1, <3>2 DEF Push, Abstract!Request
  <2>3. CASE maybeAddWorkerLocked
    BY <2>3 DEF maybeAddWorkerLocked, queueVars
  <2>4. ASSUME NEW w \in Worker, workerCheck(w) \/ workerExit(w)
        PROVE  UNCHANGED <<owed, running, shuttingDown>>
    BY <2>4 DEF workerCheck, workerExit, queueVars
  <2>5. ASSUME NEW w \in Worker, workerDequeue(w)
        PROVE  (\E r \in Resource : Abstract!Start(r)) \/ UNCHANGED <<owed, running, shuttingDown>>
    <3>1. CASE queue = <<>>
      BY <2>5, <3>1 DEF workerDequeue, Dequeue, queueVars
    <3>2. CASE queue # <<>>
      <4> DEFINE h == Head(queue)
      <4>1. h \in pending /\ h \in Resource
        BY <2>1, <3>2, TailItems DEF Coalesced, Distinct, TypeOK
      <4>2. /\ processing[h] = "absent"
            /\ h \in owed
            /\ owed' = owed \ {h}
            /\ processing' = [processing EXCEPT ![h] = "clean"]
            /\ UNCHANGED shuttingDown
        BY <2>1, <2>5, <3>2, <4>1 DEF workerDequeue, Dequeue, Coalesced, NoLostPush
      <4>3. h \notin running /\ running' = running \cup {h}
        BY <2>1, <4>1, <4>2 DEF TypeOK
      <4> QED
        BY <4>1, <4>2, <4>3 DEF Abstract!Start
    <3> QED
      BY <3>1, <3>2
  <2>6. ASSUME NEW w \in Worker, workerMarkDone(w)
        PROVE  (\E r \in Resource : Abstract!Finish(r)) \/ UNCHANGED <<owed, running, shuttingDown>>
    <3>1. /\ res[w] \in Resource
          /\ processing' = [processing EXCEPT ![res[w]] = "absent"]
          /\ UNCHANGED <<owed, shuttingDown>>
      BY <2>1, <2>6 DEF workerMarkDone, MarkDone, TypeOK
    <3>2. running' = running \ {res[w]}
      BY <2>1, <3>1 DEF TypeOK
    <3>3. CASE res[w] \in running
      BY <3>1, <3>2, <3>3 DEF Abstract!Finish
    <3> QED
      BY <3>1, <3>2, <3>3
  <2>7. CASE beginClose
    BY <2>7 DEF beginClose, queueVars
  <2>8. CASE finishClose
    <3>1. running' = {} /\ owed' = {} /\ ~shuttingDown /\ shuttingDown'
      BY <2>1, <2>8 DEF finishClose, ShutDown, Coherent
    <3> QED
      BY ZenonT(30), <3>1 DEF Abstract!Next, Abstract!Close
  <2>9. CASE UNCHANGED vars
    BY <2>9 DEF vars
  <2> QED
    BY <2>2, <2>3, <2>4, <2>5, <2>6, <2>7, <2>8, <2>9 DEF Next, worker, Abstract!Next
<1> QED
  BY <1>1, <1>2, Invariance, PTL DEF Spec, ImplementsRequests, Abstract!Spec

-----------------------------------------------------------------------------
(* GatewayStatus: the argument is about the resourceVersion of a call.  One   *)
(* that may still be accepted carries, in the other writer's fields, what the *)
(* API server has.                                                            *)

CONSTANTS Specs, BadAddress, Services, LoadBalancer, ListenerFaults, Steps, MaxEvents
VARIABLES api, gwPending, cache, params, svc, faults, queued, retrying, gwPc, gw, accepted,
          call, tries, gwOwed, wcall, budget

Gw == INSTANCE GatewayStatus WITH pending <- gwPending, pc <- gwPc, owed <- gwOwed

\* A call that may still be accepted carries, beside what its writer owns, what
\* the API server has; only the two updating states of Reconcile have a call out.
CallsFresh ==
    /\ call.open => gwPc \in {"condition", "addresses"}
    /\ call.open /\ call.current /\ gwPc = "addresses" => call.accepted = api.accepted
    /\ call.open /\ call.current /\ gwPc = "condition" => call.addresses = api.addresses
    /\ wcall.open /\ wcall.current => wcall.addresses = api.addresses

\* The informer's last undelivered version is the stored one.
GatewayTypes ==
    /\ api \in Gw!Gateway /\ cache \in Gw!Gateway /\ gw \in Gw!Gateway
    /\ gwPending \in Seq(Gw!Gateway)
    /\ svc \in Services
    /\ accepted \in {Gw!InvalidParameters, Gw!Accepted}
    /\ call \in Gw!Call /\ wcall \in Gw!Call
    /\ api = (IF gwPending = <<>> THEN cache ELSE gwPending[Len(gwPending)])

GatewayInv == GatewayTypes /\ CallsFresh

\* The address lists that Reconcile writes are address lists.
LEMMA AddressesClosed ==
  /\ <<>> \in Gw!Addresses
  /\ \A a, b \in Services \cup Specs : <<a>> \in Gw!Addresses /\ <<a, b>> \in Gw!Addresses
<1>1. <<>> \in [1..0 -> Services \cup Specs]
  OBVIOUS
<1>2. \A a, b \in Services \cup Specs : <<a>> \in [1..1 -> Services \cup Specs]
  OBVIOUS
<1>3. \A a, b \in Services \cup Specs : <<a, b>> \in [1..2 -> Services \cup Specs]
  OBVIOUS
<1>4. 0 \in 0..2 /\ 1 \in 0..2 /\ 2 \in 0..2
  OBVIOUS
<1>5. QED
  BY <1>1, <1>2, <1>3, <1>4 DEF Gw!Addresses

\* Calls are closed under what is done with them.
LEMMA CallTypes ==
  /\ Gw!NoCall \in Gw!Call
  /\ \A c \in Gw!Call : Gw!Outdated(c) \in Gw!Call
  /\ \A g \in Gw!Gateway : Gw!UpdateStatus(g) \in Gw!Call
<1>1. Gw!NoCall \in Gw!Call
  BY AddressesClosed DEF Gw!NoCall, Gw!Call, Gw!Conditions, Gw!Unset
<1>2. \A c \in Gw!Call : Gw!Outdated(c) \in Gw!Call
  BY DEF Gw!Outdated, Gw!Call
<1>3. \A g \in Gw!Gateway : Gw!UpdateStatus(g) \in Gw!Call
  BY DEF Gw!UpdateStatus, Gw!Call, Gw!Gateway
<1>4. QED
  BY <1>1, <1>2, <1>3

\* A Gateway without a status satisfies the invariant.
LEMMA GatewayInitially == Gw!Init => GatewayInv
<1> SUFFICES ASSUME Gw!Init PROVE GatewayInv
  OBVIOUS
<1>1. api \in Gw!Gateway
  BY AddressesClosed DEF Gw!Init, Gw!Gateway, Gw!Conditions, Gw!Unset
<1>2. GatewayTypes
  <2>1. <<>> \in Seq(Gw!Gateway)
    OBVIOUS
  <2>2. QED
    BY <1>1, <2>1, CallTypes DEF Gw!Init, GatewayTypes
<1>3. CallsFresh
  BY DEF Gw!Init, CallsFresh, Gw!NoCall
<1>4. QED
  BY <1>2, <1>3 DEF GatewayInv

\* The version that an update stores is the last that the informer will deliver.
LEMMA AppendsLast ==
  ASSUME GatewayTypes, api' \in Gw!Gateway, cache' = cache,
         gwPending' = IF api' = api THEN gwPending ELSE Append(gwPending, api')
  PROVE  /\ gwPending' \in Seq(Gw!Gateway)
         /\ api' = (IF gwPending' = <<>> THEN cache' ELSE gwPending'[Len(gwPending')])
<1>1. CASE api' = api
  BY <1>1 DEF GatewayTypes
<1>2. CASE api' # api
  <2>1. gwPending' = Append(gwPending, api') /\ gwPending \in Seq(Gw!Gateway)
    BY <1>2 DEF GatewayTypes
  <2>2. gwPending' \in Seq(Gw!Gateway) /\ Len(gwPending') = Len(gwPending) + 1
        /\ gwPending'[Len(gwPending) + 1] = api' /\ Len(gwPending) \in Nat
    BY <2>1
  <2>3. gwPending' # <<>> /\ gwPending'[Len(gwPending')] = api'
    BY <2>1, <2>2
  <2>4. QED
    BY <1>2, <2>2, <2>3
<1>3. QED
  BY <1>1, <1>2

\* A change of the spec makes every call stale; the other changes touch neither
\* the Gateway nor the calls.
LEMMA EnvironmentKeeps ==
  ASSUME GatewayInv, Gw!Environment
  PROVE  GatewayInv'
<1> USE DEF GatewayInv
<1>1. CASE Gw!SpecChanges
  <2>1. api' \in Gw!Gateway /\ api' # api /\ UNCHANGED cache
        /\ api'.accepted = api.accepted /\ api'.addresses = api.addresses
    BY <1>1 DEF Gw!SpecChanges, GatewayTypes, Gw!Gateway
  <2>2. gwPending' \in Seq(Gw!Gateway) /\ api' = (IF gwPending' = <<>> THEN cache' ELSE gwPending'[Len(gwPending')])
    BY ZenonT(30), <1>1, <2>1, AppendsLast DEF Gw!SpecChanges
  <2>3. GatewayTypes'
    BY ZenonT(30), <1>1, <2>1, <2>2, CallTypes DEF Gw!SpecChanges, GatewayTypes
  <2>4. ~call'.current /\ ~wcall'.current /\ call'.open = call.open /\ gwPc' = gwPc
    BY ZenonT(30), <1>1 DEF Gw!SpecChanges, Gw!Outdated, GatewayTypes, Gw!Call
  <2>5. CallsFresh'
    BY ZenonT(30), <2>4 DEF CallsFresh
  <2>6. QED
    BY <2>3, <2>5
<1>2. CASE Gw!ParametersChange
  BY ZenonT(30), <1>2 DEF Gw!ParametersChange, Gw!Spend, GatewayTypes, CallsFresh, Gw!reconciler,
       Gw!writer
<1>3. CASE Gw!ServiceChanges
  BY ZenonT(30), <1>3 DEF Gw!ServiceChanges, Gw!Spend, GatewayTypes, CallsFresh, Gw!reconciler,
       Gw!writer
<1>4. CASE Gw!ReportChanges
  BY <1>4 DEF Gw!ReportChanges, Gw!Spend, GatewayTypes, CallsFresh, Gw!reconciler, Gw!writer
<1>5. QED
  BY <1>1, <1>2, <1>3, <1>4 DEF Gw!Environment

\* The informer catches up with the stored object without changing it.
LEMMA InformerKeeps ==
  ASSUME GatewayInv, Gw!InformerDelivers
  PROVE  GatewayInv'
<1> USE DEF GatewayInv
<1>1. /\ cache' = Head(gwPending) /\ gwPending' = Tail(gwPending) /\ gwPending # <<>>
      /\ gwPending \in Seq(Gw!Gateway) /\ api = gwPending[Len(gwPending)] /\ api' = api
  BY DEF Gw!InformerDelivers, GatewayTypes
<1>2. cache' \in Gw!Gateway /\ gwPending' \in Seq(Gw!Gateway)
  BY <1>1
<1>3. api' = (IF gwPending' = <<>> THEN cache' ELSE gwPending'[Len(gwPending')])
  <2>1. Len(gwPending) \in Nat \ {0} /\ api = gwPending[Len(gwPending)]
    BY <1>1
  <2>2. Len(gwPending') = Len(gwPending) - 1
        /\ \A i \in 1..(Len(gwPending) - 1) : gwPending'[i] = gwPending[i + 1]
    BY <1>1, <2>1
  <2>3. CASE Len(gwPending) = 1
    BY SMTT(30), <1>1, <1>2, <2>1, <2>2, <2>3
  <2>4. CASE Len(gwPending) # 1
    <3>1. Len(gwPending) - 1 \in 1..(Len(gwPending) - 1) /\ gwPending' # <<>>
      BY SMTT(30), <1>2, <2>1, <2>2, <2>4
    <3>2. QED
      BY SMTT(30), <1>1, <2>1, <2>2, <3>1
  <2>5. QED
    BY <2>3, <2>4
<1>4. GatewayTypes'
  BY ZenonT(30), <1>2, <1>3 DEF Gw!InformerDelivers, GatewayTypes, Gw!world, Gw!reconciler
<1>5. CallsFresh'
  BY DEF Gw!InformerDelivers, CallsFresh, Gw!reconciler
<1>6. QED
  BY <1>4, <1>5
\* What a return from Reconcile, or the end of a call, leaves behind.
LEMMA ReturnKeeps ==
  ASSUME GatewayInv, NEW failed, Gw!Return(failed), UNCHANGED <<api, gwPending, cache, svc, wcall>>
  PROVE  GatewayInv'
<1>1. GatewayTypes'
  BY ZenonT(30), CallTypes DEF Gw!Return, GatewayInv, GatewayTypes
<1>2. CallsFresh'
  BY DEF Gw!Return, GatewayInv, CallsFresh, Gw!NoCall
<1>3. QED
  BY ZenonT(30), <1>1, <1>2 DEF GatewayInv

\* An update that reads the cache: what it does not set is what the API server
\* has, if the call is sent with the latest version.
LEMMA SentFresh ==
  ASSUME GatewayTypes, NEW g \in Gw!Gateway
  PROVE  /\ Gw!UpdateStatus(g).open
         /\ Gw!UpdateStatus(g).accepted = g.accepted
         /\ Gw!UpdateStatus(g).addresses = g.addresses
         /\ Gw!UpdateStatus(g).current => cache = api
BY DEF Gw!UpdateStatus, GatewayTypes

\* Each attempt of RetryOnConflict reads the Gateway again before it writes.
LEMMA SendKeeps ==
  ASSUME GatewayInv,
         Gw!updateGatewayCondition \/ Gw!updateGatewayAddresses
  PROVE  GatewayInv'
<1> USE DEF GatewayInv
<1>1. CASE Gw!updateGatewayCondition
  <2> DEFINE g == [cache EXCEPT !.accepted = accepted]
  <2>1. g \in Gw!Gateway /\ g.addresses = cache.addresses
    BY DEF GatewayTypes, Gw!Gateway, Gw!Conditions
  <2>2. call' = Gw!UpdateStatus(g) /\ gwPc = "condition"
        /\ UNCHANGED <<api, gwPending, cache, svc, gwPc, gw, accepted, wcall>>
    BY <1>1 DEF Gw!updateGatewayCondition, Gw!world, Gw!writer
  <2> HIDE DEF g
  <2>3. GatewayTypes'
    BY <2>1, <2>2, CallTypes DEF GatewayTypes
  <2>4. CallsFresh'
    BY <2>1, <2>2, SentFresh DEF CallsFresh
  <2>5. QED
    BY <2>3, <2>4
<1>2. CASE Gw!updateGatewayAddresses
  <2>1. CASE cache.addresses = Gw!desiredAddresses
    <3>1. Gw!Return(FALSE) /\ UNCHANGED <<api, gwPending, cache, svc, wcall>>
      BY <1>2, <2>1 DEF Gw!updateGatewayAddresses, Gw!world, Gw!writer
    <3>2. QED
      BY <3>1, ReturnKeeps DEF GatewayTypes
  <2>2. CASE cache.addresses # Gw!desiredAddresses
    <3> DEFINE g == [cache EXCEPT !.addresses = Gw!desiredAddresses]
    <3>1. Gw!desiredAddresses \in Gw!Addresses
      BY AddressesClosed DEF Gw!desiredAddresses, GatewayTypes, Gw!Gateway
    <3>2. g \in Gw!Gateway /\ g.accepted = cache.accepted
      BY <3>1 DEF GatewayTypes, Gw!Gateway
    <3>3. call' = Gw!UpdateStatus(g) /\ gwPc = "addresses"
          /\ UNCHANGED <<api, gwPending, cache, svc, gwPc, gw, accepted, wcall>>
      BY ZenonT(30), <1>2, <2>2 DEF Gw!updateGatewayAddresses, Gw!world, Gw!writer
    <3> HIDE DEF g
    <3>4. GatewayTypes'
      BY ZenonT(30), <3>2, <3>3, CallTypes DEF GatewayTypes
    <3>5. CallsFresh'
      BY ZenonT(30), <3>2, <3>3, SentFresh DEF CallsFresh
    <3>6. QED
      BY <3>4, <3>5
  <2>3. QED
    BY <2>1, <2>2
<1>3. QED
  BY <1>1, <1>2

\* The other steps of Reconcile start or end without a call.
LEMMA StepsKeep ==
  ASSUME GatewayInv,
         Gw!RetryFires \/ Gw!Reconcile \/ Gw!Deploy \/ Gw!ReconcileFails \/ Gw!ReconcilerConflicts
  PROVE  GatewayInv'
<1> USE DEF GatewayInv
<1>1. CASE Gw!RetryFires
  BY <1>1 DEF Gw!RetryFires, GatewayTypes, CallsFresh, Gw!world, Gw!reconciler, Gw!writer
<1>2. CASE Gw!Reconcile
  <2>1. GatewayTypes'
    BY ZenonT(30), <1>2 DEF Gw!Reconcile, GatewayTypes, Gw!world, Gw!writer
  <2>2. ~call.open /\ UNCHANGED <<call, wcall, api>>
    BY ZenonT(30), <1>2 DEF Gw!Reconcile, CallsFresh, Gw!writer
  <2>3. CallsFresh'
    BY ZenonT(30), <2>2 DEF CallsFresh
  <2>4. QED
    BY ZenonT(30), <2>1, <2>3
<1>3. CASE Gw!Deploy
  BY ZenonT(30), <1>3 DEF Gw!Deploy, GatewayTypes, CallsFresh, Gw!world, Gw!writer
<1>4. CASE Gw!ReconcileFails
  BY <1>4, ReturnKeeps DEF Gw!ReconcileFails, Gw!writer
<1>5. CASE Gw!ReconcilerConflicts
  <2>1. CASE tries + 1 < Steps
    <3>1. call' = Gw!NoCall /\ UNCHANGED <<api, gwPending, cache, svc, gwPc, gw, accepted, wcall>>
      BY ZenonT(30), <1>5, <2>1 DEF Gw!ReconcilerConflicts, GatewayTypes, Gw!world, Gw!writer
    <3>2. GatewayTypes'
      BY ZenonT(30), <3>1, CallTypes DEF GatewayTypes
    <3>3. CallsFresh'
      BY ZenonT(30), <3>1 DEF CallsFresh, Gw!NoCall
    <3>4. QED
      BY <3>2, <3>3
  <2>2. CASE ~(tries + 1 < Steps)
    <3>1. Gw!Return(TRUE) /\ UNCHANGED <<api, gwPending, cache, svc, wcall>>
      BY <1>5, <2>2 DEF Gw!ReconcilerConflicts, Gw!world, Gw!writer
    <3>2. QED
      BY <3>1, ReturnKeeps DEF GatewayTypes
  <2>3. QED
    BY <2>1, <2>2
<1>6. QED
  BY ZenonT(30), <1>1, <1>2, <1>3, <1>4, <1>5

\* A call that the API server takes.
LEMMA StoresTypes ==
  ASSUME GatewayTypes, NEW c \in Gw!Call, Gw!Stores(c), UNCHANGED cache
  PROVE  /\ api' \in Gw!Gateway /\ gwPending' \in Seq(Gw!Gateway)
         /\ api' = (IF gwPending' = <<>> THEN cache' ELSE gwPending'[Len(gwPending')])
         /\ c.current /\ api'.accepted = c.accepted /\ api'.addresses = c.addresses
<1>1. api' \in Gw!Gateway /\ c.current /\ api'.accepted = c.accepted /\ api'.addresses = c.addresses
  BY DEF Gw!Stores, GatewayTypes, Gw!Gateway, Gw!Call
<1>2. QED
  BY <1>1, AppendsLast DEF Gw!Stores

\* A version that is replaced makes the other writer's call stale.
LEMMA OutdatedUnlessSame ==
  ASSUME GatewayTypes, NEW c \in Gw!Call
  PROVE  LET d == IF api' = api THEN c ELSE Gw!Outdated(c)
         IN  d \in Gw!Call /\ d.open = c.open /\ d.accepted = c.accepted /\ d.addresses = c.addresses
             /\ (d.current => c.current /\ api' = api)
BY CallTypes DEF Gw!Outdated, Gw!Call

\* The status writer merges into the Gateway it has just read.
LEMMA StatusWriterKeeps ==
  ASSUME GatewayInv, Gw!Writer
  PROVE  GatewayInv'
<1> USE DEF GatewayInv
<1>1. CASE Gw!ApplyStatus
  <2> DEFINE g == Gw!mergeGatewayStatusAddresses(cache, Gw!BuildGWStatus(cache))
  <2>1. Gw!BuildGWStatus(cache) \in Gw!Conditions
    BY DEF Gw!BuildGWStatus, Gw!Conditions
  <2>2. g \in Gw!Gateway /\ g.addresses = cache.addresses
    BY <2>1 DEF Gw!mergeGatewayStatusAddresses, GatewayTypes, Gw!Gateway
  <2> HIDE DEF g
  <2>3. /\ wcall' = Gw!NoCall \/ wcall' = Gw!UpdateStatus(g)
        /\ UNCHANGED <<api, gwPending, cache, svc, gwPc, gw, accepted, call>>
    BY <1>1 DEF Gw!ApplyStatus, Gw!world, Gw!reconciler, g
  <2>4. GatewayTypes'
    BY <2>2, <2>3, CallTypes DEF GatewayTypes
  <2>5. CallsFresh'
    BY SMTT(30), <2>2, <2>3, SentFresh DEF CallsFresh, Gw!NoCall
  <2>6. QED
    BY <2>4, <2>5
<1>2. CASE Gw!StatusWrites
  <2>1. wcall \in Gw!Call /\ call \in Gw!Call /\ Gw!Stores(wcall) /\ wcall' = Gw!NoCall
        /\ call' = (IF api' = api THEN call ELSE Gw!Outdated(call))
        /\ UNCHANGED <<cache, svc, gwPc, gw, accepted>>
    BY ZenonT(30), <1>2 DEF Gw!StatusWrites, GatewayTypes, Gw!world
  <2>2. api' \in Gw!Gateway /\ gwPending' \in Seq(Gw!Gateway)
        /\ api' = (IF gwPending' = <<>> THEN cache' ELSE gwPending'[Len(gwPending')])
    BY ZenonT(30), <2>1, StoresTypes
  <2>3. call' \in Gw!Call /\ call'.open = call.open /\ call'.accepted = call.accepted
        /\ call'.addresses = call.addresses /\ (call'.current => call.current /\ api' = api)
    BY ZenonT(30), <2>1, OutdatedUnlessSame
  <2>4. GatewayTypes'
    BY ZenonT(30), <2>1, <2>2, <2>3, CallTypes DEF GatewayTypes
  <2>5. CallsFresh'
    BY ZenonT(30), <2>1, <2>3 DEF CallsFresh, Gw!NoCall
  <2>6. QED
    BY <2>4, <2>5
<1>3. CASE Gw!StatusConflicts
  <2>1. GatewayTypes'
    BY ZenonT(30), <1>3, CallTypes DEF Gw!StatusConflicts, GatewayTypes, Gw!world, Gw!reconciler
  <2>2. CallsFresh'
    BY <1>3 DEF Gw!StatusConflicts, CallsFresh, Gw!NoCall, Gw!reconciler
  <2>3. QED
    BY <2>1, <2>2
<1>4. QED
  BY <1>1, <1>2, <1>3 DEF Gw!Writer

\* A write of Reconcile makes the status writer's call stale, if it changed anything.
LEMMA ReconcilerWritesKeeps ==
  ASSUME GatewayInv, Gw!ReconcilerWrites
  PROVE  GatewayInv'
<1> USE DEF GatewayInv
<1>1. wcall \in Gw!Call /\ call \in Gw!Call /\ Gw!Stores(call) /\ call' = Gw!NoCall
      /\ wcall' = (IF api' = api THEN wcall ELSE Gw!Outdated(wcall))
      /\ UNCHANGED <<cache, svc, gw, accepted>>
  BY ZenonT(30) DEF Gw!ReconcilerWrites, Gw!Return, GatewayTypes, Gw!world
<1>2. api' \in Gw!Gateway /\ gwPending' \in Seq(Gw!Gateway)
      /\ api' = (IF gwPending' = <<>> THEN cache' ELSE gwPending'[Len(gwPending')])
  BY ZenonT(30), <1>1, StoresTypes
<1>3. wcall' \in Gw!Call /\ wcall'.open = wcall.open /\ wcall'.addresses = wcall.addresses
      /\ (wcall'.current => wcall.current /\ api' = api)
  BY ZenonT(30), <1>1, OutdatedUnlessSame
<1>4. GatewayTypes'
  BY ZenonT(30), <1>1, <1>2, <1>3, CallTypes DEF GatewayTypes
<1>5. CallsFresh'
  BY <1>1, <1>3 DEF CallsFresh, Gw!NoCall
<1>6. QED
  BY <1>4, <1>5

\* Every step keeps the invariant.
LEMMA GatewayStep == GatewayInv /\ [Gw!Next]_(Gw!vars) => GatewayInv'
<1> SUFFICES ASSUME GatewayInv, [Gw!Next]_(Gw!vars) PROVE GatewayInv'
  OBVIOUS
<1>1. CASE UNCHANGED Gw!vars
  BY <1>1 DEF GatewayInv, GatewayTypes, CallsFresh, Gw!vars
<1>2. CASE Gw!Next
  BY ZenonT(30), <1>2, EnvironmentKeeps, InformerKeeps, StepsKeep, SendKeeps, ReconcilerWritesKeeps,
     StatusWriterKeeps DEF Gw!Next, Gw!Controller
<1>3. QED
  BY ZenonT(30), <1>1, <1>2

\* Neither writer of a Gateway's status undoes the other, for any specs, addresses
\* and number of attempts and whatever lag the informer has: the status writer
\* (mergeGatewayStatusAddresses) stores the addresses that are in the API server,
\* updateGatewayAddresses the condition and updateGatewayCondition the addresses.
THEOREM GatewayWritersKeepApart == Gw!Spec => Gw!OwnFieldsOnly
<1>1. GatewayInv /\ [Gw!Next]_(Gw!vars)
      => [/\ Gw!StatusWrites => api'.addresses = api.addresses
          /\ Gw!ReconcilerWrites /\ gwPc = "addresses" => api'.accepted = api.accepted
          /\ Gw!ReconcilerWrites /\ gwPc = "condition" => api'.addresses = api.addresses]_(Gw!vars)
  <2> SUFFICES ASSUME GatewayInv
               PROVE  /\ Gw!StatusWrites => api'.addresses = api.addresses
                      /\ Gw!ReconcilerWrites /\ gwPc = "addresses" => api'.accepted = api.accepted
                      /\ Gw!ReconcilerWrites /\ gwPc = "condition" => api'.addresses = api.addresses
    BY ZenonT(30)
  <2>1. ASSUME Gw!StatusWrites PROVE api'.addresses = api.addresses
    <3>1. wcall.open /\ Gw!Stores(wcall) /\ UNCHANGED cache /\ wcall \in Gw!Call
      BY ZenonT(30), <2>1 DEF Gw!StatusWrites, GatewayInv, GatewayTypes
    <3>2. QED
      BY ZenonT(30), <3>1, StoresTypes DEF GatewayInv, CallsFresh
  <2>2. ASSUME Gw!ReconcilerWrites
        PROVE  /\ gwPc = "addresses" => api'.accepted = api.accepted
               /\ gwPc = "condition" => api'.addresses = api.addresses
    <3>1. call.open /\ Gw!Stores(call) /\ UNCHANGED cache /\ call \in Gw!Call
      BY <2>2 DEF Gw!ReconcilerWrites, GatewayInv, GatewayTypes
    <3>2. QED
      BY ZenonT(30), <3>1, StoresTypes DEF GatewayInv, CallsFresh
  <2>3. QED
    BY ZenonT(30), <2>1, <2>2
<1>2. QED
  BY <1>1, GatewayInitially, GatewayStep, PTL DEF Gw!Spec, Gw!OwnFieldsOnly
=============================================================================
