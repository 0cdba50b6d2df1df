-------------------------- MODULE StatusSyncProofs --------------------------
(***************************************************************************)
(* StatusSync's safety properties for any set of resources, any reports and *)
(* any number of changes, failures and restarts.  The argument is about     *)
(* resourceVersions: two copies of an object with the same version are the  *)
(* same, so a call the API server accepts was computed from what it         *)
(* replaces.                                                                *)
(***************************************************************************)
EXTENDS StatusSync, TLAPS

\* Versions identify contents, and no version is newer than the clock.
Versions ==
    \A r \in Resource :
        /\ api[r].rv <= clock /\ cache[r].rv <= clock
        /\ api[r].rv = 0 => api[r] = Absent
        /\ cache[r].rv = 0 => cache[r] = Absent
        /\ cache[r].rv = api[r].rv => cache[r] = api[r]

\* A call against the stored version keeps foreign entries and changes ours.
CallsCurrent ==
    \A call \in inFlight \cup orphans :
        /\ call.rv \in 1..clock
        /\ call.rv = api[call.res].rv =>
              call.theirs = api[call.res].theirs /\ call.ours # api[call.res].ours

\* An empty report, and a call that clears, are for resources that at some time
\* were unwanted.
ClearsJustified ==
    /\ \A r \in Resource : want[r] = None => r \in unwanted
    /\ \A r \in Resource : synced /\ report[r] = None => r \in unwanted
    /\ \A call \in inFlight \cup orphans : call.ours = None => call.res \in unwanted

\* Runs exist only while the handlers are attached, and that is after the sync.
Sessions ==
    /\ attached => synced
    /\ ~attached => events = {} /\ owed = {} /\ running = {}
    /\ \A call \in inFlight : call.res \in running
    /\ \A c, d \in inFlight : c.res = d.res => c = d

\* Every attempt after the first was paid for by a failure.
Attempts ==
    /\ budget["fail"] <= MaxFailures
    /\ \A r \in Resource : attempt[r] <= 1 + (MaxFailures - budget["fail"])

\* The object a call was computed from is still the one in the collection, or
\* an event has told the pipeline that it is not.
CallsWatched ==
    \A call \in inFlight :
        \/ call.res \in events \cup owed
        \/ cache[call.res] = Absent
        \/ cache[call.res].rv = call.rv

Remembered == MaxFailures < MaxAttempts => NeverForgotten

IInv == TypeOK /\ Versions /\ CallsCurrent /\ ClearsJustified /\ Sessions /\ Attempts
        /\ CallsWatched /\ Remembered

USE StatusAssumption DEF None, Missing

LEMMA InitInv == Init => IInv
<1> SUFFICES ASSUME Init PROVE IInv
  OBVIOUS
<1>1. TypeOK
  <2>1. api \in [Resource -> Object] /\ cache \in [Resource -> Object]
    BY DEF Init, Object, Absent
  <2>2. budget \in [Bound -> Nat]
    BY DEF Init, Bound
  <2>3. attempt \in [Resource -> 0..MaxAttempts] /\ report \in [Resource -> Report \cup {None, Missing}]
    BY DEF Init
  <2>4. \A r \in Resource : r \in running <=> attempt[r] # 0
    <3>1. running = {} /\ \A r \in Resource : attempt[r] = 0
      BY DEF Init
    <3>2. QED
      BY <3>1
  <2>5. QED
    BY ZenonT(30), <2>1, <2>2, <2>3, <2>4 DEF Init, TypeOK
<1>2. Versions
  <2> SUFFICES ASSUME NEW r \in Resource
               PROVE  /\ api[r].rv <= clock /\ cache[r].rv <= clock
                      /\ api[r].rv = 0 => api[r] = Absent
                      /\ cache[r].rv = 0 => cache[r] = Absent
                      /\ cache[r].rv = api[r].rv => cache[r] = api[r]
    BY DEF Versions
  <2>1. cache[r] = Absent /\ clock = 1
    BY DEF Init
  <2>2. CASE api[r] = Absent
    BY <2>1, <2>2 DEF Absent
  <2>3. CASE api[r] = [rv |-> 1, ours |-> None, theirs |-> 0]
    BY <2>1, <2>3 DEF Absent
  <2>4. QED
    BY <2>2, <2>3 DEF Init
<1>3. CallsCurrent /\ ClearsJustified /\ Sessions
  BY DEF Init, CallsCurrent, ClearsJustified, Sessions
<1>6. CallsWatched
  BY DEF Init, CallsWatched
<1>4. Attempts
  BY DEF Init, Attempts
<1>5. Remembered
  BY DEF Init, Remembered, NeverForgotten
<1>7. QED
  BY <1>1, <1>2, <1>3, <1>4, <1>5, <1>6 DEF IInv

LEMMA ContributionInv == ASSUME IInv, NEW r \in Resource, ContributionChanged(r) PROVE IInv'
<1> USE DEF IInv
<1>1. TypeOK'
  BY DEF TypeOK, ContributionChanged, Spend, poolVars, Object, Call, Bound, Absent
<1>2. Versions'
  BY DEF TypeOK, Versions, ContributionChanged, Spend, poolVars, Object, Absent
<1>3. CallsCurrent'
  BY DEF CallsCurrent, ContributionChanged
<1>4. ClearsJustified'
  BY DEF ClearsJustified, ContributionChanged
<1>5. Sessions'
  BY DEF TypeOK, Sessions, ContributionChanged, Spend, poolVars, Call
<1>6. Attempts'
  BY DEF TypeOK, Attempts, ContributionChanged, Spend, poolVars, Bound, Call
<1>7. CallsWatched'
  BY DEF CallsWatched, ContributionChanged, poolVars
<1>8. Remembered'
  BY DEF Remembered, ContributionChanged, poolVars, NeverForgotten, decide, HasDesired, Merged
<1>9. QED
  BY <1>1, <1>2, <1>3, <1>4, <1>5, <1>6, <1>7, <1>8

LEMMA ForeignInv == ASSUME IInv, NEW r \in Resource, ForeignWrite(r) PROVE IInv'
<1> USE DEF IInv
<1>1. TypeOK'
  <2>1. api[r] \in Object
    BY DEF TypeOK
  <2>2. [rv |-> clock + 1, ours |-> api[r].ours, theirs |-> api[r].theirs + 1] \in Object
    BY <2>1 DEF TypeOK, Object
  <2>3. api' \in [Resource -> Object]
    BY <2>2 DEF TypeOK, ForeignWrite, Store
  <2>4. QED
    BY <2>3 DEF TypeOK, ForeignWrite, Spend, Store, poolVars, Bound
<1>2. Versions'
  BY DEF TypeOK, Versions, ForeignWrite, Spend, Store, poolVars, Object, Absent
<1>3. CallsCurrent'
  BY DEF TypeOK, CallsCurrent, ForeignWrite, Store
<1>4. ClearsJustified'
  BY DEF ClearsJustified, ForeignWrite
<1>5. Sessions'
  BY DEF TypeOK, Sessions, ForeignWrite, Spend, Store, poolVars, Call
<1>6. Attempts'
  BY DEF TypeOK, Attempts, ForeignWrite, Spend, Store, poolVars, Bound, Call
<1>7. CallsWatched'
  BY DEF CallsWatched, ForeignWrite, poolVars
<1>8. Remembered'
  <2>1. cache'[r].rv <= clock /\ api'[r].rv = clock + 1
    BY DEF TypeOK, Versions, Object, ForeignWrite, Store
  <2>2. cache'[r] # api'[r]
    BY <2>1 DEF TypeOK, Object
  <2>3. QED
    BY <2>2 DEF Remembered, NeverForgotten, decide, HasDesired, Merged, ForeignWrite, Store,
       poolVars
<1>9. QED
  BY <1>1, <1>2, <1>3, <1>4, <1>5, <1>6, <1>7, <1>8

LEMMA DeleteInv == ASSUME IInv, NEW r \in Resource, DeleteObject(r) PROVE IInv'
<1> USE DEF IInv
<1>1. TypeOK'
  BY DEF TypeOK, DeleteObject, Spend, Store, poolVars, Object, Call, Bound, Absent
<1>2. Versions'
  BY DEF TypeOK, Versions, DeleteObject, Spend, Store, poolVars, Object, Absent
<1>3. CallsCurrent'
  BY DEF TypeOK, CallsCurrent, DeleteObject, Store, Absent
<1>4. ClearsJustified'
  BY DEF ClearsJustified, DeleteObject
<1>5. Sessions'
  BY DEF TypeOK, Sessions, DeleteObject, Spend, Store, poolVars, Call
<1>6. Attempts'
  BY DEF TypeOK, Attempts, DeleteObject, Spend, Store, poolVars, Bound, Call
<1>7. CallsWatched'
  BY DEF CallsWatched, DeleteObject, poolVars
<1>8. Remembered'
  BY SMTT(30) DEF Remembered, DeleteObject, Store, poolVars, NeverForgotten, decide, HasDesired, Merged
<1>9. QED
  BY <1>1, <1>2, <1>3, <1>4, <1>5, <1>6, <1>7, <1>8

LEMMA CreateInv == ASSUME IInv, NEW r \in Resource, CreateObject(r) PROVE IInv'
<1> USE DEF IInv
<1>1. TypeOK'
  BY DEF TypeOK, CreateObject, Spend, Store, poolVars, Object, Call, Bound, Absent
<1>2. Versions'
  BY DEF TypeOK, Versions, CreateObject, Spend, Store, poolVars, Object, Absent
<1>3. CallsCurrent'
  BY DEF TypeOK, CallsCurrent, CreateObject, Store
<1>4. ClearsJustified'
  BY ZenonT(30) DEF ClearsJustified, CreateObject
<1>5. Sessions'
  BY DEF TypeOK, Sessions, CreateObject, Spend, Store, poolVars, Call
<1>6. Attempts'
  BY DEF TypeOK, Attempts, CreateObject, Spend, Store, poolVars, Bound, Call
<1>7. CallsWatched'
  BY DEF CallsWatched, CreateObject, poolVars
<1>8. Remembered'
  BY DEF TypeOK, Versions, Remembered, CreateObject, Store, poolVars, NeverForgotten, decide,
     HasDesired, Merged
<1>9. QED
  BY <1>1, <1>2, <1>3, <1>4, <1>5, <1>6, <1>7, <1>8

LEMMA InformerInv == ASSUME IInv, NEW r \in Resource, InformerDelivers(r) PROVE IInv'
<1> USE DEF IInv
<1>1. TypeOK'
  BY DEF TypeOK, InformerDelivers, Notify, environment, poolVars
<1>2. Versions'
  BY DEF Versions, InformerDelivers, environment
<1>3. CallsCurrent'
  BY DEF CallsCurrent, InformerDelivers, environment
<1>4. ClearsJustified'
  BY DEF ClearsJustified, InformerDelivers, environment
<1>5. Sessions'
  BY DEF TypeOK, Sessions, InformerDelivers, Notify, environment, poolVars, Call
<1>6. Attempts'
  BY DEF TypeOK, Attempts, InformerDelivers, Notify, environment, poolVars, Bound, Call
<1>7. CallsWatched'
  BY DEF Sessions, CallsWatched, InformerDelivers, Notify, poolVars
<1>8. Remembered'
  BY DEF Remembered, InformerDelivers, Notify, environment, poolVars, NeverForgotten, decide,
     HasDesired, Merged
<1>9. QED
  BY <1>1, <1>2, <1>3, <1>4, <1>5, <1>6, <1>7, <1>8

LEMMA ReducerInv == ASSUME IInv, NEW r \in Resource, ReducerUpdates(r) PROVE IInv'
<1> USE DEF IInv
<1>1. TypeOK'
  BY DEF TypeOK, ReducerUpdates, Notify, environment, poolVars
<1>2. Versions'
  BY ZenonT(30) DEF TypeOK, Versions, ReducerUpdates, Notify, environment, poolVars, Object, Absent
<1>3. CallsCurrent'
  BY SMTT(30) DEF CallsCurrent, ReducerUpdates, environment
<1>4. ClearsJustified'
  BY DEF ClearsJustified, ReducerUpdates, environment
<1>5. Sessions'
  BY DEF TypeOK, Sessions, ReducerUpdates, Notify, environment, poolVars, Call
<1>6. Attempts'
  BY DEF TypeOK, Attempts, ReducerUpdates, Notify, environment, poolVars, Bound, Call
<1>7. CallsWatched'
  BY ZenonT(30) DEF CallsWatched, ReducerUpdates, Notify, poolVars
<1>8. Remembered'
  BY SMTT(30) DEF Remembered, ReducerUpdates, Notify, environment, poolVars, NeverForgotten, decide,
     HasDesired, Merged
<1>9. QED
  BY <1>1, <1>2, <1>3, <1>4, <1>5, <1>6, <1>7, <1>8

LEMMA HandlerInv == ASSUME IInv, NEW r \in Resource, HandlerPushes(r) PROVE IInv'
<1> USE DEF IInv
<1>1. TypeOK'
  BY ZenonT(30) DEF TypeOK, HandlerPushes, environment, Pool!Request, Object, Call, Bound, Absent
<1>2. Versions'
  BY DEF TypeOK, Versions, HandlerPushes, environment, Pool!Request, Object, Absent
<1>3. CallsCurrent'
  BY DEF CallsCurrent, HandlerPushes, environment
<1>4. ClearsJustified'
  BY ZenonT(30) DEF ClearsJustified, HandlerPushes, environment
<1>5. Sessions'
  BY DEF TypeOK, Sessions, HandlerPushes, environment, Pool!Request, Call
<1>6. Attempts'
  BY DEF TypeOK, Attempts, HandlerPushes, environment, Pool!Request, Bound, Call
<1>7. CallsWatched'
  BY DEF CallsWatched, HandlerPushes, Pool!Request
<1>8. Remembered'
  BY ZenonT(30) DEF Remembered, HandlerPushes, environment, Pool!Request, NeverForgotten, decide, HasDesired,
     Merged
<1>9. QED
  BY <1>1, <1>2, <1>3, <1>4, <1>5, <1>6, <1>7, <1>8

LEMMA BeginInv == ASSUME IInv, NEW r \in Resource, Begin(r) PROVE IInv'
<1> USE DEF IInv
<1>1. TypeOK'
  BY SMTT(30) DEF TypeOK, Begin, environment, Pool!Start, Object, Call, Bound, Absent
<1>2. Versions'
  BY DEF TypeOK, Versions, Begin, environment, Pool!Start, Object, Absent
<1>3. CallsCurrent'
  BY DEF CallsCurrent, Begin, environment
<1>4. ClearsJustified'
  BY DEF ClearsJustified, Begin, environment
<1>5. Sessions'
  BY DEF TypeOK, Sessions, Begin, environment, Pool!Start, Call
<1>6. Attempts'
  BY DEF TypeOK, Attempts, Begin, environment, Pool!Start, Bound, Call
<1>7. CallsWatched'
  BY ZenonT(30) DEF Sessions, CallsWatched, Begin, Pool!Start
<1>8. Remembered'
  BY ZenonT(30) DEF Remembered, Begin, environment, Pool!Start, NeverForgotten, decide, HasDesired, Merged
<1>9. QED
  BY <1>1, <1>2, <1>3, <1>4, <1>5, <1>6, <1>7, <1>8

LEMMA AttemptInv == ASSUME IInv, NEW r \in Resource, Attempt(r) PROVE IInv'
<1> USE DEF IInv
<1>1. TypeOK'
  <2>1. ASSUME decide(r) PROVE SentFor(r) \in Call
    BY ZenonT(30), <2>1 DEF TypeOK, decide, HasDesired, SentFor, Merged, Call, Object
  <2>2. inFlight' \subseteq Call
    BY ZenonT(30), <2>1 DEF TypeOK, Attempt
  <2>3. running' \subseteq Resource /\ attempt' \in [Resource -> 0..MaxAttempts]
    BY SMTT(30) DEF TypeOK, Attempt, Done, Pool!Finish, poolVars
  <2>4. \A q \in Resource : q \in running' <=> attempt'[q] # 0
    BY DEF TypeOK, Attempt, Done, Pool!Finish, poolVars
  <2>5. QED
    BY ZenonT(30), <2>2, <2>3, <2>4 DEF TypeOK, Attempt, Done, Pool!Finish, poolVars, environment
<1>2. Versions'
  BY ZenonT(30) DEF Versions, Attempt, environment
<1>3. CallsCurrent'
  BY SMTT(30) DEF TypeOK, Versions, CallsCurrent, Attempt, environment, SentFor, Merged, Object,
       decide
<1>4. ClearsJustified'
  BY SMTT(30) DEF Sessions, ClearsJustified, Attempt, environment, SentFor, Merged
<1>5. Sessions'
  BY SMTT(30) DEF Sessions, Attempt, poolVars, Done, Pool!Finish, SentFor, CallOf
<1>6. Attempts'
  BY SMTT(30) DEF TypeOK, Attempts, Attempt, environment, Done, Bound
<1>7. CallsWatched'
  BY DEF CallsWatched, Attempt, poolVars, Done, Pool!Finish, SentFor
<1>8. Remembered'
  BY ZenonT(30) DEF Remembered, Attempt, environment, poolVars, Done, Pool!Finish, Merged,
       NeverForgotten,
     decide, HasDesired
<1>9. QED
  BY <1>1, <1>2, <1>3, <1>4, <1>5, <1>6, <1>7, <1>8

LEMMA UpdatedInv == ASSUME IInv, NEW call \in inFlight, Updated(call) PROVE IInv'
<1> USE DEF IInv
<1>1. TypeOK'
  BY SMTT(30) DEF TypeOK, Updated, Store, Done, Pool!Finish, Applied, Object, Call
<1>2. Versions'
  BY SMTT(30) DEF TypeOK, Versions, Updated, Store, Applied, Object
<1>3. CallsCurrent'
  BY SMTT(30) DEF TypeOK, CallsCurrent, Updated, Store, Applied
<1>4. ClearsJustified'
  BY ZenonT(30) DEF ClearsJustified, Updated
<1>5. Sessions'
  BY ZenonT(30) DEF TypeOK, Sessions, Updated, Store, Done, Pool!Finish, Accepts, Applied, Call
<1>6. Attempts'
  BY DEF TypeOK, Attempts, Updated, Done, Bound
<1>7. CallsWatched'
  BY ZenonT(30) DEF CallsWatched, Updated, Done, Pool!Finish
<1>8. Remembered'
  BY SMTT(30) DEF TypeOK, Versions, Remembered, Updated, Store, Done, Pool!Finish, Applied,
       NeverForgotten,
     decide, HasDesired, Merged
<1>9. QED
  BY ZenonT(30), <1>1, <1>2, <1>3, <1>4, <1>5, <1>6, <1>7, <1>8

LEMMA RejectedInv == ASSUME IInv, NEW call \in inFlight, Rejected(call) PROVE IInv'
<1> USE DEF IInv
<1>1. TypeOK'
  BY SMTT(30) DEF TypeOK, Rejected, environment, Done, Pool!Finish
<1>2. Versions'
  BY ZenonT(30) DEF Versions, Rejected, environment
<1>3. CallsCurrent'
  BY SMTT(30) DEF CallsCurrent, Rejected, environment
<1>4. ClearsJustified'
  BY ZenonT(30) DEF ClearsJustified, Rejected, environment
<1>5. Sessions'
  BY ZenonT(30) DEF TypeOK, Sessions, Rejected, environment, Done, Pool!Finish, Accepts, Call
<1>6. Attempts'
  BY SMTT(30) DEF TypeOK, Attempts, Rejected, environment, Done, Pool!Finish, Accepts, Bound, Call
<1>7. CallsWatched'
  BY ZenonT(30) DEF CallsWatched, Rejected, Done, Pool!Finish
<1>8. Remembered'
  BY ZenonT(30) DEF CallsWatched, Remembered, Rejected, environment, Done, Pool!Finish, Accepts,
     NeverForgotten, decide, HasDesired, Merged
<1>9. QED
  BY ZenonT(30), <1>1, <1>2, <1>3, <1>4, <1>5, <1>6, <1>7, <1>8

LEMMA ServerInv ==
  ASSUME IInv, NEW call \in inFlight \cup orphans,
         UNCHANGED cache,
         inFlight' \cup orphans' \subseteq inFlight \cup orphans,
         \/ UNCHANGED <<api, clock>>
         \/ Accepts(call) /\ Store(call.res, Applied(call))
  PROVE  api' \in [Resource -> Object] /\ clock' \in Nat /\ Versions' /\ CallsCurrent'
<1> USE DEF IInv
<1>1. CASE UNCHANGED <<api, clock>>
  BY SMTT(30), <1>1 DEF TypeOK, Versions, CallsCurrent
<1>2. CASE Accepts(call) /\ Store(call.res, Applied(call))
  <2>1. call \in Call
    BY ZenonT(30) DEF TypeOK
  <2>2. Applied(call) \in Object /\ clock' = clock + 1 /\ clock \in Nat
    BY SMTT(30), <1>2, <2>1 DEF TypeOK, Applied, Object, Call, Store
  <2>3. api' \in [Resource -> Object]
    BY ZenonT(30), <1>2, <2>2 DEF TypeOK, Store
  <2>4. Versions'
    BY SMTT(30), <1>2, <2>1, <2>2 DEF TypeOK, Versions, Store, Applied, Call, Object
  <2>5. CallsCurrent'
    BY SMTT(30), <1>2, <2>1, <2>2 DEF TypeOK, CallsCurrent, Store, Applied, Call, Object
  <2>6. QED
    BY <2>2, <2>3, <2>4, <2>5
<1>3. QED
  BY ZenonT(30), <1>1, <1>2

LEMMA FailedInv == ASSUME IInv, NEW call \in inFlight, Failed(call) PROVE IInv'
<1> USE DEF IInv
<1>0. api' \in [Resource -> Object] /\ clock' \in Nat /\ Versions' /\ CallsCurrent'
  BY ZenonT(30), ServerInv DEF Failed
<1>1. TypeOK'
  <2>1. call.res \in Resource
    BY ZenonT(30) DEF TypeOK, Call
  <2>2. running' \subseteq Resource /\ attempt' \in [Resource -> 0..MaxAttempts]
    BY SMTT(30), <2>1 DEF TypeOK, Failed, Done, Pool!Finish, poolVars
  <2>3. \A q \in Resource : q \in running' <=> attempt'[q] # 0
    BY SMTT(30), <2>1 DEF TypeOK, Sessions, Failed, Done, Pool!Finish, poolVars
  <2>4. budget' \in [Bound -> Nat]
    BY SMTT(30) DEF TypeOK, Failed, Spend, Bound
  <2>5. QED
    BY ZenonT(30), <1>0, <2>2, <2>3, <2>4 DEF TypeOK, Failed, Done, Pool!Finish, poolVars
<1>2. Versions'
  BY <1>0
<1>3. CallsCurrent'
  BY ZenonT(30), <1>0
<1>4. ClearsJustified'
  BY ZenonT(30) DEF ClearsJustified, Failed
<1>5. Sessions'
  BY SMTT(30) DEF Sessions, Failed, Done, Pool!Finish, poolVars
<1>6. Attempts'
  BY SMTT(30) DEF TypeOK, Attempts, Failed, Spend, Done, Bound
<1>7. CallsWatched'
  BY ZenonT(30) DEF CallsWatched, Failed, Done, Pool!Finish, poolVars
<1>8. Remembered'
  <2> SUFFICES ASSUME MaxFailures < MaxAttempts, attached', NEW q \in Resource, decide(q)'
               PROVE  q \in (events \cup owed \cup running)' \/ cache'[q] # api'[q]
    BY ZenonT(30) DEF Remembered, NeverForgotten
  <2>1. call.res \in Resource
    BY ZenonT(30) DEF TypeOK, Call
  <2>2. attempt[call.res] <= MaxFailures
    BY SMTT(30), <2>1 DEF TypeOK, Attempts, Failed, Spend, Bound
  <2>3. attempt[call.res] # MaxAttempts
    BY SMTT(30), <2>1, <2>2 DEF TypeOK
  <2>4. UNCHANGED <<events, owed, running, cache, report, attached>>
    BY ZenonT(30), <2>3 DEF Failed, poolVars
  <2>5. decide(q) /\ attached
    BY ZenonT(30), <2>4 DEF decide, HasDesired, Merged
  <2>6. q \in events \cup owed \cup running \/ cache[q] # api[q]
    BY SMTT(30), <2>5 DEF Remembered, NeverForgotten
  <2>7. CASE q = call.res
    BY ZenonT(30), <2>4, <2>7 DEF Sessions
  <2>8. CASE q # call.res
    BY ZenonT(30), <2>1, <2>4, <2>6, <2>8 DEF TypeOK, Failed, Store
  <2>9. QED
    BY SMTT(30), <2>7, <2>8
<1>9. QED
  BY <1>1, <1>2, <1>3, <1>4, <1>5, <1>6, <1>7, <1>8

LEMMA OrphanInv == ASSUME IInv, NEW call \in orphans, OrphanArrives(call) PROVE IInv'
<1> USE DEF IInv
<1>0. api' \in [Resource -> Object] /\ clock' \in Nat /\ Versions' /\ CallsCurrent'
  BY ZenonT(30), ServerInv DEF OrphanArrives
<1>1. TypeOK'
  BY ZenonT(30), <1>0 DEF TypeOK, OrphanArrives, poolVars
<1>2. Versions'
  BY <1>0
<1>3. CallsCurrent'
  BY <1>0
<1>4. ClearsJustified'
  BY ZenonT(30) DEF ClearsJustified, OrphanArrives
<1>5. Sessions'
  BY ZenonT(30) DEF TypeOK, Sessions, OrphanArrives, Store, poolVars, Accepts, Applied, Call
<1>6. Attempts'
  BY ZenonT(30) DEF TypeOK, Attempts, OrphanArrives, Store, poolVars, Accepts, Applied, Bound, Call
<1>7. CallsWatched'
  BY ZenonT(30) DEF CallsWatched, OrphanArrives, poolVars
<1>8. Remembered'
  BY SMTT(30) DEF TypeOK, Versions, Remembered, OrphanArrives, Store, poolVars, Applied,
       NeverForgotten,
     decide, HasDesired, Merged
<1>9. QED
  BY <1>1, <1>2, <1>3, <1>4, <1>5, <1>6, <1>7, <1>8

LEMMA ListInv == ASSUME IInv, ListObjects PROVE IInv'
<1> USE DEF IInv
<1>1. TypeOK'
  BY ZenonT(30) DEF TypeOK, ListObjects, environment, poolVars, Object, Call, Bound, Absent
<1>2. Versions'
  BY ZenonT(30) DEF TypeOK, Versions, ListObjects, environment, poolVars, Object, Absent
<1>3. CallsCurrent'
  BY SMTT(30) DEF CallsCurrent, ListObjects, environment
<1>4. ClearsJustified'
  BY ZenonT(30) DEF ClearsJustified, ListObjects, environment
<1>5. Sessions'
  BY ZenonT(30) DEF TypeOK, Sessions, ListObjects, environment, poolVars, Call
<1>6. Attempts'
  BY ZenonT(30) DEF TypeOK, Attempts, ListObjects, environment, poolVars, Bound, Call
<1>7. CallsWatched'
  BY DEF Sessions, CallsWatched, ListObjects
<1>8. Remembered'
  BY ZenonT(30) DEF Sessions, Remembered, ListObjects, NeverForgotten
<1>9. QED
  BY ZenonT(30), <1>1, <1>2, <1>3, <1>4, <1>5, <1>6, <1>7, <1>8

LEMMA SyncedInv == ASSUME IInv, CachesSynced PROVE IInv'
<1> USE DEF IInv
<1>1. TypeOK'
  BY ZenonT(30) DEF TypeOK, CachesSynced, environment, poolVars, Object, Call, Bound, Absent
<1>2. Versions'
  BY ZenonT(30) DEF TypeOK, Versions, CachesSynced, environment, poolVars, Object, Absent
<1>3. CallsCurrent'
  BY SMTT(30) DEF CallsCurrent, CachesSynced, environment
<1>4. ClearsJustified'
  BY ZenonT(30) DEF ClearsJustified, CachesSynced, environment
<1>5. Sessions'
  BY SMTT(30) DEF TypeOK, Sessions, CachesSynced, environment, poolVars, Call
<1>6. Attempts'
  BY ZenonT(30) DEF TypeOK, Attempts, CachesSynced, environment, poolVars, Bound, Call
<1>7. CallsWatched'
  BY ZenonT(30) DEF Sessions, CallsWatched, CachesSynced
<1>8. Remembered'
  BY ZenonT(30) DEF Sessions, Remembered, CachesSynced, NeverForgotten
<1>9. QED
  BY <1>1, <1>2, <1>3, <1>4, <1>5, <1>6, <1>7, <1>8

LEMMA SetQueueInv == ASSUME IInv, SetQueue PROVE IInv'
<1> USE DEF IInv
<1>1. TypeOK'
  BY ZenonT(30) DEF TypeOK, SetQueue, environment, poolVars, Object, Call, Bound, Absent
<1>2. Versions'
  BY ZenonT(30) DEF TypeOK, Versions, SetQueue, environment, poolVars, Object, Absent
<1>3. CallsCurrent'
  BY SMTT(30) DEF CallsCurrent, SetQueue, environment
<1>4. ClearsJustified'
  BY ZenonT(30) DEF ClearsJustified, SetQueue, environment
<1>5. Sessions'
  BY ZenonT(30) DEF TypeOK, Sessions, SetQueue, environment, poolVars, Call
<1>6. Attempts'
  BY ZenonT(30) DEF TypeOK, Attempts, SetQueue, environment, poolVars, Bound, Call
<1>7. CallsWatched'
  BY ZenonT(30) DEF Sessions, CallsWatched, SetQueue
<1>8. Remembered'
  BY SMTT(30) DEF Remembered, SetQueue, NeverForgotten, decide
<1>9. QED
  BY <1>1, <1>2, <1>3, <1>4, <1>5, <1>6, <1>7, <1>8

LEMMA LoseInv == ASSUME IInv, LoseLeadership PROVE IInv'
<1> USE DEF IInv
<1>1. TypeOK'
  <2>1. cache' \in [Resource -> Object] /\ report' \in [Resource -> Report \cup {None, Missing}]
    BY ZenonT(30) DEF LoseLeadership, Object, Absent
  <2>2. attempt' \in [Resource -> 0..MaxAttempts] /\ budget' \in [Bound -> Nat]
    BY SMTT(30) DEF TypeOK, LoseLeadership, Spend, Bound
  <2>3. \A q \in Resource : q \in running' <=> attempt'[q] # 0
    BY ZenonT(30) DEF LoseLeadership
  <2>4. QED
    BY ZenonT(30), <2>1, <2>2, <2>3 DEF TypeOK, LoseLeadership
<1>2. Versions'
  BY SMTT(30) DEF TypeOK, Versions, LoseLeadership, Spend, Object, Absent
<1>3. CallsCurrent'
  BY DEF CallsCurrent, LoseLeadership
<1>4. ClearsJustified'
  BY ZenonT(30) DEF ClearsJustified, LoseLeadership
<1>5. Sessions'
  BY ZenonT(30) DEF TypeOK, Sessions, LoseLeadership, Spend, Call
<1>6. Attempts'
  BY SMTT(30) DEF TypeOK, Attempts, LoseLeadership, Spend, Bound, Call
<1>7. CallsWatched'
  BY ZenonT(30) DEF CallsWatched, LoseLeadership
<1>8. Remembered'
  BY SMTT(30) DEF Remembered, LoseLeadership, NeverForgotten
<1>9. QED
  BY <1>1, <1>2, <1>3, <1>4, <1>5, <1>6, <1>7, <1>8

LEMMA NextInv == IInv /\ [Next]_vars => IInv'
<1> SUFFICES ASSUME IInv, [Next]_vars PROVE IInv'
  OBVIOUS
<1>1. CASE UNCHANGED vars
  BY ZenonT(30), <1>1 DEF vars, IInv, TypeOK, Versions, CallsCurrent, ClearsJustified, Sessions,
       Attempts,
              CallsWatched, Remembered, NeverForgotten, decide, HasDesired, Merged
<1>2. ASSUME NEW r \in Resource,
             \/ ContributionChanged(r) \/ ForeignWrite(r) \/ DeleteObject(r) \/ CreateObject(r)
             \/ InformerDelivers(r) \/ ReducerUpdates(r) \/ HandlerPushes(r)
             \/ Begin(r) \/ Attempt(r)
      PROVE  IInv'
  BY ZenonT(30), <1>2, ContributionInv, ForeignInv, DeleteInv, CreateInv, InformerInv, ReducerInv,
       HandlerInv,
     BeginInv, AttemptInv
<1>3. ASSUME NEW call \in inFlight, Updated(call) \/ Rejected(call) \/ Failed(call) PROVE IInv'
  BY <1>3, UpdatedInv, RejectedInv, FailedInv
<1>4. ASSUME NEW call \in orphans, OrphanArrives(call) PROVE IInv'
  BY <1>4, OrphanInv
<1>5. CASE ListObjects \/ CachesSynced \/ SetQueue \/ LoseLeadership
  BY <1>5, ListInv, SyncedInv, SetQueueInv, LoseInv
<1>6. QED
  BY ZenonT(30), <1>1, <1>2, <1>3, <1>4, <1>5 DEF Next

LEMMA Invariance == Spec => []IInv
BY InitInv, NextInv, PTL DEF Spec

\* The pipeline's state is well formed, and a resource is being attempted
\* exactly while a worker runs it.
THEOREM SyncTypeOK == Spec => []TypeOK
<1>1. IInv => TypeOK
  BY DEF IInv
<1>2. QED
  BY <1>1, Invariance, PTL

\* With fewer transient failures than attempts, no resource whose status is out
\* of date is forgotten by the handlers, the pool and the informer together.
THEOREM SyncNeverForgotten == Spec => [](MaxFailures < MaxAttempts => NeverForgotten)
<1>1. IInv => (MaxFailures < MaxAttempts => NeverForgotten)
  BY DEF IInv, Remembered
<1>2. QED
  BY <1>1, Invariance, PTL

\* A stored write of the API server, whoever sent it, in terms of what it replaces.
LEMMA StoredBy ==
  ASSUME IInv, Next, NEW r \in Resource, api[r] # Absent, api'[r] # Absent, api'[r] # api[r]
  PROVE  \/ ForeignWrite(r)
         \/ \E call \in inFlight \cup orphans :
              call.res = r /\ Accepts(call) /\ api'[r] = Applied(call)
<1> USE DEF IInv
<1>1. ASSUME NEW q \in Resource,
             \/ ContributionChanged(q) \/ InformerDelivers(q) \/ ReducerUpdates(q)
             \/ HandlerPushes(q) \/ Begin(q) \/ Attempt(q)
      PROVE  FALSE
  BY ZenonT(30), <1>1 DEF ContributionChanged, InformerDelivers, ReducerUpdates, HandlerPushes,
       Begin, Attempt,
     environment
<1>2. ASSUME NEW q \in Resource, DeleteObject(q) \/ CreateObject(q) PROVE FALSE
  BY SMTT(30), <1>2 DEF DeleteObject, CreateObject, Store, TypeOK
<1>3. ASSUME NEW q \in Resource, ForeignWrite(q) PROVE ForeignWrite(r)
  BY ZenonT(30), <1>3 DEF ForeignWrite, Store, TypeOK
<1>4. ASSUME NEW call \in inFlight, Updated(call) \/ Rejected(call) \/ Failed(call)
      PROVE  call.res = r /\ Accepts(call) /\ api'[r] = Applied(call)
  BY ZenonT(30), <1>4 DEF Updated, Rejected, Failed, environment, Store, TypeOK
<1>5. ASSUME NEW call \in orphans, OrphanArrives(call)
      PROVE  call.res = r /\ Accepts(call) /\ api'[r] = Applied(call)
  BY ZenonT(30), <1>5 DEF OrphanArrives, Store, TypeOK
<1>6. ~(ListObjects \/ CachesSynced \/ SetQueue \/ LoseLeadership)
  BY ZenonT(30) DEF ListObjects, CachesSynced, SetQueue, LoseLeadership, environment
<1>7. QED
  BY ZenonT(30), <1>1, <1>2, <1>3, <1>4, <1>5, <1>6 DEF Next

\* An accepted call keeps the other controller's entries and changes ours.
LEMMA AcceptedCall ==
  ASSUME IInv, NEW call \in inFlight \cup orphans, Accepts(call)
  PROVE  /\ call.theirs = api[call.res].theirs
         /\ call.ours # api[call.res].ours
         /\ call.ours = None => call.res \in unwanted
BY SMTT(30) DEF IInv, TypeOK, CallsCurrent, ClearsJustified, Accepts, Call

\* So a stored write is the other controller's, to its own entries, or ours.
LEMMA StoredWrite ==
  ASSUME IInv, Next, NEW r \in Resource, api[r] # Absent, api'[r] # Absent, api'[r] # api[r]
  PROVE  \/ api'[r].ours = api[r].ours /\ api'[r].theirs # api[r].theirs
         \/ /\ api'[r].ours # api[r].ours /\ api'[r].theirs = api[r].theirs
            /\ api'[r].ours = None => r \in unwanted
<1>1. CASE ForeignWrite(r)
  <2>1. api[r].theirs \in Nat
    BY SMTT(30) DEF IInv, TypeOK, Object
  <2>2. api'[r] = [rv |-> clock + 1, ours |-> api[r].ours, theirs |-> api[r].theirs + 1]
    BY ZenonT(30), <1>1 DEF ForeignWrite, Store, IInv, TypeOK
  <2>3. QED
    BY SMTT(30), <2>1, <2>2
<1>2. ASSUME NEW call \in inFlight \cup orphans,
             call.res = r, Accepts(call), api'[r] = Applied(call)
      PROVE  /\ api'[r].ours # api[r].ours /\ api'[r].theirs = api[r].theirs
             /\ api'[r].ours = None => r \in unwanted
  BY SMTT(30), <1>2, AcceptedCall DEF Applied
<1>3. QED
  BY ZenonT(30), <1>1, <1>2, StoredBy

\* Another controller's entries survive every write of ours.
THEOREM SyncForeignEntriesKept == Spec => ForeignEntriesKept
<1>1. ASSUME IInv, Next, NEW r \in Resource,
             api[r] # Absent, api'[r] # Absent, api'[r].ours # api[r].ours
      PROVE  api'[r].theirs = api[r].theirs
  BY ZenonT(30), <1>1, StoredWrite
<1>2. IInv /\ [Next]_vars => [\A r \in Resource :
         (api[r] # Absent /\ api'[r] # Absent /\ api'[r].ours # api[r].ours)
            => api'[r].theirs = api[r].theirs]_vars
  BY <1>1
<1>3. QED
  BY <1>2, Invariance, PTL DEF Spec, ForeignEntriesKept

\* Every stored write changes the status, so the echo of a write dies out.
THEOREM SyncNoRedundantWrite == Spec => NoRedundantWrite
<1>1. ASSUME IInv, Next, NEW r \in Resource,
             api[r] # Absent, api'[r] # Absent, api'[r].rv # api[r].rv
      PROVE  api'[r].ours # api[r].ours \/ api'[r].theirs # api[r].theirs
  BY ZenonT(30), <1>1, StoredWrite
<1>2. IInv /\ [Next]_vars => [\A r \in Resource :
         (api[r] # Absent /\ api'[r] # Absent /\ api'[r].rv # api[r].rv)
            => \/ api'[r].ours # api[r].ours
               \/ api'[r].theirs # api[r].theirs]_vars
  BY SMTT(30), <1>1
<1>3. QED
  BY <1>2, Invariance, PTL DEF Spec, NoRedundantWrite

\* A status of ours is cleared only if translation has wanted it cleared.
THEOREM SyncNeverClearedWhileWanted == Spec => NeverClearedWhileWanted
<1>1. ASSUME IInv, Next, NEW r \in Resource,
             api[r] # Absent, api'[r] # Absent, api[r].ours # None, api'[r].ours = None
      PROVE  r \in unwanted
  BY ZenonT(30), <1>1, StoredWrite
<1>2. IInv /\ [Next]_vars => [\A r \in Resource :
         (api[r] # Absent /\ api'[r] # Absent /\ api[r].ours # None /\ api'[r].ours = None)
            => r \in unwanted]_vars
  BY <1>1
<1>3. QED
  BY <1>2, Invariance, PTL DEF Spec, NeverClearedWhileWanted
=============================================================================
