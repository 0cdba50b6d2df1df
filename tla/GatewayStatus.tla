--------------------------- MODULE GatewayStatus ---------------------------
(***************************************************************************)
(* The two writers of one Gateway's status: the Gateway controller          *)
(* (kgateway/controller/gw_controller.go), which owns status.addresses and  *)
(* the InvalidParameters condition, and the status writer of translation    *)
(* (gatewayWriter, reports.BuildGWStatus), which owns the rest.  Both read   *)
(* the Gateway informer and write with the resourceVersion they read.       *)
(*                                                                          *)
(* A resourceVersion is abstracted to whether it is still the latest one:   *)
(* `current` of a call is TRUE from a read of a caught-up informer until    *)
(* the next change of the stored object.                                    *)
(***************************************************************************)
EXTENDS Integers, Sequences

CONSTANTS
    Specs,          \* specs of the Gateway; each change is a new generation
    BadAddress,     \* the specs with an address of an unknown kind
    Services,       \* what the generated Service may offer as addresses
    LoadBalancer,   \* whether the Service is of type LoadBalancer
    ListenerFaults, \* whether translation may find a listener not programmed
    Steps,          \* attempts of RetryOnConflict
    MaxEvents       \* bound: changes of spec, parameters, report and Service, and failed reconciliations

ASSUME GatewayAssumption ==
    /\ BadAddress \subseteq Specs /\ Specs # {} /\ Services # {}
    /\ LoadBalancer \in BOOLEAN /\ ListenerFaults \in BOOLEAN
    /\ Steps \in Nat \ {0}
    /\ MaxEvents \in Nat

VARIABLES
    api,       \* the stored Gateway: its spec, Accepted condition and addresses
    pending,   \* versions that the informer has not delivered, oldest first
    cache,     \* the informer's Gateway
    params,    \* whether the GatewayParameters are valid
    svc,       \* the generated Service
    faults,    \* the report: a listener is not programmed
    queued,    \* the controller's queue holds the Gateway
    retrying,  \* the queue will add the Gateway again after a failure
    pc,        \* where Reconcile is
    gw,        \* the Gateway that Reconcile read at its start
    accepted,  \* the condition that Reconcile is writing
    call,      \* its UpdateStatus call
    tries,     \* attempts made in this RetryOnConflict
    owed,      \* the status pool holds the Gateway
    wcall,     \* the UpdateStatus call of the status writer
    budget     \* events left of MaxEvents

vars == <<api, pending, cache, params, svc, faults, queued, retrying, pc, gw,
          accepted, call, tries, owed, wcall, budget>>
reconciler == <<pc, gw, accepted, call, tries>>
writer == <<owed, wcall>>
world == <<params, svc, faults, budget>>

\* Accepted: unset, True (two reasons) or False (two reasons).
Unset == "Unset"
Accepted == "Accepted"
ListenersNotValid == "ListenersNotValid"
InvalidParameters == "InvalidParameters"
UnsupportedAddress == "UnsupportedAddress"
Conditions == {Unset, Accepted, ListenersNotValid, InvalidParameters, UnsupportedAddress}
AcceptedTrue == {Accepted, ListenersNotValid}

NoCall == [open |-> FALSE, current |-> FALSE, accepted |-> Unset, addresses |-> <<>>]

Addresses == UNION {[1..n -> Services \cup Specs] : n \in 0..2}
Gateway == [spec : Specs, accepted : Conditions, addresses : Addresses]
Call == [open : BOOLEAN, current : BOOLEAN, accepted : Conditions, addresses : Addresses]

TypeOK ==
    /\ api \in Gateway /\ cache \in Gateway /\ gw \in Gateway
    /\ pending \in Seq(Gateway)
    /\ {params, faults, queued, retrying, owed} \subseteq BOOLEAN
    /\ svc \in Services
    /\ pc \in {"idle", "condition", "deploy", "addresses"}
    /\ accepted \in {InvalidParameters, Accepted}
    /\ call \in Call /\ wcall \in Call
    /\ tries \in 0..(Steps - 1)
    /\ budget \in 0..MaxEvents
    /\ api = (IF pending = <<>> THEN cache ELSE pending[Len(pending)])

\* A Gateway without a status, listed by the informer at start.
Init ==
    /\ api \in [spec : Specs, accepted : {Unset}, addresses : {<<>>}]
    /\ pending = <<>> /\ cache = api /\ gw = api
    /\ params \in BOOLEAN /\ svc \in Services
    /\ faults \in (IF ListenerFaults THEN BOOLEAN ELSE {FALSE})
    /\ queued = TRUE /\ retrying = FALSE
    /\ pc = "idle" /\ accepted = Accepted /\ call = NoCall /\ tries = 0
    /\ owed = TRUE /\ wcall = NoCall
    /\ budget = MaxEvents

Spend == budget > 0 /\ budget' = budget - 1

-----------------------------------------------------------------------------
(* The API server and the informer *)

\* A call of UpdateStatus that the caller sends with what it read of the cache.
UpdateStatus(status) ==
    [open |-> TRUE, current |-> pending = <<>>,
     accepted |-> status.accepted, addresses |-> status.addresses]

\* The object changes: every resourceVersion that was read before is stale.
Outdated(c) == [c EXCEPT !.current = FALSE]

\* An accepted call; an update that changes nothing makes no new version.
Stores(c) ==
    /\ c.current
    /\ api' = [api EXCEPT !.accepted = c.accepted, !.addresses = c.addresses]
    /\ pending' = IF api' = api THEN pending ELSE Append(pending, api')

\* The informer delivers one version.  The controller's handler enqueues only
\* when the generation changed; the status handler enqueues on every event.
InformerDelivers ==
    /\ pending # <<>>
    /\ cache' = Head(pending)
    /\ pending' = Tail(pending)
    /\ queued' = (queued \/ cache'.spec # cache.spec)
    /\ owed' = TRUE
    /\ UNCHANGED <<api, world, retrying, reconciler, wcall>>

SpecChanges ==
    /\ Spend
    /\ \E s \in Specs \ {api.spec} : api' = [api EXCEPT !.spec = s]
    /\ pending' = Append(pending, api')
    /\ call' = Outdated(call) /\ wcall' = Outdated(wcall)
    /\ UNCHANGED <<cache, params, svc, faults, queued, retrying, pc, gw, accepted, tries, owed>>

\* A GatewayParameters event reconciles the Gateways that refer to it.
ParametersChange ==
    /\ Spend
    /\ params' = ~params
    /\ queued' = TRUE
    /\ UNCHANGED <<api, pending, cache, svc, faults, retrying, reconciler, writer>>

\* Mutant: events of child objects are not watched.
ServiceChangesSilently ==
    /\ Spend
    /\ \E s \in Services \ {svc} : svc' = s
    /\ UNCHANGED <<api, pending, cache, params, faults, queued, retrying, reconciler, writer>>

\* An event of a child object reconciles its parent Gateway.
ServiceChanges ==
    /\ Spend
    /\ \E s \in Services \ {svc} : svc' = s
    /\ queued' = TRUE
    /\ UNCHANGED <<api, pending, cache, params, faults, retrying, reconciler, writer>>

ReportChanges ==
    /\ ListenerFaults
    /\ Spend
    /\ faults' = ~faults
    /\ owed' = TRUE
    /\ UNCHANGED <<api, pending, cache, params, svc, queued, retrying, reconciler, wcall>>

-----------------------------------------------------------------------------
(* The Gateway controller *)

RetryFires ==
    /\ retrying
    /\ retrying' = FALSE /\ queued' = TRUE
    /\ UNCHANGED <<api, pending, cache, world, reconciler, writer>>

\* Reconcile returns; an error makes the queue add the Gateway again later.
Return(failed) ==
    /\ pc' = "idle" /\ tries' = 0 /\ call' = NoCall
    /\ retrying' = (retrying \/ failed)
    /\ UNCHANGED <<gw, accepted>>

\* Reconcile up to GetObjsToDeploy: parameters that do not resolve are reported,
\* and the report is withdrawn when the Gateway that was read still shows it.
Reconcile ==
    /\ pc = "idle" /\ queued
    /\ queued' = FALSE
    /\ gw' = cache
    /\ accepted' = IF params THEN Accepted ELSE InvalidParameters
    /\ pc' = IF ~params \/ cache.accepted = InvalidParameters THEN "condition" ELSE "deploy"
    /\ UNCHANGED <<api, pending, cache, world, retrying, call, tries, writer>>

\* A missing GatewayClass, no valid port, a failed apply or prune, a Service
\* that is not in the cache yet: Reconcile returns the error.
ReconcileFails ==
    /\ Spend
    /\ \/ pc = "idle" /\ queued /\ queued' = FALSE
       \/ pc = "deploy" /\ UNCHANGED queued
    /\ Return(TRUE)
    /\ UNCHANGED <<api, pending, cache, params, svc, faults, writer>>

Deploy ==
    /\ pc = "deploy"
    /\ pc' = "addresses"
    /\ UNCHANGED <<api, pending, cache, world, queued, retrying, gw, accepted, call, tries, writer>>

\* getDesiredAddresses: a load balancer's ingress, or the cluster IP followed by
\* the addresses of the spec that Reconcile read.
desiredAddresses == IF LoadBalancer THEN <<svc>> ELSE <<svc, gw.spec>>

\* One attempt of RetryOnConflict reads the Gateway again and sends the update.
updateGatewayCondition ==
    /\ pc = "condition" /\ ~call.open
    /\ call' = UpdateStatus([cache EXCEPT !.accepted = accepted])
    /\ UNCHANGED <<api, pending, cache, world, queued, retrying, pc, gw, accepted, tries, writer>>

updateGatewayAddresses ==
    /\ pc = "addresses" /\ ~call.open
    /\ IF cache.addresses = desiredAddresses
       THEN Return(FALSE)
       ELSE /\ call' = UpdateStatus([cache EXCEPT !.addresses = desiredAddresses])
            /\ UNCHANGED <<pc, gw, accepted, tries, retrying>>
    /\ UNCHANGED <<api, pending, cache, world, queued, writer>>

\* The API server takes the controller's update.  After InvalidParameters
\* Reconcile returns the error; after Accepted it goes on to deploy.
ReconcilerWrites ==
    /\ call.open
    /\ Stores(call)
    /\ wcall' = IF api' = api THEN wcall ELSE Outdated(wcall)
    /\ IF pc = "condition" /\ accepted = Accepted
       THEN /\ pc' = "deploy" /\ call' = NoCall /\ tries' = 0
            /\ UNCHANGED <<gw, accepted, retrying>>
       ELSE Return(pc = "condition")
    /\ UNCHANGED <<cache, world, queued, owed>>

\* Mutant: a conflict ends the reconciliation as if nothing were left to do.
ReconcilerGivesUp ==
    /\ call.open /\ ~call.current
    /\ Return(FALSE)
    /\ UNCHANGED <<api, pending, cache, world, queued, writer>>

\* A conflict is retried, and returned as an error when the attempts run out.
ReconcilerConflicts ==
    /\ call.open /\ ~call.current
    /\ IF tries + 1 < Steps
       THEN tries' = tries + 1 /\ call' = NoCall /\ UNCHANGED <<pc, gw, accepted, retrying>>
       ELSE Return(TRUE)
    /\ UNCHANGED <<api, pending, cache, world, queued, writer>>

-----------------------------------------------------------------------------
(* The status writer *)

\* The Accepted condition of BuildGWStatus: invalid listeners set it, a spec
\* address of an unknown kind overrides that, and the default leaves an
\* InvalidParameters that is already there.
BuildGWStatus(current) ==
    IF current.spec \in BadAddress THEN UnsupportedAddress
    ELSE IF faults THEN ListenersNotValid
    ELSE IF current.accepted = InvalidParameters THEN InvalidParameters
    ELSE Accepted

\* Mutant: the addresses are those the report was built with, none.
mergeNoAddresses(current, condition) == [current EXCEPT !.accepted = condition, !.addresses = <<>>]

mergeGatewayStatusAddresses(current, condition) == [current EXCEPT !.accepted = condition]

ApplyStatus ==
    /\ owed /\ ~wcall.open
    /\ owed' = FALSE
    /\ LET merged == mergeGatewayStatusAddresses(cache, BuildGWStatus(cache))
       IN  wcall' = IF merged = cache THEN NoCall ELSE UpdateStatus(merged)
    /\ UNCHANGED <<api, pending, cache, world, queued, retrying, reconciler>>

StatusWrites ==
    /\ wcall.open
    /\ Stores(wcall)
    /\ call' = IF api' = api THEN call ELSE Outdated(call)
    /\ wcall' = NoCall
    /\ UNCHANGED <<cache, world, queued, retrying, pc, gw, accepted, tries, owed>>

\* A conflict is dropped: the newer version will be delivered and push again.
StatusConflicts ==
    /\ wcall.open /\ ~wcall.current
    /\ wcall' = NoCall
    /\ UNCHANGED <<api, pending, cache, world, queued, retrying, reconciler, owed>>

-----------------------------------------------------------------------------
Environment == SpecChanges \/ ParametersChange \/ ServiceChanges \/ ReportChanges
Controller ==
    \/ RetryFires \/ Reconcile \/ Deploy
    \/ updateGatewayCondition \/ updateGatewayAddresses
    \/ ReconcilerWrites \/ ReconcilerConflicts
Writer == ApplyStatus \/ StatusWrites \/ StatusConflicts

Next == Environment \/ InformerDelivers \/ Controller \/ ReconcileFails \/ Writer

Spec == Init /\ [][Next]_vars

\* Threads are scheduled, calls are answered, timers fire, the informer catches up.
Fairness ==
    /\ WF_vars(InformerDelivers) /\ WF_vars(RetryFires)
    /\ WF_vars(Reconcile) /\ WF_vars(Deploy)
    /\ WF_vars(updateGatewayCondition) /\ WF_vars(updateGatewayAddresses)
    /\ WF_vars(ReconcilerWrites \/ ReconcilerConflicts)
    /\ WF_vars(ApplyStatus) /\ WF_vars(StatusWrites \/ StatusConflicts)

FairSpec == Spec /\ Fairness

-----------------------------------------------------------------------------
\* Neither writer undoes the other: the status writer stores the addresses it
\* finds in the API server, and the controller's address update the condition.
OwnFieldsOnly ==
    [][/\ StatusWrites => api'.addresses = api.addresses
       /\ ReconcilerWrites /\ pc = "addresses" => api'.accepted = api.accepted
       /\ ReconcilerWrites /\ pc = "condition" => api'.addresses = api.addresses]_vars

\* "we don't want to override it with a true Accepted status": the status writer
\* never replaces InvalidParameters by an Accepted condition that is True.
InvalidNeverMasked ==
    [][StatusWrites /\ api.accepted = InvalidParameters
         => api'.accepted \notin AcceptedTrue]_vars

\* Parameters that stay invalid are in the end reported for good, unless the
\* report has a condition of its own, over which the two writers take turns.
FailureReported ==
    <>[](~params /\ ~faults /\ api.spec \notin BadAddress)
        => <>[](api.accepted = InvalidParameters)

\* With valid parameters the addresses become those of the Service and spec,
\* if Reconcile never compares them with addresses it has itself replaced: the
\* informer's echo of its last write, which does not enqueue, comes first.
AddressesConverge ==
    /\ <>[]params
    /\ [](pc = "addresses" /\ ~call.open => cache.addresses = api.addresses)
    => <>[](api.addresses = IF LoadBalancer THEN <<svc>> ELSE <<svc, api.spec>>)

\* A failed deployment is reported and addresses become right, whatever conflicts
\* and lag come between (Reconcile, updateStatus).
StatusConverges == FailureReported /\ AddressesConverge

\* "The controller will set Accepted=True when the GatewayParameters are valid
\* again": with valid parameters InvalidParameters does not stay.
RecoversWhenValid ==
    <>[]params => <>[](api.accepted # InvalidParameters)
=============================================================================
