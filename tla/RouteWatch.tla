----------------------------- MODULE RouteWatch -----------------------------
(***************************************************************************)
(* How a route kind comes to be watched: the version selection of           *)
(* RouteVersions and, for one of the candidate versions, the placeholder of *)
(* DelayedInformer that callers hold while it is parked.  The gate that the *)
(* placeholder polls is the one of its version.                             *)
(***************************************************************************)
EXTENDS RouteVersions

CONSTANTS Handler, Index, Watched

ASSUME WatchAssumption == Watched \in Version

VARIABLES published, polling, handlers, indexers, stop, todo, caller, view, attached,
          bound, running, listed, told

informerVars == <<published, polling, handlers, indexers, stop, todo, caller, view, attached,
                  bound, running, listed, told>>

Informer == INSTANCE DelayedInformer WITH gateOpen <- status[Watched] = "running"

WatchInit == Init /\ Informer!Init

\* A parked informer asks its gate only once it is started.
Asks == status[Watched] = "parked" /\ polling = "no" =>
            read'[Watched] = read[Watched] /\ status'[Watched] = "parked"

\* The placeholder exists if the gate said no when the collection was built.
Parked == status[Watched] = "parked" \/ polling # "no"

Select(A) == A /\ Asks /\ UNCHANGED informerVars
Use(A) == Parked /\ A /\ UNCHANGED vars

WatchNext == Select(Next) \/ Use(Informer!Next)

(***************************************************************************)
(* The poll loop never gives up, and a reader that is asked again and again *)
(* is answered in the end; a read itself finishes; setup starts every       *)
(* informer; a call that has begun returns; the real informer lists and     *)
(* delivers.                                                                *)
(***************************************************************************)
WatchFairness ==
    /\ \A r \in Version \cup {Startup} :
         /\ SF_<<vars, informerVars>>(Select(servedVersionsFromCRD(r)))
         /\ WF_<<vars, informerVars>>(Select(servedVersionsFromDiscovery(r) \/ DiscoveryUnreadable(r)))
    /\ WF_<<vars, informerVars>>(Use(Informer!Start)) /\ WF_<<vars, informerVars>>(Use(Informer!Poll))
    /\ WF_<<vars, informerVars>>(Use(Informer!Set)) /\ WF_<<vars, informerVars>>(Use(Informer!Lists))
    /\ \A h \in Handler :
         /\ WF_<<vars, informerVars>>(Use(Informer!AddEventHandlerDirect(h)))
         /\ WF_<<vars, informerVars>>(Use(Informer!Tells(h)))

WatchSpec == WatchInit /\ [][WatchNext]_<<vars, informerVars>> /\ WatchFairness

-----------------------------------------------------------------------------
\* A registration reports synced only after its handler has seen the list.
SyncedMeansSeen == Informer!SyncedMeansSeen

\* When the cluster comes to serve the version for good, whatever was registered
\* with its placeholder while it was parked sees the routes, without a restart.
RoutesSeen ==
    \A h \in Handler :
        <>[](Parked /\ preferredServedGVR(served) = {Watched} /\ caller[h] = "registered"
               => h \in told)

\* The kind lands on the version that the cluster has come to serve, and the
\* handlers registered while it was parked see its routes.
WatchConverges == LandsOnServed /\ RoutesSeen
=============================================================================
