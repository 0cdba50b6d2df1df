---------------------------- MODULE MCRouteWatch ----------------------------
(* A finite instance of RouteWatch: the three versions of TLSRoute and an unknown one. *)
EXTENDS RouteWatch

CONSTANTS h1, h2, i1

TLSRoute == <<"v1", "v1alpha3", "v1alpha2">>
\* No CRD, the legacy versions, the promoted one beside them or alone, a later one.
Releases == {{}, {"v1alpha2"}, {"v1alpha3", "v1alpha2"}, {"v1", "v1alpha3"}, {"v1"}, {"v2"}}
=============================================================================
