-------------------------- MODULE MCUniqueClients --------------------------
(* A finite instance of UniqueClients for TLC. *)
EXTENDS UniqueClients, TLC

CONSTANTS s1, s2, s3, gw, labelled, bare

OneRole == {gw}
SameRole == [s \in Stream |-> gw]
Pods == {labelled, bare}
Labels == (labelled :> gw) @@ (bare :> NoRole)
ThreeStreams == {s1, s2, s3}
Third == {s3}
=============================================================================
