--------------------------- MODULE MCEc2Discovery ---------------------------
(* A finite instance of Ec2Discovery: one backend that changes twice, or two in their own *)
(* credential groups that do not change. *)
EXTENDS Ec2Discovery
CONSTANTS b1, b2, s1, s2, k1, k2, i1

First == [semantics |-> s1, credential |-> k1]
Second == [semantics |-> s1, credential |-> k2]
Retargeted == [semantics |-> s2, credential |-> k1]
Secretless == [semantics |-> s1, credential |-> Unresolved]
Variants == {First, Second, Retargeted, Secretless}

One == {[spec |-> [b \in {b1, b2} |-> IF b = b1 THEN x ELSE None],
         changing |-> {b1}, specs |-> 2, instances |-> 1] : x \in Variants \cup {None}}
Two == {[spec |-> [b \in {b1, b2} |-> IF b = b1 THEN First ELSE Second],
         changing |-> {}, specs |-> 0, instances |-> 0]}
Runs == One \cup Two
=============================================================================
