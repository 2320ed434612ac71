------------------------------ MODULE MCKyverno ------------------------------
(* A namespace with a pod or a network policy, a Kyverno cluster policy     *)
(* and a policy report of the namespace.                                    *)
EXTENDS Kyverno, TLC

CONSTANTS n1, p1, q1, cp, nr

MCKind == n1 :> Namespace @@ p1 :> Pod @@ q1 :> NetworkPolicy
MCNsOf == [o \in Objects |-> IF o = n1 THEN ClusterScope ELSE n1]
MCTarget == [o \in Objects |-> None]
MCPopulations == {{n1, p1}, {n1, q1}}

MCFamily == [r \in Resources |-> IF r = nr THEN "reports" ELSE "policies"]
MCScopeOf == [r \in Resources |-> IF r = cp THEN ClusterScope ELSE n1]
==============================================================================
