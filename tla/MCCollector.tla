----------------------------- MODULE MCCollector -----------------------------
(* Small clusters for TLC: a workload with a pod, a claim with its volume,  *)
(* a service and an ingress of two namespaces, a network policy, a node.    *)
EXTENDS Collector, TLC

CONSTANTS n1, n2, w1, p1, m1, v1, s1, i1, c1, q1

PolicyObjects == {n1, w1, p1, q1}
PolicyOnly == {PolicyObjects}
Clusters == {{n1, w1, p1}, {n1, v1, c1}, {n1, n2, s1, i1}, {n1, q1}, {m1}}

KindTable ==
    n1 :> Namespace @@ n2 :> Namespace @@ w1 :> Workload @@
    p1 :> Pod @@ m1 :> Node @@ v1 :> PersistentVolume @@ s1 :> Service @@
    i1 :> Ingress @@ c1 :> PersistentVolumeClaim @@ q1 :> NetworkPolicy

MCKind == [o \in Objects |-> KindTable[o]]
MCNsOf == [o \in Objects |->
    IF KindTable[o] <= Namespace THEN ClusterScope ELSE IF o = i1 THEN n2 ELSE n1]
MCTarget == [o \in Objects |->
    CASE o = p1 -> w1 [] o = c1 -> v1 [] OTHER -> None]
==============================================================================
