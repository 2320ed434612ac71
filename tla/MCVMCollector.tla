--------------------------- MODULE MCVMCollector ---------------------------
(* A finite instance of VMCollector: two VMs of one cluster, one of which    *)
(* shares a group with the other and one of which has a group of its own.    *)
EXTENDS VMCollector

CONSTANTS v1, v2, g1, g2

const_VMs == {v1, v2}
const_Groups == {g1, g2}
const_Attached == [v \in const_VMs |-> IF v = v1 THEN {g1} ELSE {g1, g2}]
const_Populations ==
  {[v \in const_VMs |-> IF v = v1 THEN t[1] ELSE t[2]] :
     t \in {<<"absent", "absent">>, <<"plain", "plain">>, <<"plain", "kube">>, <<"kube", "kube">>}}
const_Cluster == [v \in const_VMs |-> "prod"]
============================================================================
