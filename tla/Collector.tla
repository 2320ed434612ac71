------------------------------ MODULE Collector ------------------------------
(***************************************************************************)
(* The Kubernetes collector of internal/collector: one goroutine per       *)
(* cluster that polls the Kubernetes API, upserts what it lists into the   *)
(* CMDB and deletes the rows that were not listed (reconciliation).  The   *)
(* same code runs inside the daemon (against the store) and in the push    *)
(* collector (against the REST API): every call to the store may fail, and *)
(* in push mode a call may take effect although its answer is lost.        *)
(*                                                                         *)
(* An object stands for a natural key (kind, namespace, name), so a row    *)
(* that is deleted and collected again is the same object.  Kinds are      *)
(* numbered in the order poll ingests them.                                *)
(***************************************************************************)
EXTENDS Naturals, FiniteSets

CONSTANTS
    Objects,         \* natural keys of every Kubernetes object of the cluster
    Populations,     \* the sets of objects that may exist together
    Kind,            \* the kind of an object, one of Kinds
    NsOf,            \* its namespace (itself an object), or ClusterScope
    Target,          \* what its row refers to: pod -> workload, PVC -> PV
    ViaReplicaSet,   \* pods whose controller is a ReplicaSet of the workload
    Versions,        \* Kubernetes versions the API server reports
    NoVersion,       \* a cluster row created without a version
    ClusterScope,    \* scope of the objects that have no namespace
    None,            \* no target
    Reconcile,       \* LONGUE_VUE_COLLECTOR_RECONCILE
    AdminDeletes,    \* do administrators delete rows through the API?
    MaxChanges,      \* bound on changes of the cluster and of administrators
    MaxFaults        \* bound on failing calls

Node == 1
PersistentVolume == 2
Namespace == 3
Workload == 4
Pod == 5
Service == 6
Ingress == 7
PersistentVolumeClaim == 8
NetworkPolicy == 9
Kinds == Node..NetworkPolicy

OfKind(k) == {o \in Objects : Kind[o] = k}
Scopes == OfKind(Namespace) \cup {ClusterScope}

ASSUME CollectorAssumption ==
    /\ Populations \subseteq SUBSET Objects
    /\ Kind \in [Objects -> Kinds]
    /\ NsOf \in [Objects -> Scopes]
    /\ \A o \in Objects : NsOf[o] = ClusterScope <=> Kind[o] <= Namespace
    /\ Target \in [Objects -> Objects \cup {None}]
    /\ \A o \in Objects : Target[o] \in Objects =>
          \/ Kind[o] = Pod /\ Kind[Target[o]] = Workload
          \/ Kind[o] = PersistentVolumeClaim /\ Kind[Target[o]] = PersistentVolume
    /\ ViaReplicaSet \subseteq OfKind(Pod)
    /\ NoVersion \notin Versions
    /\ ClusterScope \notin Objects
    /\ None \notin Objects
    /\ Reconcile \in BOOLEAN
    /\ AdminDeletes \in BOOLEAN
    /\ MaxChanges \in Nat
    /\ MaxFaults \in Nat

VARIABLES
    k8s,            \* objects that exist in the Kubernetes cluster
    version,        \* version its API server reports
    cluster,        \* state of the clusters row
    storedVersion,  \* kubernetes_version of the clusters row
    row,            \* state of every object's row
    linked,         \* rows whose workload_id / bound_volume_id is set
    pc,             \* where the collector is in poll
    stage,          \* the kind poll is ingesting
    fetched,        \* version fetched at the start of the tick
    listed,         \* what the list call of this kind returned
    todo,           \* listed objects still to be upserted
    keep,           \* objects of this kind upserted in this tick
    sweeping,       \* scopes still to be reconciled
    ids,            \* the id maps of this tick: namespaces, workloads, PVs
    rsOwners,       \* did ListReplicaSetOwners answer in this tick?
    quiet,          \* nobody else changed anything since the tick began
    faultless,      \* no call of the tick failed
    changes,        \* number of changes so far
    faults          \* number of failed calls so far

kube == <<k8s, version>>
store == <<cluster, storedVersion, row, linked>>
tick == <<pc, stage, fetched, listed, todo, keep, sweeping, ids, rsOwners>>
vars == <<kube, store, tick, quiet, faultless, changes, faults>>

RowStates == {"none", "live", "terminated"}

TypeOK ==
    /\ k8s \subseteq Objects
    /\ version \in Versions
    /\ cluster \in RowStates
    /\ storedVersion \in Versions \cup {NoVersion}
    /\ row \in [Objects -> RowStates]
    /\ linked \subseteq Objects
    /\ pc \in {"idle", "ensure", "update", "list", "upsert"}
    /\ stage \in Kinds
    /\ fetched \in Versions \cup {NoVersion}
    /\ listed \subseteq OfKind(stage)
    /\ todo \subseteq listed
    /\ keep \subseteq listed
    /\ sweeping \subseteq Scopes
    /\ ids \subseteq Objects
    /\ rsOwners \in BOOLEAN
    /\ quiet \in BOOLEAN
    /\ faultless \in BOOLEAN
    /\ changes \in 0..MaxChanges
    /\ faults \in 0..MaxFaults

-----------------------------------------------------------------------------
(* The Kubernetes cluster.                                                 *)

\* namespaceIDsByName: the namespaces upserted in this tick.
nsMap == ids \cap OfKind(Namespace)

\* A namespaced object exists only inside an existing namespace.
Consistent(S) == \A o \in S : NsOf[o] = ClusterScope \/ NsOf[o] \in S

Populated(S) == \E P \in Populations : S \subseteq P

Init ==
    /\ k8s \in SUBSET Objects /\ Consistent(k8s) /\ Populated(k8s)
    /\ version \in Versions
    /\ cluster = "none" /\ storedVersion = NoVersion
    /\ row = [o \in Objects |-> "none"]
    /\ linked = {}
    /\ pc = "idle" /\ stage = Node /\ fetched = NoVersion
    /\ listed = {} /\ todo = {} /\ keep = {} /\ sweeping = {} /\ ids = {}
    /\ rsOwners = FALSE
    /\ quiet = FALSE /\ faultless = FALSE
    /\ changes = 0 /\ faults = 0

Change ==
    /\ changes < MaxChanges
    /\ changes' = changes + 1
    /\ quiet' = FALSE
    /\ UNCHANGED <<tick, faultless, faults>>

CreateObject(o) ==
    /\ o \notin k8s /\ Consistent(k8s \cup {o}) /\ Populated(k8s \cup {o})
    /\ k8s' = k8s \cup {o}
    /\ Change
    /\ UNCHANGED <<version, store>>

DeleteObject(o) ==
    /\ o \in k8s /\ Consistent(k8s \ {o})
    /\ k8s' = k8s \ {o}
    /\ Change
    /\ UNCHANGED <<version, store>>

Upgrade ==
    /\ \E v \in Versions \ {version} : version' = v
    /\ Change
    /\ UNCHANGED <<k8s, store>>

-----------------------------------------------------------------------------
(* Steps of poll.                                                          *)

Fault ==
    /\ faults < MaxFaults
    /\ faults' = faults + 1
    /\ faultless' = FALSE
    /\ UNCHANGED <<quiet, changes>>

NoFault == UNCHANGED <<quiet, faultless, changes, faults>>

\* poll returns; the maps and slices of the tick are dropped.
Return ==
    /\ pc' = "idle" /\ stage' = Node /\ fetched' = NoVersion
    /\ listed' = {} /\ todo' = {} /\ keep' = {} /\ sweeping' = {} /\ ids' = {}
    /\ rsOwners' = FALSE

\* An ingest function returns and poll calls the next one.
NextKind ==
    IF stage = NetworkPolicy
    THEN Return
    ELSE /\ pc' = "list" /\ stage' = stage + 1
         /\ listed' = {} /\ todo' = {} /\ keep' = {} /\ sweeping' = {}
         /\ UNCHANGED <<fetched, ids, rsOwners>>

Poll ==
    /\ pc = "idle"
    /\ pc' = "ensure" /\ fetched' = version
    /\ quiet' = TRUE /\ faultless' = TRUE
    /\ UNCHANGED <<kube, store, stage, listed, todo, keep, sweeping, ids, rsOwners,
                   changes, faults>>

ServerVersionFails ==
    /\ pc = "idle"
    /\ Fault
    /\ UNCHANGED <<kube, store, tick>>

\* Mutant: the version is written only when the row has none.
EnsureClusterOnce ==
    /\ pc = "ensure"
    /\ cluster' = "live"
    /\ pc' = IF storedVersion # NoVersion THEN "list" ELSE "update"
    /\ NoFault
    /\ UNCHANGED <<kube, storedVersion, row, linked, stage, fetched, listed, todo, keep,
                   sweeping, ids, rsOwners>>

\* EnsureCluster creates or restores the clusters row; its answer decides
\* whether the version must be refreshed.
EnsureCluster ==
    /\ pc = "ensure"
    /\ cluster' = "live"
    /\ pc' = IF storedVersion = fetched THEN "list" ELSE "update"
    /\ NoFault
    /\ UNCHANGED <<kube, storedVersion, row, linked, stage, fetched, listed, todo, keep,
                   sweeping, ids, rsOwners>>

EnsureClusterFails ==
    /\ pc = "ensure"
    /\ cluster' \in {cluster, "live"}
    /\ Return
    /\ Fault
    /\ UNCHANGED <<kube, storedVersion, row, linked>>

UpdateCluster ==
    /\ pc = "update"
    /\ storedVersion' = fetched
    /\ pc' = "list"
    /\ NoFault
    /\ UNCHANGED <<kube, cluster, row, linked, stage, fetched, listed, todo, keep,
                   sweeping, ids, rsOwners>>

UpdateClusterFails ==
    /\ pc = "update"
    /\ storedVersion' \in {storedVersion, fetched}
    /\ Return
    /\ Fault
    /\ UNCHANGED <<kube, cluster, row, linked>>

\* Mutant: only the namespaces that still hold objects are reconciled.
SweptNonEmpty ==
    IF stage <= Namespace THEN {ClusterScope}
    ELSE {n \in nsMap : \E o \in k8s : Kind[o] = stage /\ NsOf[o] = n}

\* The scopes reconciled after the upserts: the whole cluster, or every
\* namespace of namespaceIDsByName, the empty ones included.  The sweep of
\* network policies is not conditional on Reconcile.
Swept ==
    CASE stage = NetworkPolicy -> nsMap
      [] stage # NetworkPolicy /\ ~Reconcile -> {}
      [] stage # NetworkPolicy /\ Reconcile ->
            IF stage <= Namespace THEN {ClusterScope} ELSE nsMap

\* A list call answers.  Objects of namespaces missing from namespaceIDsByName
\* are skipped.
List ==
    /\ pc = "list"
    /\ pc' = "upsert"
    /\ listed' = k8s \cap OfKind(stage)
    /\ todo' = {o \in listed' : NsOf[o] = ClusterScope \/ NsOf[o] \in nsMap}
    /\ sweeping' = Swept
    /\ UNCHANGED <<kube, store, stage, fetched, keep, ids>>

Ingest(k) ==
    /\ stage = k
    /\ List
    /\ NoFault
    /\ UNCHANGED rsOwners

IngestNodes == Ingest(Node)
IngestPersistentVolumes == Ingest(PersistentVolume)
IngestNamespaces == Ingest(Namespace)
IngestWorkloads == Ingest(Workload)
IngestServices == Ingest(Service)
IngestIngresses == Ingest(Ingress)
IngestPersistentVolumeClaims == Ingest(PersistentVolumeClaim)
CollectNetworkPolicies == Ingest(NetworkPolicy)

\* ListPods is followed by ListReplicaSetOwners, whose failure only costs
\* the owners of the pods of ReplicaSets.
IngestPods ==
    /\ stage = Pod
    /\ List
    /\ \/ rsOwners' = TRUE /\ NoFault
       \/ rsOwners' = FALSE /\ Fault

\* Mutant: a failed list call is taken for an empty one.
ListFailsEmpty ==
    /\ pc = "list"
    /\ pc' = "upsert" /\ sweeping' = Swept
    /\ Fault
    /\ UNCHANGED <<kube, store, stage, fetched, listed, todo, keep, ids, rsOwners>>

\* A list call fails: the kind is neither upserted nor reconciled.  Without
\* the namespaces no namespaced kind can be ingested.
ListFails ==
    /\ pc = "list"
    /\ IF stage = Namespace THEN Return ELSE NextKind
    /\ Fault
    /\ UNCHANGED <<kube, store>>

\* resolveWorkloadID and the PV lookup of buildPVCCreate: the target was
\* upserted in this tick and the ReplicaSet in between is known.
Resolves(o) ==
    /\ Target[o] \in ids
    /\ o \in ViaReplicaSet => rsOwners

\* The foreign key refuses a target whose row was deleted meanwhile.
Writable(o) == Resolves(o) => row[Target[o]] # "none"

Write(o) ==
    /\ row' = [row EXCEPT ![o] = "live"]
    /\ linked' = IF Resolves(o) THEN linked \cup {o} ELSE linked \ {o}

Upsert(o) ==
    /\ pc = "upsert" /\ o \in todo
    /\ Writable(o)
    /\ Write(o)
    /\ todo' = todo \ {o} /\ keep' = keep \cup {o}
    /\ NoFault
    /\ UNCHANGED <<kube, cluster, storedVersion, pc, stage, fetched, listed, sweeping,
                   rsOwners>>

\* The answer's id goes into a map that later stages look up.
UpsertIndexed(o) == Upsert(o) /\ ids' = ids \cup {o}

UpsertLeaf(o) == Upsert(o) /\ UNCHANGED ids

UpsertNode(o) == stage = Node /\ UpsertLeaf(o)
UpsertPersistentVolume(o) == stage = PersistentVolume /\ UpsertIndexed(o)
UpsertNamespace(o) == stage = Namespace /\ UpsertIndexed(o)
UpsertWorkload(o) == stage = Workload /\ UpsertIndexed(o)
UpsertPod(o) == stage = Pod /\ UpsertLeaf(o)
UpsertService(o) == stage = Service /\ UpsertLeaf(o)
UpsertIngress(o) == stage = Ingress /\ UpsertLeaf(o)
UpsertPersistentVolumeClaim(o) == stage = PersistentVolumeClaim /\ UpsertLeaf(o)
UpsertNetworkPolicy(o) == stage = NetworkPolicy /\ UpsertLeaf(o)

\* An upsert returns an error: the object is not kept and the loop goes on;
\* the answer of an upsert that took effect may also be lost.
UpsertError(o) ==
    /\ pc = "upsert" /\ o \in todo
    /\ \/ ~Writable(o) /\ NoFault /\ UNCHANGED <<row, linked>>
       \/ Fault /\ UNCHANGED <<row, linked>>
       \/ Fault /\ Writable(o) /\ Write(o)
    /\ UNCHANGED <<kube, cluster, storedVersion>>

UpsertFails(o) ==
    /\ stage # NetworkPolicy
    /\ UpsertError(o)
    /\ todo' = todo \ {o}
    /\ UNCHANGED <<pc, stage, fetched, listed, keep, sweeping, ids, rsOwners>>

\* Mutant: the loop goes on after a failing upsert.
UpsertNetworkPolicySkips(o) ==
    /\ stage = NetworkPolicy
    /\ UpsertError(o)
    /\ todo' = todo \ {o}
    /\ UNCHANGED <<pc, stage, fetched, listed, keep, sweeping, ids, rsOwners>>

\* CollectNetworkPolicies returns at the first failing upsert, unswept.
UpsertNetworkPolicyFails(o) ==
    /\ stage = NetworkPolicy
    /\ UpsertError(o)
    /\ NextKind

-----------------------------------------------------------------------------
(* Reconciliation: the Delete...NotIn calls of the store.                  *)

\* The rows of the current kind in scope s that were not kept.
Stale(s) == {o \in OfKind(stage) : NsOf[o] = s /\ o \notin keep}

Terminated(S) ==
    [o \in Objects |-> IF o \in S /\ row[o] = "live" THEN "terminated" ELSE row[o]]

Removed(S) == [o \in Objects |-> IF o \in S THEN "none" ELSE row[o]]

\* ON DELETE SET NULL on pods.workload_id and bound_volume_id, and the
\* references of the deleted rows themselves.
Unlinked(S) == {o \in linked : o \notin S /\ Target[o] \notin S}

SoftDelete(S) == row' = Terminated(S) /\ UNCHANGED linked

HardDelete(S) == row' = Removed(S) /\ linked' = Unlinked(S)

DeleteNodesNotIn(s) == stage = Node /\ SoftDelete(Stale(s))
DeletePersistentVolumesNotIn(s) == stage = PersistentVolume /\ HardDelete(Stale(s))
DeleteWorkloadsNotIn(s) == stage = Workload /\ SoftDelete(Stale(s))
DeletePodsNotIn(s) == stage = Pod /\ HardDelete(Stale(s))
DeleteServicesNotIn(s) == stage = Service /\ HardDelete(Stale(s))
DeleteIngressesNotIn(s) == stage = Ingress /\ HardDelete(Stale(s))
DeletePersistentVolumeClaimsNotIn(s) ==
    stage = PersistentVolumeClaim /\ HardDelete(Stale(s))
SweepNetworkPoliciesByNamespace(s) == stage = NetworkPolicy /\ HardDelete(Stale(s))

\* The children that are hard-deleted with the namespaces N; workloads are
\* soft-deleted and network policies are left.
HardChildren(N) ==
    {o \in Objects : NsOf[o] \in N /\ Kind[o] \in {Pod, Service, Ingress, PersistentVolumeClaim}}

Cascaded(N) ==
    [o \in Objects |->
        IF o \in HardChildren(N) THEN "none"
        ELSE IF row[o] = "live" /\ (o \in N \/ (NsOf[o] \in N /\ Kind[o] = Workload))
        THEN "terminated" ELSE row[o]]

\* Mutant: the children of a namespace are forgotten.
TerminateNamespaces(N) == row' = Terminated(N) /\ UNCHANGED linked

\* The cascade of a namespace, by reconciliation or by an administrator.
CascadeNamespaces(N) == row' = Cascaded(N) /\ linked' = Unlinked(HardChildren(N))

\* Only namespaces that are not terminated already are cascaded.
DeleteNamespacesNotIn(s) ==
    /\ stage = Namespace
    /\ CascadeNamespaces({n \in Stale(s) : row[n] = "live"})

DeleteNotIn(s) ==
    \/ DeleteNodesNotIn(s)
    \/ DeletePersistentVolumesNotIn(s)
    \/ DeleteNamespacesNotIn(s)
    \/ DeleteWorkloadsNotIn(s)
    \/ DeletePodsNotIn(s)
    \/ DeleteServicesNotIn(s)
    \/ DeleteIngressesNotIn(s)
    \/ DeletePersistentVolumeClaimsNotIn(s)
    \/ SweepNetworkPoliciesByNamespace(s)

Sweep(s) ==
    /\ pc = "upsert" /\ todo = {} /\ s \in sweeping
    /\ sweeping' = sweeping \ {s}
    /\ DeleteNotIn(s)
    /\ NoFault
    /\ UNCHANGED <<kube, cluster, storedVersion, pc, stage, fetched, listed, todo, keep,
                   ids, rsOwners>>

\* A failing reconcile call is logged; the other namespaces are still swept.
SweepFails(s) ==
    /\ pc = "upsert" /\ todo = {} /\ s \in sweeping
    /\ sweeping' = sweeping \ {s}
    /\ UNCHANGED <<row, linked>> \/ DeleteNotIn(s)
    /\ Fault
    /\ UNCHANGED <<kube, cluster, storedVersion, pc, stage, fetched, listed, todo, keep,
                   ids, rsOwners>>

Finish ==
    /\ pc = "upsert" /\ todo = {} /\ sweeping = {}
    /\ NextKind
    /\ NoFault
    /\ UNCHANGED <<kube, store>>

-----------------------------------------------------------------------------
(* Administrators deleting rows through the REST API.                      *)

Administers ==
    /\ AdminDeletes
    /\ Change
    /\ UNCHANGED <<kube, storedVersion>>

SoftDeleteNamespace(n) ==
    /\ Kind[n] = Namespace /\ row[n] # "none"
    /\ CascadeNamespaces({n})
    /\ Administers
    /\ UNCHANGED cluster

\* SoftDeleteCluster terminates every historied row, deletes the others and
\* leaves the network policies.
SoftDeleteCluster ==
    /\ cluster # "none"
    /\ cluster' = "terminated"
    /\ LET hard == HardChildren(OfKind(Namespace)) \cup OfKind(PersistentVolume)
       IN  /\ row' = [o \in Objects |->
                        IF o \in hard THEN "none"
                        ELSE IF row[o] = "live" /\ Kind[o] # NetworkPolicy
                        THEN "terminated" ELSE row[o]]
           /\ linked' = Unlinked(hard)
    /\ Administers

\* DeleteNode, DeletePod, DeleteWorkload, DeleteService, ...: the row goes.
DeleteRow(o) ==
    /\ Kind[o] \notin {Namespace, NetworkPolicy} /\ row[o] # "none"
    /\ HardDelete({o})
    /\ Administers
    /\ UNCHANGED cluster

-----------------------------------------------------------------------------
CollectorStep ==
    \/ Poll
    \/ ServerVersionFails
    \/ EnsureCluster
    \/ EnsureClusterFails
    \/ UpdateCluster
    \/ UpdateClusterFails
    \/ IngestNodes
    \/ IngestPersistentVolumes
    \/ IngestNamespaces
    \/ IngestWorkloads
    \/ IngestPods
    \/ IngestServices
    \/ IngestIngresses
    \/ IngestPersistentVolumeClaims
    \/ CollectNetworkPolicies
    \/ ListFails
    \/ \E o \in Objects :
          \/ UpsertNode(o)
          \/ UpsertPersistentVolume(o)
          \/ UpsertNamespace(o)
          \/ UpsertWorkload(o)
          \/ UpsertPod(o)
          \/ UpsertService(o)
          \/ UpsertIngress(o)
          \/ UpsertPersistentVolumeClaim(o)
          \/ UpsertNetworkPolicy(o)
          \/ UpsertFails(o)
          \/ UpsertNetworkPolicyFails(o)
    \/ \E s \in Scopes : Sweep(s) \/ SweepFails(s)
    \/ Finish

KubeStep == Upgrade \/ \E o \in Objects : CreateObject(o) \/ DeleteObject(o)

AdminStep == SoftDeleteCluster \/ \E o \in Objects : SoftDeleteNamespace(o) \/ DeleteRow(o)

Next == CollectorStep \/ KubeStep \/ AdminStep

Spec == Init /\ [][Next]_vars

\* The collector and the cluster alone: what Spec allows without AdminDeletes.
UnattendedNext == CollectorStep \/ KubeStep

\* Run polls at every tick of its timer and poll never blocks: every call is
\* bounded by fetchTimeout.
FairSpec == Init /\ [][UnattendedNext]_vars /\ WF_vars(CollectorStep)

-----------------------------------------------------------------------------
(* Properties.                                                             *)

LiveNamespace(o) == NsOf[o] = ClusterScope \/ row[NsOf[o]] = "live"

\* The row of an object says what the cluster says: it is live exactly when
\* the object exists.  Network policies are compared in live namespaces only.
RowMirrors(o) ==
    (Kind[o] # NetworkPolicy \/ LiveNamespace(o)) => (row[o] = "live" <=> o \in k8s)

\* A pod's workload_id and a PVC's bound_volume_id are set exactly when the
\* object they refer to exists.
LinkMirrors(o) ==
    (o \in k8s /\ Target[o] # None) => (o \in linked <=> Target[o] \in k8s)

Mirrored ==
    /\ cluster = "live"
    /\ storedVersion = version
    /\ \A o \in Objects : RowMirrors(o) /\ LinkMirrors(o)

CleanTick == Reconcile /\ pc = "idle" /\ quiet /\ faultless

(* With reconciliation on, a tick of poll during which no call failed and  *)
(* nothing else changed leaves the CMDB an exact mirror of the cluster,    *)
(* whatever earlier ticks that failed half-way had left behind: rows of    *)
(* vanished namespaces, pods without their workload, a stale version.      *)
MirrorAfterCleanTick == CleanTick => Mirrored

(* No upserted row is orphaned: a live row of a kind that is deleted with  *)
(* its namespace always lies in a live namespace, in the middle of a tick  *)
(* and after a failed one as well.  It holds with AdminDeletes = FALSE     *)
(* only: UpsertWorkload does not look at the namespace's terminated_at, so *)
(* a soft delete in the middle of a tick breaks it (NoLingeringWorkload).  *)
LiveRowsInLiveNamespaces ==
    \A o \in Objects :
        (row[o] = "live" /\ Kind[o] # NetworkPolicy) => LiveNamespace(o)

(* CollectNetworkPolicies never sweeps a policy that the list of the tick  *)
(* returned: an upsert error stops the tick before any sweep.              *)
ListedPoliciesKept ==
    [][\A o \in listed :
         (Kind[o] = NetworkPolicy /\ row[o] = "live") => row'[o] = "live"]_vars

(* "A transient Kubernetes API error never wipes the store": while nobody  *)
(* else changes anything, a tick takes the row of an existing object away  *)
(* only if that object, or its namespace, was listed and could not be      *)
(* upserted; a failed list call takes nothing away.                        *)
ExistingRowsSurvive ==
    [][\A o \in k8s :
         (quiet' /\ row[o] = "live" /\ row'[o] # "live") =>
            (listed \ keep) \cap {o, NsOf[o]} # {}]_vars

(* Once the cluster is quiet and calls succeed again, the CMDB becomes a   *)
(* mirror of the cluster and stays one.                                    *)
EventuallyMirrors == <>[]Mirrored

(* "deletes CMDB rows that were not returned by the most recent successful *)
(* Kubernetes API list": a row that the list of this tick did return is    *)
(* not deleted by the tick.                                                *)
NeverRemovesListed ==
    [][\A o \in listed :
         (row[o] = "live" /\ changes' = changes) => row'[o] = "live"]_vars

(* The cascade of DeleteNamespacesNotIn exists because "otherwise workloads*)
(* in a vanished namespace would linger forever": after a clean tick no    *)
(* live workload is left in a namespace that is not.                       *)
NoLingeringWorkload ==
    CleanTick =>
        \A o \in OfKind(Workload) : row[o] = "live" => LiveNamespace(o)
==============================================================================
