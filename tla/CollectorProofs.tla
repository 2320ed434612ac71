--------------------------- MODULE CollectorProofs ---------------------------
(***************************************************************************)
(* Proofs about the Kubernetes collector, for every set of objects and     *)
(* every bound on changes and faults.  The main result is that, unless     *)
(* administrators delete rows behind its back, a tick without failures     *)
(* leaves the CMDB a mirror of the cluster.                                *)
(*                                                                         *)
(* The second part is about its Kyverno stage.  Kyverno extends Collector: *)
(* the daemon is a Collector with one more stage, and every behaviour of   *)
(* it is a behaviour of Collector.                                         *)
(***************************************************************************)
EXTENDS Kyverno, TLAPS

NoAdminDeletes == ~AdminDeletes

USE DEF Node, PersistentVolume, Namespace, Workload, Pod, Service, Ingress,
        PersistentVolumeClaim, NetworkPolicy, Kinds

-----------------------------------------------------------------------------
(* What a Delete...NotIn call does, whatever the kind it reconciles.       *)

\* Only rows of the current kind that were not kept, or the children of such
\* namespaces, stop being live; those rows do; kept rows keep their links.
DeleteEffect(s) ==
    /\ row' \in [Objects -> RowStates]
    /\ linked' \subseteq linked
    /\ \A o \in Objects : row'[o] # row[o] =>
          /\ row'[o] # "live"
          /\ \/ o \in Stale(s)
             \/ stage = Namespace /\ Kind[o] # NetworkPolicy /\ NsOf[o] \in Stale(s)
    /\ \A o \in Stale(s) : row'[o] # "live"
    /\ stage = Namespace => \A o \in Objects :
          (Kind[o] # NetworkPolicy /\ NsOf[o] \in Stale(s) /\ row[NsOf[o]] = "live")
             => row'[o] # "live"
    /\ \A o \in linked : o \notin linked' => Kind[o] > stage \/ o \in Stale(s)

\* Every Delete...NotIn call of the store has that effect.
LEMMA DeleteNotInEffect ==
  ASSUME TypeOK, NEW s \in Scopes, DeleteNotIn(s)
  PROVE  DeleteEffect(s)
<1>0. /\ row \in [Objects -> RowStates] /\ linked \subseteq Objects /\ stage \in Kinds
      /\ Stale(s) \subseteq Objects /\ \A o \in Stale(s) : Kind[o] = stage
  BY Zenon DEF TypeOK, Stale, OfKind
<1>c. /\ Kind \in [Objects -> Kinds] /\ NsOf \in [Objects -> Scopes]
      /\ \A o \in Objects : Target[o] \in Objects =>
            \/ Kind[o] = Pod /\ Kind[Target[o]] = Workload
            \/ Kind[o] = PersistentVolumeClaim /\ Kind[Target[o]] = PersistentVolume
  BY CollectorAssumption, Zenon
<1>1. ASSUME SoftDelete(Stale(s)), stage # Namespace PROVE DeleteEffect(s)
  BY <1>0, <1>1, Zenon DEF SoftDelete, Terminated, DeleteEffect, RowStates
<1>2. ASSUME HardDelete(Stale(s)), stage # Namespace PROVE DeleteEffect(s)
  <2>1. /\ row' = [o \in Objects |-> IF o \in Stale(s) THEN "none" ELSE row[o]]
        /\ linked' = {o \in linked : o \notin Stale(s) /\ Target[o] \notin Stale(s)}
    BY <1>2, Zenon DEF HardDelete, Removed, Unlinked
  <2>2. ASSUME NEW o \in linked, o \notin linked', o \notin Stale(s) PROVE Kind[o] > stage
    <3>1. Target[o] \in Stale(s) /\ Target[o] \in Objects /\ Kind[Target[o]] = stage
      BY <2>1, <2>2, <1>0, Zenon
    <3> QED BY <3>1, <1>c, <1>0
  <2>3. row' \in [Objects -> RowStates]
    BY <2>1, <1>0, Zenon DEF RowStates
  <2> QED BY <2>1, <2>2, <2>3, <1>0, <1>2, Zenon DEF DeleteEffect
<1>3. CASE DeleteNamespacesNotIn(s)
  <2> DEFINE N == {n \in Stale(s) : row[n] = "live"}
  <2>1. /\ stage = Namespace
        /\ row' = [o \in Objects |->
             IF o \in HardChildren(N) THEN "none"
             ELSE IF row[o] = "live" /\ (o \in N \/ (NsOf[o] \in N /\ Kind[o] = Workload))
             THEN "terminated" ELSE row[o]]
        /\ linked' = {o \in linked : o \notin HardChildren(N) /\ Target[o] \notin HardChildren(N)}
    BY <1>3, Zenon DEF DeleteNamespacesNotIn, CascadeNamespaces, Cascaded, Unlinked
  <2>2. \A o \in Objects : o \in HardChildren(N) <=>
           NsOf[o] \in N /\ Kind[o] \in {Pod, Service, Ingress, PersistentVolumeClaim}
    BY Zenon DEF HardChildren
  <2>3. HardChildren(N) \subseteq Objects
    BY Zenon DEF HardChildren
  <2>4. N \subseteq Stale(s)
    BY Zenon
  <2>5. \A n \in Stale(s) : row[n] = "live" => n \in N
    BY Zenon
  <2> HIDE DEF N
  <2>6. row' \in [Objects -> RowStates]
    BY <2>1, <1>0, Zenon DEF RowStates
  <2>7. ASSUME NEW o \in linked, o \notin linked' PROVE Kind[o] > stage
    <3>1. CASE o \in HardChildren(N)
      BY <3>1, <2>1, <2>2, <1>0
    <3>2. CASE Target[o] \in HardChildren(N)
      BY <3>2, <2>2, <2>3, <1>c, <1>0
    <3> QED BY <3>1, <3>2, <2>1, <2>7, Zenon
  <2>8. ASSUME NEW o \in Objects, row'[o] # row[o]
        PROVE  /\ row'[o] # "live"
               /\ \/ o \in Stale(s)
                  \/ Kind[o] # NetworkPolicy /\ NsOf[o] \in Stale(s)
    BY <2>1, <2>2, <2>4, <2>8, <1>c
  <2>9. ASSUME NEW o \in Stale(s) PROVE row'[o] # "live"
    BY <2>1, <2>5, <1>0, Zenon
  <2>10. ASSUME NEW o \in Objects, Kind[o] # NetworkPolicy, NsOf[o] \in Stale(s),
                row[NsOf[o]] = "live"
         PROVE  row'[o] # "live"
    <3>1. NsOf[o] \in N /\ NsOf[o] \in Objects
      BY <2>10, <2>5, <1>0, Zenon
    <3>2. Kind[o] > Namespace /\ Kind[o] \in Kinds
      BY <3>1, CollectorAssumption
    <3>3. Kind[o] = Workload \/ Kind[o] \in {Pod, Service, Ingress, PersistentVolumeClaim}
      BY <3>2, <2>10
    <3> QED BY <3>1, <3>3, <2>1, <2>2, Zenon
  <2> QED BY <2>1, <2>6, <2>7, <2>8, <2>9, <2>10, Zenon DEF DeleteEffect
<1> QED
  BY <1>1, <1>2, <1>3, <1>0 DEF DeleteNotIn, DeleteNodesNotIn, DeletePersistentVolumesNotIn,
     DeleteWorkloadsNotIn, DeletePodsNotIn, DeleteServicesNotIn, DeleteIngressesNotIn,
     DeletePersistentVolumeClaimsNotIn, SweepNetworkPoliciesByNamespace

-----------------------------------------------------------------------------
(* The per-kind actions, folded.                                           *)

Indexed == {PersistentVolume, Namespace, Workload}

Ingested ==
    /\ List
    /\ \/ NoFault /\ rsOwners' = (IF stage = Pod THEN TRUE ELSE rsOwners)
       \/ Fault /\ rsOwners' \in BOOLEAN

UpsertDone(o) ==
    /\ Upsert(o)
    /\ ids' = IF stage \in Indexed THEN ids \cup {o} ELSE ids

\* Every step of the collector is one of twelve, whatever its kind.
LEMMA StepCases ==
  ASSUME TypeOK, CollectorStep
  PROVE  \/ Poll \/ ServerVersionFails
         \/ EnsureCluster \/ EnsureClusterFails \/ UpdateCluster \/ UpdateClusterFails
         \/ Ingested \/ ListFails
         \/ \E o \in Objects :
               UpsertDone(o) \/ UpsertFails(o) \/ UpsertNetworkPolicyFails(o)
         \/ \E s \in Scopes : Sweep(s) \/ SweepFails(s)
         \/ Finish
<1>1. ASSUME NEW k \in Kinds, k # Pod, Ingest(k) PROVE Ingested
  BY <1>1, Zenon DEF Ingest, Ingested
<1>2. ASSUME IngestPods PROVE Ingested
  BY <1>2, Zenon DEF IngestPods, Ingested
<1>3. ASSUME NEW o \in Objects,
             \/ UpsertNode(o) \/ UpsertPersistentVolume(o) \/ UpsertNamespace(o)
             \/ UpsertWorkload(o) \/ UpsertPod(o) \/ UpsertService(o) \/ UpsertIngress(o)
             \/ UpsertPersistentVolumeClaim(o) \/ UpsertNetworkPolicy(o)
      PROVE  UpsertDone(o)
  BY <1>3 DEF UpsertNode, UpsertPersistentVolume, UpsertNamespace, UpsertWorkload, UpsertPod,
     UpsertService, UpsertIngress, UpsertPersistentVolumeClaim, UpsertNetworkPolicy,
     UpsertLeaf, UpsertIndexed, UpsertDone, Indexed
<1> QED
  BY <1>1, <1>2, <1>3 DEF CollectorStep, IngestNodes, IngestPersistentVolumes, IngestNamespaces,
     IngestWorkloads, IngestServices, IngestIngresses, IngestPersistentVolumeClaims,
     CollectNetworkPolicies

-----------------------------------------------------------------------------
(* Type correctness.                                                       *)

TypeTick ==
    /\ pc \in {"idle", "ensure", "update", "list", "upsert"}
    /\ stage \in Kinds
    /\ fetched \in Versions \cup {NoVersion}
    /\ listed \subseteq OfKind(stage)
    /\ todo \subseteq listed
    /\ keep \subseteq listed
    /\ sweeping \subseteq Scopes
    /\ ids \subseteq Objects

TypeStore ==
    /\ cluster \in RowStates
    /\ storedVersion \in Versions \cup {NoVersion}
    /\ row \in [Objects -> RowStates]
    /\ linked \subseteq Objects

TypeRest ==
    /\ k8s \subseteq Objects
    /\ version \in Versions
    /\ changes \in 0..MaxChanges
    /\ faults \in 0..MaxFaults

TypeFlags ==
    /\ rsOwners \in BOOLEAN
    /\ quiet \in BOOLEAN
    /\ faultless \in BOOLEAN

\* Outside the loop of an ingest function its locals are empty, outside the
\* ingest functions those of poll are.
Phases ==
    /\ pc # "upsert" => listed = {} /\ todo = {} /\ keep = {} /\ sweeping = {}
    /\ pc \in {"idle", "ensure", "update"} => stage = Node /\ ids = {}

Typed == TypeTick /\ TypeStore /\ TypeRest /\ TypeFlags /\ Phases

LEMMA TypeParts == Typed => TypeOK
  BY Zenon DEF TypeOK, Typed, TypeTick, TypeStore, TypeRest, TypeFlags

\* The initial state is well-typed.
LEMMA TypeInit == Init => Typed
<1> SUFFICES ASSUME Init PROVE Typed
  BY Zenon
<1>1. TypeTick /\ Phases
  BY DEF Init, TypeTick, Phases
<1>2. TypeStore
  BY Zenon DEF Init, TypeStore, RowStates
<1>3. TypeRest
  BY CollectorAssumption DEF Init, TypeRest
<1>4. TypeFlags
  BY Zenon DEF Init, TypeFlags
<1> QED BY <1>1, <1>2, <1>3, <1>4, Zenon DEF Typed

\* Counters stay within their bounds.
LEMMA TypeCounters ==
  ASSUME TypeRest, UNCHANGED kube, Fault \/ NoFault
  PROVE  TypeRest'
  BY CollectorAssumption DEF TypeRest, kube, Fault, NoFault

LEMMA TypeGhosts ==
  ASSUME TypeFlags, Fault \/ NoFault, rsOwners' \in BOOLEAN
  PROVE  TypeFlags'
  BY Zenon DEF TypeFlags, Fault, NoFault

\* Moving on to the next kind, or returning, keeps the locals typed.
LEMMA TypeNextKind ==
  ASSUME TypeTick, NextKind \/ Return
  PROVE  TypeTick' /\ Phases'
  BY DEF TypeTick, Phases, NextKind, Return

\* The same for the flag that NextKind keeps and Return resets.
LEMMA FlagNextKind ==
  ASSUME TypeFlags, NextKind \/ Return
  PROVE  rsOwners' \in BOOLEAN
  BY Zenon DEF TypeFlags, NextKind, Return

\* A write of one row keeps the store typed.
LEMMA TypeWrite ==
  ASSUME TypeStore, NEW o \in Objects, Write(o), UNCHANGED <<cluster, storedVersion>>
  PROVE  TypeStore'
  BY Zenon DEF TypeStore, Write, RowStates

\* A list call returns objects of the kind it lists.
LEMMA TypeList ==
  ASSUME TypeTick, Phases, List
  PROVE  TypeTick' /\ Phases'
<1>1. Swept \subseteq Scopes
  BY Zenon DEF Swept, nsMap, Scopes, TypeTick
<1>2. /\ pc' = "upsert" /\ UNCHANGED <<stage, fetched, keep, ids>>
      /\ listed' = k8s \cap OfKind(stage) /\ todo' \subseteq listed' /\ sweeping' = Swept
      /\ keep = {}
  BY Zenon DEF List, Phases
<1> QED BY <1>1, <1>2, Zenon DEF TypeTick, Phases

\* Every step keeps the state well-typed.
LEMMA TypeStep == Typed /\ [Next]_vars => Typed'
<1> SUFFICES ASSUME Typed, [Next]_vars PROVE Typed'
  BY Zenon
<1> USE DEF Typed
<1>0. TypeOK
  BY TypeParts, Zenon
<1>1. ASSUME UNCHANGED vars PROVE Typed'
  <2>1. UNCHANGED <<k8s, version, cluster, storedVersion, row, linked, pc, stage, fetched,
                    listed, todo, keep, sweeping, ids, rsOwners, quiet, faultless, changes,
                    faults>>
    BY <1>1, Zenon DEF vars, kube, store, tick
  <2>2. TypeTick' /\ Phases'
    BY <2>1, Zenon DEF TypeTick, Phases
  <2>3. TypeStore' /\ TypeRest'
    BY <2>1, Zenon DEF TypeStore, TypeRest
  <2>4. TypeFlags'
    BY <2>1, Zenon DEF TypeFlags
  <2> QED BY <2>2, <2>3, <2>4, Zenon
<1>2. ASSUME Change, TypeStore', k8s' \subseteq Objects, version' \in Versions PROVE Typed'
  <2>1. UNCHANGED <<pc, stage, fetched, listed, todo, keep, sweeping, ids, rsOwners,
                    faultless, faults>>
    BY <1>2, Zenon DEF Change, tick
  <2>2. TypeTick' /\ Phases'
    BY <2>1, Zenon DEF TypeTick, Phases
  <2>3. TypeRest'
    BY <1>2, <2>1, CollectorAssumption DEF TypeRest, Change
  <2>4. quiet' \in BOOLEAN
    BY <1>2, Zenon DEF Change
  <2>5. TypeFlags'
    BY <2>1, <2>4, Zenon DEF TypeFlags
  <2> QED BY <1>2, <2>2, <2>3, <2>5, Zenon
<1>3. CASE KubeStep
  <2>1. Change /\ UNCHANGED store /\ k8s' \subseteq Objects /\ version' \in Versions
    BY <1>3, Zenon DEF KubeStep, Upgrade, CreateObject, DeleteObject, TypeRest
  <2>2. TypeStore'
    BY <2>1, Zenon DEF store, TypeStore
  <2> QED BY <1>2, <2>1, <2>2, Zenon
<1>4. CASE AdminStep
  <2>1. Change /\ UNCHANGED <<kube, storedVersion>>
    BY <1>4, Zenon DEF AdminStep, SoftDeleteCluster, SoftDeleteNamespace, DeleteRow, Administers
  <2>2. cluster' \in RowStates
    BY <1>4, Zenon DEF AdminStep, SoftDeleteCluster, SoftDeleteNamespace, DeleteRow, RowStates, TypeStore
  <2>3. row' \in [Objects -> RowStates] /\ linked' \subseteq linked
    <3>1. CASE SoftDeleteCluster
      BY <3>1, Zenon DEF SoftDeleteCluster, Unlinked, TypeStore, RowStates
    <3>2. CASE \E o \in Objects : SoftDeleteNamespace(o)
      BY <3>2, Zenon DEF SoftDeleteNamespace, CascadeNamespaces, Cascaded, Unlinked, TypeStore, RowStates
    <3>3. CASE \E o \in Objects : DeleteRow(o)
      BY <3>3 DEF DeleteRow, HardDelete, Removed, Unlinked, TypeStore, RowStates
    <3> QED BY <1>4, <3>1, <3>2, <3>3, Zenon DEF AdminStep
  <2>4. TypeStore'
    BY <2>1, <2>2, <2>3, Zenon DEF TypeStore
  <2> QED BY <1>2, <2>1, <2>4, Zenon DEF kube, TypeRest
<1>5. ASSUME TypeTick', Phases', TypeStore', Fault \/ NoFault, UNCHANGED kube,
             rsOwners' \in BOOLEAN
      PROVE  Typed'
  BY <1>5, TypeCounters, TypeGhosts, Zenon
<1>6. rsOwners \in BOOLEAN
  BY Zenon DEF TypeFlags
<1>7. CASE Poll
  <2>1. TypeTick' /\ Phases' /\ TypeStore' /\ TypeRest'
    BY <1>7, Zenon DEF Poll, TypeTick, Phases, TypeStore, TypeRest, kube, store
  <2>2. TypeFlags'
    BY <1>7, Zenon DEF Poll, TypeFlags
  <2> QED BY <2>1, <2>2, Zenon
<1>8. CASE ServerVersionFails
  <2>1. TypeTick' /\ Phases' /\ TypeStore'
    BY <1>8, Zenon DEF ServerVersionFails, TypeTick, Phases, TypeStore, store, tick
  <2>2. rsOwners' = rsOwners
    BY <1>8, Zenon DEF ServerVersionFails, tick
  <2> QED BY <1>5, <1>6, <1>8, <2>1, <2>2, Zenon DEF ServerVersionFails
<1>9. CASE EnsureCluster \/ UpdateCluster
  <2>1. TypeTick' /\ Phases' /\ TypeStore'
    BY <1>9, Zenon DEF EnsureCluster, UpdateCluster, TypeTick, Phases, TypeStore, RowStates
  <2> QED BY <1>5, <1>6, <1>9, <2>1, Zenon DEF EnsureCluster, UpdateCluster
<1>10. CASE EnsureClusterFails \/ UpdateClusterFails
  <2>1. TypeStore' /\ Return /\ Fault /\ UNCHANGED kube
    BY <1>10, Zenon DEF EnsureClusterFails, UpdateClusterFails, TypeTick, TypeStore, RowStates
  <2> QED BY <1>5, <2>1, TypeNextKind, FlagNextKind, Zenon
<1>11. CASE Ingested
  <2>1. TypeTick' /\ Phases'
    BY <1>11, TypeList, Zenon DEF Ingested
  <2>2. TypeStore' /\ UNCHANGED kube
    BY <1>11, Zenon DEF Ingested, List, store, TypeStore
  <2>3. rsOwners' \in BOOLEAN
    BY <1>6, <1>11, Zenon DEF Ingested
  <2> QED BY <1>5, <1>11, <2>1, <2>2, <2>3, Zenon DEF Ingested
<1>12. CASE ListFails \/ Finish
  <2>1. TypeStore' /\ (NextKind \/ Return) /\ (Fault \/ NoFault) /\ UNCHANGED kube
    BY <1>12, Zenon DEF ListFails, Finish, store, TypeStore
  <2> QED BY <1>5, <2>1, TypeNextKind, FlagNextKind, Zenon
<1>13. ASSUME NEW o \in Objects, UpsertDone(o) PROVE Typed'
  <2>1. TypeTick' /\ Phases'
    BY <1>13, Zenon DEF UpsertDone, Upsert, TypeTick, Phases
  <2>2. TypeStore'
    BY <1>13, TypeWrite, Zenon DEF UpsertDone, Upsert
  <2> QED BY <1>5, <1>6, <1>13, <2>1, <2>2, Zenon DEF UpsertDone, Upsert
<1>14. ASSUME NEW o \in Objects, UpsertError(o)
       PROVE  TypeStore' /\ (Fault \/ NoFault) /\ UNCHANGED kube
  BY <1>14, TypeWrite, Zenon DEF UpsertError, TypeStore
<1>15. ASSUME NEW o \in Objects, UpsertFails(o) PROVE Typed'
  <2>1. TypeTick' /\ Phases'
    BY <1>15, Zenon DEF UpsertFails, UpsertError, TypeTick, Phases
  <2> QED BY <1>5, <1>6, <1>14, <1>15, <2>1, Zenon DEF UpsertFails
<1>16. ASSUME NEW o \in Objects, UpsertNetworkPolicyFails(o) PROVE Typed'
  <2>1. UpsertError(o) /\ NextKind
    BY <1>16, Zenon DEF UpsertNetworkPolicyFails
  <2> QED BY <1>5, <1>14, <2>1, TypeNextKind, FlagNextKind, Zenon
<1>17. ASSUME NEW s \in Scopes, Sweep(s) \/ SweepFails(s) PROVE Typed'
  <2>1. TypeTick' /\ Phases'
    BY <1>17, Zenon DEF Sweep, SweepFails, TypeTick, Phases
  <2>2. row' \in [Objects -> RowStates] /\ linked' \subseteq linked
    BY <1>0, <1>17, DeleteNotInEffect, Zenon DEF Sweep, SweepFails, DeleteEffect, TypeStore
  <2>3. TypeStore'
    BY <1>17, <2>2, Zenon DEF Sweep, SweepFails, TypeStore
  <2> QED BY <1>5, <1>6, <1>17, <2>1, <2>3, Zenon DEF Sweep, SweepFails
<1>18. CASE CollectorStep
  BY <1>0, <1>7, <1>8, <1>9, <1>10, <1>11, <1>12, <1>13, <1>15, <1>16, <1>17, <1>18, StepCases, Zenon
<1> QED BY <1>1, <1>3, <1>4, <1>18, Zenon DEF Next

(* Every reachable state is well-typed: poll never leaves its stages and   *)
(* upserts only objects its list call returned.                            *)
THEOREM TypeCorrect == Spec => []TypeOK
<1>1. Init => Typed
  BY TypeInit, Zenon
<1>2. Typed /\ [Next]_vars => Typed'
  BY TypeStep, Zenon
<1>3. Typed => TypeOK
  BY TypeParts, Zenon
<1> QED BY <1>1, <1>2, <1>3, PTL DEF Spec

-----------------------------------------------------------------------------
(* Rows of upserted parents.  The ids of a tick name live rows, and every  *)
(* upsert goes into one of them.                                           *)

IdsOK ==
    /\ \A o \in ids :
          /\ Kind[o] \in Indexed /\ Kind[o] <= stage
          /\ row[o] = "live"
          /\ Kind[o] = stage => o \in keep
    /\ \A o \in todo : NsOf[o] = ClusterScope \/ NsOf[o] \in nsMap

Rooted == IdsOK /\ LiveRowsInLiveNamespaces /\ Consistent(k8s)

\* Initially there is no row.
LEMMA RootedInit == Init => Rooted
  BY Zenon DEF Init, Rooted, IdsOK, LiveRowsInLiveNamespaces

\* Writing a row of a listed object keeps every live row in a live namespace.
LEMMA WriteRooted ==
  ASSUME Typed, Rooted, NEW o \in todo, Write(o)
  PROVE  /\ LiveRowsInLiveNamespaces'
         /\ \A x \in Objects : row[x] = "live" => row'[x] = "live"
<1>0. /\ row \in [Objects -> RowStates] /\ o \in Objects /\ ids \subseteq Objects
      /\ NsOf \in [Objects -> Scopes]
  BY CollectorAssumption, Zenon DEF Typed, TypeStore, TypeTick, OfKind
<1>1. row' = [row EXCEPT ![o] = "live"]
  BY Zenon DEF Write
<1>2. \A x \in Objects : row[x] = "live" => row'[x] = "live"
  BY <1>0, <1>1, Zenon
<1>3. ASSUME NEW x \in Objects, row'[x] = "live", Kind[x] # NetworkPolicy
      PROVE  LiveNamespace(x)'
  <2>1. LiveNamespace(x)
    <3>1. CASE x = o
      BY <3>1, <1>0, Zenon DEF Rooted, IdsOK, nsMap, LiveNamespace
    <3>2. CASE x # o
      BY <3>2, <1>0, <1>1, <1>3, Zenon DEF Rooted, LiveRowsInLiveNamespaces
    <3> QED BY <3>1, <3>2, Zenon
  <2>2. NsOf[x] = ClusterScope \/ NsOf[x] \in Objects
    BY <1>0, Zenon DEF Scopes, OfKind
  <2> QED BY <1>2, <2>1, <2>2, Zenon DEF LiveNamespace
<1> QED BY <1>2, <1>3, Zenon DEF LiveRowsInLiveNamespaces

\* Reconciliation takes no namespace away without what depends on it, and
\* no row whose id the tick remembers.
LEMMA SweepRooted ==
  ASSUME Typed, Rooted, NEW s \in Scopes, DeleteNotIn(s)
  PROVE  /\ LiveRowsInLiveNamespaces'
         /\ \A x \in ids : row'[x] = "live"
<1>0. /\ row \in [Objects -> RowStates] /\ ids \subseteq Objects /\ stage \in Kinds
      /\ \A x \in Stale(s) : x \in Objects /\ Kind[x] = stage /\ x \notin keep
  BY Zenon DEF Typed, TypeStore, TypeTick, Stale, OfKind
<1>c. /\ \A x \in Objects : Kind[x] \in Kinds
      /\ \A x \in Objects : NsOf[x] = ClusterScope \/ (NsOf[x] \in Objects /\ Kind[NsOf[x]] = Namespace)
      /\ \A x \in Objects : NsOf[x] = ClusterScope <=> Kind[x] <= Namespace
      /\ ClusterScope \notin Objects
  BY CollectorAssumption DEF Scopes, OfKind
<1>e. DeleteEffect(s)
  BY DeleteNotInEffect, TypeParts, Zenon
<1>1. ASSUME NEW x \in ids PROVE row'[x] = "live"
  <2>1. x \notin Stale(s) /\ row[x] = "live" /\ x \in Objects
    BY <1>0, <1>1, Zenon DEF Rooted, IdsOK
  <2>2. ~(stage = Namespace /\ NsOf[x] \in Stale(s))
    <3>1. Kind[x] <= stage
      BY <1>1, Zenon DEF Rooted, IdsOK
    <3> QED BY <3>1, <2>1, <1>0, <1>c, Zenon
  <2> QED BY <2>1, <2>2, <1>e, Zenon DEF DeleteEffect
<1>2. ASSUME NEW x \in Objects, row'[x] = "live", Kind[x] # NetworkPolicy
      PROVE  LiveNamespace(x)'
  <2>1. row[x] = "live"
    BY <1>2, <1>e, Zenon DEF DeleteEffect
  <2>2. LiveNamespace(x)
    BY <1>2, <2>1, Zenon DEF Rooted, LiveRowsInLiveNamespaces
  <2>3. CASE NsOf[x] = ClusterScope
    BY <2>3, Zenon DEF LiveNamespace
  <2>4. CASE NsOf[x] # ClusterScope
    <3>1. NsOf[x] \in Objects /\ Kind[NsOf[x]] = Namespace /\ row[NsOf[x]] = "live"
      BY <2>2, <2>4, <1>c, Zenon DEF LiveNamespace
    <3>2. NsOf[NsOf[x]] = ClusterScope
      BY <3>1, <1>c
    <3>3. NsOf[x] \notin Stale(s)
      BY <3>1, <1>0, <1>2, <1>e, Zenon DEF DeleteEffect
    <3>4. row'[NsOf[x]] = "live"
      BY <3>1, <3>2, <3>3, <1>0, <1>c, <1>e, Zenon DEF DeleteEffect
    <3> QED BY <3>4, Zenon DEF LiveNamespace
  <2> QED BY <2>3, <2>4, Zenon
<1> QED BY <1>1, <1>2, Zenon DEF LiveRowsInLiveNamespaces

\* Without administrators, every step keeps rows rooted.
LEMMA RootedStep ==
  ASSUME NoAdminDeletes
  PROVE  Typed /\ Rooted /\ [Next]_vars => Rooted'
<1> SUFFICES ASSUME Typed, Rooted, [Next]_vars PROVE Rooted'
  BY Zenon
<1>0. TypeOK
  BY TypeParts, Zenon
<1>t. /\ row \in [Objects -> RowStates] /\ ids \subseteq Objects /\ stage \in Kinds
      /\ todo \subseteq Objects
  BY Zenon DEF Typed, TypeStore, TypeTick, OfKind
<1>1. ASSUME UNCHANGED <<row, ids, keep, todo, stage>>, Consistent(k8s') PROVE Rooted'
  BY <1>1, Zenon DEF Rooted, IdsOK, nsMap, LiveRowsInLiveNamespaces, LiveNamespace, Consistent
<1>2. CASE UNCHANGED vars
  BY <1>1, <1>2, Zenon DEF vars, kube, store, tick, Rooted
<1>3. CASE KubeStep
  <2>1. UNCHANGED <<row, ids, keep, todo, stage>>
    BY <1>3, Zenon DEF KubeStep, Upgrade, CreateObject, DeleteObject, Change, store, tick
  <2>2. Consistent(k8s')
    BY <1>3, Zenon DEF KubeStep, Upgrade, CreateObject, DeleteObject, Rooted
  <2> QED BY <1>1, <2>1, <2>2, Zenon
<1>4. CASE AdminStep
  BY <1>4, Zenon DEF AdminStep, SoftDeleteCluster, SoftDeleteNamespace, DeleteRow, Administers,
     NoAdminDeletes
<1>5. ASSUME NextKind \/ Return, LiveRowsInLiveNamespaces', UNCHANGED k8s,
             \A x \in ids : row'[x] = "live"
      PROVE  Rooted'
  <2>1. IdsOK'
    BY <1>5, <1>t, CollectorAssumption DEF Rooted, IdsOK, NextKind, Return, Indexed
  <2> QED BY <2>1, <1>5, Zenon DEF Rooted, Consistent
<1>6. CASE Poll \/ ServerVersionFails \/ EnsureCluster \/ UpdateCluster
  BY <1>1, <1>6, Zenon DEF Poll, ServerVersionFails, EnsureCluster, UpdateCluster, kube, store, tick,
     Rooted
<1>7. CASE EnsureClusterFails \/ UpdateClusterFails \/ ListFails \/ Finish
  <2>1. (NextKind \/ Return) /\ UNCHANGED <<row, k8s>>
    BY <1>7, Zenon DEF EnsureClusterFails, UpdateClusterFails, ListFails, Finish, kube, store
  <2>2. LiveRowsInLiveNamespaces' /\ \A x \in ids : row'[x] = "live"
    BY <2>1, Zenon DEF Rooted, IdsOK, LiveRowsInLiveNamespaces, LiveNamespace
  <2> QED BY <1>5, <2>1, <2>2, Zenon
<1>8. CASE Ingested
  <2>1. UNCHANGED <<row, k8s, ids, stage, keep>>
    BY <1>8, Zenon DEF Ingested, List, kube, store
  <2>2. \A o \in todo' : NsOf[o] = ClusterScope \/ NsOf[o] \in nsMap
    BY <1>8, Zenon DEF Ingested, List
  <2> QED BY <2>1, <2>2, Zenon DEF Rooted, IdsOK, nsMap, LiveRowsInLiveNamespaces, LiveNamespace,
             Consistent
<1>9. ASSUME NEW o \in Objects, UpsertDone(o) PROVE Rooted'
  <2>1. /\ o \in todo /\ Write(o) /\ UNCHANGED <<k8s, stage>>
        /\ todo' = todo \ {o} /\ keep' = keep \cup {o}
        /\ ids' = IF stage \in Indexed THEN ids \cup {o} ELSE ids
    BY <1>9, Zenon DEF UpsertDone, Upsert, kube
  <2>2. Kind[o] = stage
    BY <2>1, Zenon DEF Typed, TypeTick, OfKind
  <2>3. row'[o] = "live"
    BY <2>1, <1>t, Zenon DEF Write
  <2>4. /\ LiveRowsInLiveNamespaces'
        /\ \A x \in Objects : row[x] = "live" => row'[x] = "live"
    BY <2>1, WriteRooted, Zenon
  <2>5. IdsOK'
    BY <2>1, <2>2, <2>3, <2>4, <1>t DEF Rooted, IdsOK, nsMap
  <2> QED BY <2>1, <2>4, <2>5, Zenon DEF Rooted, Consistent
<1>10. ASSUME NEW o \in Objects, UpsertError(o)
       PROVE  /\ LiveRowsInLiveNamespaces' /\ UNCHANGED k8s
              /\ \A x \in ids : row'[x] = "live"
  <2>1. o \in todo /\ UNCHANGED k8s /\ (UNCHANGED row \/ Write(o))
    BY <1>10, Zenon DEF UpsertError, kube
  <2>2. CASE UNCHANGED row
    BY <2>1, <2>2, Zenon DEF Rooted, IdsOK, LiveRowsInLiveNamespaces, LiveNamespace
  <2>3. CASE Write(o)
    BY <2>1, <2>3, <1>t, WriteRooted, Zenon DEF Rooted, IdsOK
  <2> QED BY <2>1, <2>2, <2>3, Zenon
<1>11. ASSUME NEW o \in Objects, UpsertFails(o) PROVE Rooted'
  <2>1. UpsertError(o) /\ todo' = todo \ {o} /\ UNCHANGED <<stage, keep, ids>>
    BY <1>11, Zenon DEF UpsertFails
  <2>2. IdsOK'
    BY <1>10, <2>1, Zenon DEF Rooted, IdsOK, nsMap
  <2> QED BY <1>10, <2>1, <2>2, Zenon DEF Rooted, Consistent
<1>12. ASSUME NEW o \in Objects, UpsertNetworkPolicyFails(o) PROVE Rooted'
  BY <1>5, <1>10, <1>12, Zenon DEF UpsertNetworkPolicyFails
<1>13. ASSUME NEW s \in Scopes, Sweep(s) \/ SweepFails(s) PROVE Rooted'
  <2>1. UNCHANGED <<k8s, stage, todo, keep, ids>> /\ (UNCHANGED row \/ DeleteNotIn(s))
    BY <1>13, Zenon DEF Sweep, SweepFails, kube
  <2>2. CASE UNCHANGED row
    BY <1>1, <2>1, <2>2, Zenon DEF Rooted
  <2>3. CASE DeleteNotIn(s)
    <3>1. LiveRowsInLiveNamespaces' /\ \A x \in ids : row'[x] = "live"
      BY <2>3, SweepRooted, Zenon
    <3>2. IdsOK'
      BY <3>1, <2>1, Zenon DEF Rooted, IdsOK, nsMap
    <3> QED BY <3>1, <3>2, <2>1, Zenon DEF Rooted, Consistent
  <2> QED BY <2>1, <2>2, <2>3, Zenon
<1>14. CASE CollectorStep
  BY <1>0, <1>6, <1>7, <1>8, <1>9, <1>11, <1>12, <1>13, <1>14, StepCases, Zenon
<1> QED BY <1>2, <1>3, <1>4, <1>14, Zenon DEF Next

(* As long as administrators delete nothing, every live row of a kind that *)
(* goes with its namespace lies in a live namespace, at every step of      *)
(* every tick.                                                             *)
THEOREM NoOrphanRows == NoAdminDeletes => (Spec => []LiveRowsInLiveNamespaces)
<1> SUFFICES ASSUME NoAdminDeletes PROVE Spec => []LiveRowsInLiveNamespaces
  BY Zenon
<1>1. Init => Typed /\ Rooted
  BY TypeInit, RootedInit, Zenon
<1>2. Typed /\ Rooted /\ [Next]_vars => (Typed /\ Rooted)'
  BY TypeStep, RootedStep, Zenon
<1>3. Rooted => LiveRowsInLiveNamespaces
  BY Zenon DEF Rooted
<1> QED BY <1>1, <1>2, <1>3, PTL DEF Spec

-----------------------------------------------------------------------------
(* A clean tick.  While nothing failed and nobody interfered, the kinds    *)
(* that poll has left behind mirror the cluster, and the kind it is at     *)
(* has every listed object upserted or to be upserted and every leftover   *)
(* row in a scope that is still to be swept.                               *)

Fresh == quiet /\ faultless /\ Reconcile

Done(o) == pc = "idle" \/ (pc \in {"list", "upsert"} /\ Kind[o] < stage)

ClusterDone ==
    /\ pc # "ensure" => cluster = "live"
    /\ pc # "idle" => fetched = version
    /\ pc \in {"idle", "list", "upsert"} => storedVersion = version

KindsDone == \A o \in Objects : Done(o) => RowMirrors(o) /\ LinkMirrors(o)

IdsDone ==
    pc \in {"list", "upsert"} =>
        \A o \in Objects :
            (Kind[o] \in Indexed /\ Kind[o] < stage) => (o \in ids <=> o \in k8s)

Leftover(o) ==
    /\ row[o] = "live" /\ o \notin k8s
    /\ Kind[o] # NetworkPolicy \/ LiveNamespace(o)

KindAtWork ==
    pc = "upsert" =>
        /\ stage = Pod => rsOwners
        /\ listed = k8s \cap OfKind(stage)
        /\ listed = todo \cup keep
        /\ stage \in Indexed => keep \subseteq ids
        /\ \A o \in keep : row[o] = "live" /\ LinkMirrors(o)
        /\ \A o \in OfKind(stage) : Leftover(o) => NsOf[o] \in sweeping

MirrorSoFar == Fresh => ClusterDone /\ KindsDone /\ IdsDone /\ KindAtWork

\* The constants, in the form the steps below use them.
LEMMA Constants ==
  /\ \A o \in Objects : Kind[o] \in Kinds
  /\ \A o \in Objects :
        NsOf[o] = ClusterScope \/ (NsOf[o] \in Objects /\ Kind[NsOf[o]] = Namespace)
  /\ \A o \in Objects : NsOf[o] = ClusterScope <=> Kind[o] <= Namespace
  /\ \A o \in Objects : Target[o] # None =>
        /\ Target[o] \in Objects
        /\ Kind[Target[o]] \in Indexed /\ Kind[Target[o]] < Kind[o]
  /\ ClusterScope \notin Objects /\ None \notin Objects
  BY CollectorAssumption DEF Scopes, OfKind, Indexed

\* Moving on: the kind just finished mirrors the cluster.
LEMMA FinishMirrors ==
  ASSUME Typed, Rooted, Fresh, ClusterDone, KindsDone, IdsDone, KindAtWork, Finish
  PROVE  ClusterDone' /\ KindsDone' /\ IdsDone' /\ KindAtWork'
<1>t. /\ stage \in Kinds /\ ids \subseteq Objects /\ keep \subseteq OfKind(stage)
  BY Zenon DEF Typed, TypeTick
<1>1. /\ pc = "upsert" /\ todo = {} /\ sweeping = {} /\ NextKind
      /\ UNCHANGED <<k8s, version, cluster, storedVersion, row, linked>>
  BY Zenon DEF Finish, kube, store
<1>2. \A o \in OfKind(stage) : o \in k8s <=> o \in keep
  BY <1>1, <1>t, Zenon DEF KindAtWork
<1>3. \A o \in OfKind(stage) : RowMirrors(o)
  BY <1>1, <1>2, Zenon DEF KindAtWork, RowMirrors, Leftover
<1>4. \A o \in OfKind(stage) : LinkMirrors(o)
  BY <1>1, <1>2, Zenon DEF KindAtWork, LinkMirrors
<1>5. \A o \in Objects : Kind[o] <= stage => RowMirrors(o) /\ LinkMirrors(o)
  <2> TAKE o \in Objects
  <2>1. CASE Kind[o] < stage
    BY <1>1, <2>1, Zenon DEF KindsDone, Done
  <2>2. CASE Kind[o] = stage
    BY <1>3, <1>4, <2>2, Zenon DEF OfKind
  <2> QED BY <2>1, <2>2, <1>t, Constants
<1>6. \A o \in Objects : (RowMirrors(o) => RowMirrors(o)') /\ (LinkMirrors(o) => LinkMirrors(o)')
  BY <1>1, Zenon DEF RowMirrors, LinkMirrors, LiveNamespace
<1>7. CASE stage = NetworkPolicy
  <2>1. pc' = "idle"
    BY <1>1, <1>7, Zenon DEF NextKind, Return
  <2>2. \A o \in Objects : Kind[o] <= stage
    BY <1>7, Constants
  <2> QED BY <1>1, <1>5, <1>6, <2>1, <2>2, Zenon DEF ClusterDone, KindsDone, IdsDone, KindAtWork
<1>8. CASE stage # NetworkPolicy
  <2>1. pc' = "list" /\ stage' = stage + 1 /\ UNCHANGED <<fetched, ids>>
    BY <1>1, <1>8, Zenon DEF NextKind
  <2>2. \A o \in Objects : Kind[o] < stage' => Kind[o] <= stage
    BY <2>1, <1>t, Constants
  <2>3. KindsDone'
    BY <1>5, <1>6, <2>1, <2>2, Zenon DEF KindsDone, Done
  <2>4. IdsDone'
    <3> SUFFICES ASSUME NEW o \in Objects, Kind[o] \in Indexed, Kind[o] <= stage
                 PROVE  o \in ids <=> o \in k8s
      BY <1>1, <2>1, <2>2, Zenon DEF IdsDone
    <3>1. CASE Kind[o] < stage
      BY <1>1, <3>1, Zenon DEF IdsDone
    <3>2. CASE Kind[o] = stage
      <4>1. o \in OfKind(stage)
        BY <3>2, Zenon DEF OfKind
      <4>2. o \in ids <=> o \in keep
        BY <1>1, <3>2, Zenon DEF KindAtWork, Rooted, IdsOK
      <4> QED BY <4>1, <4>2, <1>2, Zenon
    <3> QED BY <3>1, <3>2, <1>t, Constants
  <2> QED BY <1>1, <2>1, <2>3, <2>4, Zenon DEF ClusterDone, KindAtWork
<1> QED BY <1>7, <1>8, Zenon

\* A list call: every object of the kind is to be upserted, every leftover
\* row lies in a scope to be swept.
LEMMA ListMirrors ==
  ASSUME Typed, Rooted, Fresh, ClusterDone, KindsDone, IdsDone, List,
         rsOwners' = (IF stage = Pod THEN TRUE ELSE rsOwners)
  PROVE  ClusterDone' /\ KindsDone' /\ IdsDone' /\ KindAtWork'
<1>t. stage \in Kinds /\ ids \subseteq Objects /\ k8s \subseteq Objects
  BY Zenon DEF Typed, TypeTick, TypeRest
<1>1. /\ pc = "list" /\ pc' = "upsert"
      /\ UNCHANGED <<k8s, version, cluster, storedVersion, row, linked, stage, fetched, keep, ids>>
      /\ listed' = k8s \cap OfKind(stage)
      /\ todo' = {o \in listed' : NsOf[o] = ClusterScope \/ NsOf[o] \in nsMap}
      /\ sweeping' = Swept
  BY Zenon DEF List, kube, store
<1>2. keep = {}
  BY <1>1, Zenon DEF Typed, Phases
<1>3. ClusterDone' /\ IdsDone'
  BY <1>1, Zenon DEF ClusterDone, IdsDone
<1>4. KindsDone'
  BY <1>1, Zenon DEF KindsDone, Done, RowMirrors, LinkMirrors, LiveNamespace
<1>5. stage > Namespace => \A n \in OfKind(Namespace) : n \in nsMap <=> n \in k8s
  BY <1>1, Zenon DEF IdsDone, Indexed, nsMap, OfKind
<1>6. todo' = listed'
  <2> SUFFICES ASSUME NEW o \in listed' PROVE NsOf[o] = ClusterScope \/ NsOf[o] \in nsMap
    BY <1>1, Zenon
  <2>1. o \in k8s /\ o \in Objects /\ Kind[o] = stage
    BY <1>1, Zenon DEF OfKind
  <2>2. NsOf[o] = ClusterScope \/ NsOf[o] \in k8s
    BY <2>1, Zenon DEF Rooted, Consistent
  <2>3. CASE NsOf[o] # ClusterScope
    <3>1. NsOf[o] \in OfKind(Namespace) /\ stage > Namespace
      BY <2>1, <2>3, <1>t, Constants DEF OfKind
    <3> QED BY <3>1, <2>2, <2>3, <1>5, Zenon
  <2> QED BY <2>3, Zenon
<1>7. ASSUME NEW o \in OfKind(stage), Leftover(o) PROVE NsOf[o] \in Swept
  <2>1. o \in Objects /\ Kind[o] = stage
    BY Zenon DEF OfKind
  <2>2. LiveNamespace(o)
    BY <1>7, <2>1, Zenon DEF Leftover, Rooted, LiveRowsInLiveNamespaces
  <2>3. CASE stage <= Namespace
    <3>1. NsOf[o] = ClusterScope
      BY <2>1, <2>3, Constants, Zenon
    <3> QED BY <3>1, <2>3, <1>t DEF Swept, Fresh
  <2>4. CASE stage > Namespace
    <3>1. NsOf[o] \in Objects /\ Kind[NsOf[o]] = Namespace /\ row[NsOf[o]] = "live"
      BY <2>1, <2>2, <2>4, <1>t, Constants DEF LiveNamespace
    <3>2. RowMirrors(NsOf[o])
      BY <3>1, <2>4, <1>1, Zenon DEF KindsDone, Done
    <3>3. NsOf[o] \in k8s
      BY <3>1, <3>2 DEF RowMirrors
    <3>4. NsOf[o] \in nsMap
      BY <3>1, <3>3, <2>4, <1>5, Zenon DEF OfKind
    <3> QED BY <3>4, <2>4, <1>t DEF Swept, Fresh
  <2> QED BY <2>3, <2>4, <1>t
<1>8. stage' = Pod => rsOwners'
  BY <1>1, Zenon
<1>9. \A o \in OfKind(stage) : Leftover(o)' => Leftover(o)
  BY <1>1, Zenon DEF Leftover, LiveNamespace
<1>10. KindAtWork'
  BY <1>1, <1>2, <1>6, <1>7, <1>8, <1>9, Zenon DEF KindAtWork
<1> QED BY <1>3, <1>4, <1>10, Zenon

\* An upsert makes the row live and sets its link exactly when the object it
\* refers to exists.
LEMMA UpsertMirrors ==
  ASSUME Typed, Rooted, Fresh, ClusterDone, KindsDone, IdsDone, KindAtWork,
         NEW o \in Objects, UpsertDone(o)
  PROVE  ClusterDone' /\ KindsDone' /\ IdsDone' /\ KindAtWork'
<1>t. /\ stage \in Kinds /\ ids \subseteq Objects /\ row \in [Objects -> RowStates]
      /\ keep \subseteq OfKind(stage) /\ todo \subseteq OfKind(stage) /\ linked \subseteq Objects
  BY Zenon DEF Typed, TypeTick, TypeStore
<1>1. /\ pc = "upsert" /\ o \in todo /\ Write(o)
      /\ todo' = todo \ {o} /\ keep' = keep \cup {o}
      /\ UNCHANGED <<k8s, version, cluster, storedVersion, pc, stage, fetched, listed, sweeping,
                     rsOwners>>
      /\ ids' = IF stage \in Indexed THEN ids \cup {o} ELSE ids
  BY Zenon DEF UpsertDone, Upsert, kube
<1>2. Kind[o] = stage /\ o \in k8s
  BY <1>1, <1>t, Zenon DEF OfKind, KindAtWork
<1>3. /\ row' = [row EXCEPT ![o] = "live"]
      /\ \A x \in Objects : x # o => (x \in linked' <=> x \in linked)
      /\ o \in linked' <=> Resolves(o)
  BY <1>1, Zenon DEF Write
<1>4. LinkMirrors(o)'
  <2> SUFFICES ASSUME Target[o] # None PROVE o \in linked' <=> Target[o] \in k8s
    BY <1>1, Zenon DEF LinkMirrors
  <2>1. Target[o] \in Objects /\ Kind[Target[o]] \in Indexed /\ Kind[Target[o]] < stage
    BY <1>2, Constants, Zenon
  <2>2. Target[o] \in ids <=> Target[o] \in k8s
    BY <1>1, <2>1, Zenon DEF IdsDone
  <2>3. o \in ViaReplicaSet => rsOwners
    BY <1>1, <1>2, CollectorAssumption, Zenon DEF KindAtWork, OfKind
  <2> QED BY <1>3, <2>2, <2>3, Zenon DEF Resolves
<1>5. ASSUME NEW x \in Objects, x # o PROVE LinkMirrors(x) => LinkMirrors(x)'
  BY <1>1, <1>3, <1>5, Zenon DEF LinkMirrors
<1>6. KindsDone'
  <2> SUFFICES ASSUME NEW x \in Objects, Kind[x] < stage PROVE RowMirrors(x)' /\ LinkMirrors(x)'
    BY <1>1, Zenon DEF KindsDone, Done
  <2>1. x # o /\ RowMirrors(x) /\ LinkMirrors(x)
    BY <1>1, <1>2, <1>t DEF KindsDone, Done
  <2>a. Kind[x] \in Kinds
    BY Constants, Zenon
  <2>b. Kind[x] # NetworkPolicy
    BY <2>a, <1>t
  <2>2. Kind[x] # NetworkPolicy /\ row'[x] = row[x]
    BY <2>1, <2>b, <1>3
  <2>3. RowMirrors(x)'
    BY <2>1, <2>2, <1>1, Zenon DEF RowMirrors
  <2> QED BY <2>1, <2>3, <1>5, Zenon
<1>7. ClusterDone'
  BY <1>1, Zenon DEF ClusterDone
<1>8. IdsDone'
  BY <1>1, <1>2, Zenon DEF IdsDone
<1>9. \A x \in keep' : row'[x] = "live" /\ LinkMirrors(x)'
  <2> TAKE x \in keep'
  <2>1. CASE x = o
    BY <2>1, <1>3, <1>4, <1>t, Zenon
  <2>2. CASE x # o
    <3>1. x \in keep /\ x \in Objects
      BY <2>2, <1>1, <1>t, Zenon DEF OfKind
    <3> QED BY <3>1, <2>2, <1>1, <1>3, <1>5, <1>t, ZenonT(60) DEF KindAtWork
  <2> QED BY <2>1, <2>2, Zenon
<1>10. ASSUME NEW x \in OfKind(stage), Leftover(x)' PROVE NsOf[x] \in sweeping
  <2>1. x \in Objects /\ Kind[x] = stage /\ x \notin k8s /\ x # o /\ row[x] = "live"
    BY <1>10, <1>1, <1>2, <1>3, <1>t, ZenonT(60) DEF OfKind, Leftover
  <2>2. Kind[x] # NetworkPolicy \/ LiveNamespace(x)
    <3>1. CASE Kind[x] = NetworkPolicy
      <4>1. LiveNamespace(x)'
        BY <1>10, <3>1, ZenonT(60) DEF Leftover
      <4>2. NsOf[x] = ClusterScope \/ (NsOf[x] \in Objects /\ NsOf[x] # o)
        BY <3>1, <2>1, <1>2, Constants
      <4> QED BY <4>1, <4>2, <1>3, <1>t, Zenon DEF LiveNamespace
    <3> QED BY <3>1, Zenon
  <2>3. Leftover(x)
    BY <2>1, <2>2, Zenon DEF Leftover
  <2> QED BY <2>3, <1>1, Zenon DEF KindAtWork
<1>11. stage \in Indexed => keep' \subseteq ids'
  BY <1>1, Zenon DEF KindAtWork
<1>12. stage = Pod => rsOwners
  BY <1>1, Zenon DEF KindAtWork
<1>13. listed = k8s \cap OfKind(stage) /\ listed = todo' \cup keep'
  BY <1>1, Zenon DEF KindAtWork
<1>14. KindAtWork'
  BY <1>1, <1>9, <1>10, <1>11, <1>12, <1>13, Zenon DEF KindAtWork
<1> QED BY <1>6, <1>7, <1>8, <1>14, Zenon

\* A sweep takes the leftover rows of its scope away and no kept row.
LEMMA SweepMirrors ==
  ASSUME Typed, Rooted, Fresh, ClusterDone, KindsDone, IdsDone, KindAtWork,
         NEW s \in Scopes, Sweep(s)
  PROVE  ClusterDone' /\ KindsDone' /\ IdsDone' /\ KindAtWork'
<1>t. /\ stage \in Kinds /\ row \in [Objects -> RowStates]
      /\ keep \subseteq OfKind(stage) /\ linked \subseteq Objects
      /\ \A x \in Stale(s) : x \in Objects /\ Kind[x] = stage /\ x \notin keep
  BY Zenon DEF Typed, TypeTick, TypeStore, Stale, OfKind
<1>1. /\ pc = "upsert" /\ todo = {} /\ sweeping' = sweeping \ {s} /\ DeleteNotIn(s)
      /\ UNCHANGED <<k8s, version, cluster, storedVersion, pc, stage, fetched, listed, todo,
                     keep, ids, rsOwners>>
  BY Zenon DEF Sweep, kube
<1>e. DeleteEffect(s)
  BY <1>1, DeleteNotInEffect, TypeParts, Zenon
<1>2. ASSUME NEW x \in Objects, Kind[x] <= stage, x \notin Stale(s)
      PROVE  row'[x] = row[x] /\ (x \in linked' <=> x \in linked)
  <2>k. Kind[x] \in Kinds /\ ClusterScope \notin Objects
    BY Constants, Zenon
  <2>n. NsOf[x] = ClusterScope <=> Kind[x] <= Namespace
    BY Constants, Zenon
  <2>1. ~(stage = Namespace /\ NsOf[x] \in Stale(s))
    BY <1>2, <2>k, <2>n, <1>t, Zenon
  <2>2. row'[x] = row[x]
    BY <2>1, <1>2, <1>e, Zenon DEF DeleteEffect
  <2>a. ~(Kind[x] > stage)
    BY <1>2, <2>k, <1>t
  <2>3. x \in linked => x \in linked'
    BY <2>a, <1>2, <1>e, Zenon DEF DeleteEffect
  <2> QED BY <2>2, <2>3, <1>e, Zenon DEF DeleteEffect
<1>3. KindsDone'
  <2> SUFFICES ASSUME NEW x \in Objects, Kind[x] < stage PROVE RowMirrors(x)' /\ LinkMirrors(x)'
    BY <1>1, Zenon DEF KindsDone, Done
  <2>a. Kind[x] \in Kinds
    BY Constants, Zenon
  <2>b. Kind[x] <= stage /\ Kind[x] # stage /\ Kind[x] # NetworkPolicy
    BY <2>a, <1>t
  <2>c. Done(x)
    BY <1>1, Zenon DEF Done
  <2>1. RowMirrors(x) /\ LinkMirrors(x)
    BY <2>c, Zenon DEF KindsDone
  <2>d. x \notin Stale(s)
    BY <2>b, <1>t, Zenon
  <2>2. row'[x] = row[x] /\ (x \in linked' <=> x \in linked)
    BY <1>2, <2>b, <2>d, Zenon
  <2> QED BY <2>1, <2>2, <2>b, <1>1, Zenon DEF RowMirrors, LinkMirrors
<1>4. ASSUME NEW x \in keep PROVE row'[x] = "live" /\ LinkMirrors(x)'
  <2>1. x \in Objects /\ Kind[x] = stage /\ x \notin Stale(s)
    BY <1>t, Zenon DEF OfKind
  <2>2. row[x] = "live" /\ LinkMirrors(x)
    BY <1>1, ZenonT(60) DEF KindAtWork
  <2>3. row'[x] = row[x] /\ (x \in linked' <=> x \in linked)
    BY <2>1, <1>2, <1>t
  <2> QED BY <2>2, <2>3, <1>1, Zenon DEF LinkMirrors
<1>5. ASSUME NEW x \in OfKind(stage), Leftover(x)' PROVE NsOf[x] \in sweeping'
  <2>1. x \in Objects /\ Kind[x] = stage /\ x \notin k8s /\ row'[x] = "live"
    BY <1>5, <1>1, Zenon DEF OfKind, Leftover
  <2>2. x \notin Stale(s) /\ row[x] = "live"
    BY <2>1, <1>e, Zenon DEF DeleteEffect
  <2>3. x \notin keep
    BY <2>1, <1>1, Zenon DEF KindAtWork
  <2>4. NsOf[x] # s
    BY <2>2, <2>3, <1>5, Zenon DEF Stale
  <2>5. Kind[x] # NetworkPolicy \/ LiveNamespace(x)
    <3>1. CASE Kind[x] = NetworkPolicy
      <4>1. LiveNamespace(x)'
        BY <1>5, <3>1, ZenonT(60) DEF Leftover
      <4>2. NsOf[x] = ClusterScope \/ (NsOf[x] \in Objects /\ Kind[NsOf[x]] < stage)
        BY <3>1, <2>1, Constants
      <4>3. CASE NsOf[x] # ClusterScope
        <5>1. row'[NsOf[x]] = "live" /\ NsOf[x] \in Objects
          BY <4>1, <4>2, <4>3, Zenon DEF LiveNamespace
        <5>2. row[NsOf[x]] = "live"
          BY <5>1, <1>e, Zenon DEF DeleteEffect
        <5> QED BY <5>2, Zenon DEF LiveNamespace
      <4> QED BY <4>3, Zenon DEF LiveNamespace
    <3> QED BY <3>1, Zenon
  <2>6. Leftover(x)
    BY <2>1, <2>2, <2>5, Zenon DEF Leftover
  <2> QED BY <2>4, <2>6, <1>1, Zenon DEF KindAtWork
<1>6. ClusterDone' /\ IdsDone'
  BY <1>1, Zenon DEF ClusterDone, IdsDone
<1>7. stage = Pod => rsOwners
  BY <1>1, Zenon DEF KindAtWork
<1>8. /\ listed = k8s \cap OfKind(stage) /\ listed = todo \cup keep
      /\ stage \in Indexed => keep \subseteq ids
  BY <1>1, Zenon DEF KindAtWork
<1>9. KindAtWork'
  BY <1>1, <1>4, <1>5, <1>7, <1>8, Zenon DEF KindAtWork
<1> QED BY <1>3, <1>6, <1>9, Zenon

\* Without administrators no foreign key refuses an upsert.
LEMMA AlwaysWritable ==
  ASSUME Typed, Rooted, NEW o \in Objects
  PROVE  Writable(o)
  BY Zenon DEF Writable, Resolves, Rooted, IdsOK

\* A clean tick keeps the mirror growing.
LEMMA MirrorStep ==
  ASSUME NoAdminDeletes
  PROVE  Typed /\ Rooted /\ MirrorSoFar /\ [Next]_vars => MirrorSoFar'
<1> SUFFICES ASSUME Typed, Rooted, MirrorSoFar, [Next]_vars, Fresh'
             PROVE  ClusterDone' /\ KindsDone' /\ IdsDone' /\ KindAtWork'
  BY Zenon DEF MirrorSoFar
<1>0. TypeOK
  BY TypeParts, Zenon
<1>1. ASSUME UNCHANGED <<quiet, faultless>>
      PROVE  Fresh /\ ClusterDone /\ KindsDone /\ IdsDone /\ KindAtWork
  BY <1>1, Zenon DEF Fresh, MirrorSoFar
<1>2. ~Fault /\ ~Change
  BY Zenon DEF Fault, Change, Fresh
<1>3. CASE UNCHANGED vars
  <2>1. UNCHANGED <<k8s, version, cluster, storedVersion, row, linked, pc, stage, fetched,
                    listed, todo, keep, sweeping, ids, rsOwners, quiet, faultless>>
    BY <1>3, Zenon DEF vars, kube, store, tick
  <2>2. Fresh /\ ClusterDone /\ KindsDone /\ IdsDone /\ KindAtWork
    BY <1>1, <2>1, Zenon
  <2>3. ClusterDone' /\ IdsDone'
    BY <2>1, <2>2, Zenon DEF ClusterDone, IdsDone
  <2>4. KindsDone'
    BY <2>1, <2>2, Zenon DEF KindsDone, Done, RowMirrors, LinkMirrors, LiveNamespace
  <2>5. KindAtWork'
    BY <2>1, <2>2, Zenon DEF KindAtWork, Leftover, LinkMirrors, LiveNamespace
  <2> QED BY <2>3, <2>4, <2>5, Zenon
<1>4. CASE KubeStep \/ AdminStep
  BY <1>2, <1>4, Zenon DEF KubeStep, Upgrade, CreateObject, DeleteObject, AdminStep, SoftDeleteCluster,
     SoftDeleteNamespace, DeleteRow, Administers
<1>5. CASE Poll
  BY <1>5, Zenon DEF Poll, ClusterDone, KindsDone, Done, IdsDone, KindAtWork, kube
<1>6. CASE EnsureCluster \/ UpdateCluster
  <2>1. /\ pc \in {"ensure", "update"} /\ pc' \in {"update", "list"}
        /\ UNCHANGED <<k8s, version, row, linked, stage, fetched, ids, quiet, faultless>>
    BY <1>6, Zenon DEF EnsureCluster, UpdateCluster, NoFault, kube
  <2>2. stage = Node
    BY <2>1, Zenon DEF Typed, Phases
  <2>3. ClusterDone'
    BY <1>1, <1>6, <2>1, Zenon DEF EnsureCluster, UpdateCluster, ClusterDone
  <2>4. ASSUME NEW o \in Objects PROVE ~(Kind[o] < stage)
    <3>1. Kind[o] \in Kinds
      BY Constants, Zenon
    <3> QED BY <3>1, <2>2
  <2> QED BY <2>1, <2>3, <2>4, Zenon DEF KindsDone, Done, IdsDone, KindAtWork
<1>7. CASE \/ ServerVersionFails \/ EnsureClusterFails \/ UpdateClusterFails \/ ListFails
           \/ \E s \in Scopes : SweepFails(s)
  BY <1>2, <1>7, Zenon DEF ServerVersionFails, EnsureClusterFails, UpdateClusterFails, ListFails,
     SweepFails
<1>8. CASE Ingested
  <2>1. /\ NoFault /\ List
        /\ rsOwners' = (IF stage = Pod THEN TRUE ELSE rsOwners)
    BY <1>2, <1>8, Zenon DEF Ingested
  <2> QED BY <1>1, <2>1, ListMirrors, Zenon DEF NoFault
<1>9. ASSUME NEW o \in Objects, UpsertDone(o)
      PROVE  ClusterDone' /\ KindsDone' /\ IdsDone' /\ KindAtWork'
  <2>1. UNCHANGED <<quiet, faultless>>
    BY <1>9, Zenon DEF UpsertDone, Upsert, NoFault
  <2> QED BY <1>1, <1>9, <2>1, UpsertMirrors, Zenon
<1>10. ASSUME NEW o \in Objects, UpsertFails(o) \/ UpsertNetworkPolicyFails(o) PROVE FALSE
  BY <1>2, <1>10, AlwaysWritable, Zenon DEF UpsertFails, UpsertNetworkPolicyFails, UpsertError
<1>11. ASSUME NEW s \in Scopes, Sweep(s)
       PROVE  ClusterDone' /\ KindsDone' /\ IdsDone' /\ KindAtWork'
  <2>1. UNCHANGED <<quiet, faultless>>
    BY <1>11, Zenon DEF Sweep, NoFault
  <2> QED BY <1>1, <1>11, <2>1, SweepMirrors, Zenon
<1>12. CASE Finish
  <2>1. UNCHANGED <<quiet, faultless>>
    BY <1>12, Zenon DEF Finish, NoFault
  <2> QED BY <1>1, <1>12, <2>1, FinishMirrors, Zenon
<1>13. CASE CollectorStep
  BY <1>0, <1>5, <1>6, <1>7, <1>8, <1>9, <1>10, <1>11, <1>12, <1>13, StepCases, ZenonT(60)
<1> QED BY <1>3, <1>4, <1>13, Zenon DEF Next

(* For every cluster, every history of failed ticks and every interleaving *)
(* with the cluster's own changes: after a tick without failures or        *)
(* interference the CMDB is an exact mirror of the cluster.                *)
THEOREM CleanTickMirrors == NoAdminDeletes => (Spec => []MirrorAfterCleanTick)
<1> SUFFICES ASSUME NoAdminDeletes PROVE Spec => []MirrorAfterCleanTick
  BY Zenon
<1>1. Init => Typed /\ Rooted /\ MirrorSoFar
  <2>1. Init => MirrorSoFar
    BY Zenon DEF Init, MirrorSoFar, Fresh
  <2> QED BY <2>1, TypeInit, RootedInit, Zenon
<1>2. Typed /\ Rooted /\ MirrorSoFar /\ [Next]_vars => (Typed /\ Rooted /\ MirrorSoFar)'
  BY TypeStep, RootedStep, MirrorStep, Zenon
<1>3. MirrorSoFar => MirrorAfterCleanTick
  BY Zenon DEF MirrorSoFar, Fresh, ClusterDone, KindsDone, Done, MirrorAfterCleanTick, CleanTick,
     Mirrored
<1> QED BY <1>1, <1>2, <1>3, PTL DEF Spec

-----------------------------------------------------------------------------
(* What a tick may take away.                                              *)

\* While nobody changes the cluster, the list the loop works on is exact.
ListExact ==
    /\ Consistent(k8s)
    /\ quiet /\ pc = "upsert" => listed = k8s \cap OfKind(stage)

\* The loop over network policies upserts what it does not skip, and only
\* known namespaces are swept.
PolicyLoop ==
    (pc = "upsert" /\ stage = NetworkPolicy) =>
        /\ sweeping \subseteq nsMap
        /\ \A o \in listed : NsOf[o] \in nsMap => o \in todo \cup keep

LEMMA LoopInit == Init => ListExact /\ PolicyLoop
  BY Zenon DEF Init, ListExact, PolicyLoop

\* Every step keeps both, those of administrators included.
LEMMA LoopStep == Typed /\ ListExact /\ PolicyLoop /\ [Next]_vars => ListExact' /\ PolicyLoop'
<1> SUFFICES ASSUME Typed, ListExact, PolicyLoop, [Next]_vars PROVE ListExact' /\ PolicyLoop'
  BY Zenon
<1>0. TypeOK
  BY TypeParts, Zenon
<1>1. ASSUME UNCHANGED <<k8s, listed, stage, ids, todo, keep, sweeping>>,
             pc' = "upsert" => pc = "upsert", quiet' /\ pc' = "upsert" => quiet
      PROVE  ListExact' /\ PolicyLoop'
  <2>1. ListExact'
    BY <1>1, Zenon DEF ListExact, Consistent
  <2>2. PolicyLoop'
    BY <1>1, Zenon DEF PolicyLoop, nsMap
  <2> QED BY <2>1, <2>2, Zenon
<1>2. ASSUME pc' # "upsert", UNCHANGED k8s PROVE ListExact' /\ PolicyLoop'
  BY <1>2, Zenon DEF ListExact, PolicyLoop, Consistent
<1>3. CASE UNCHANGED vars
  BY <1>1, <1>3, Zenon DEF vars, kube, tick
<1>4. CASE KubeStep
  <2>1. /\ ~quiet' /\ Consistent(k8s')
        /\ UNCHANGED <<pc, listed, stage, ids, todo, keep, sweeping>>
    BY <1>4, Zenon DEF KubeStep, Upgrade, CreateObject, DeleteObject, Change, tick, ListExact
  <2>2. ListExact'
    BY <2>1, Zenon DEF ListExact, Consistent
  <2>3. PolicyLoop'
    BY <2>1, Zenon DEF PolicyLoop, nsMap
  <2> QED BY <2>2, <2>3, Zenon
<1>5. CASE AdminStep
  <2>1. UNCHANGED <<k8s, pc, listed, stage, ids, todo, keep, sweeping>> /\ ~quiet'
    BY <1>5, Zenon DEF AdminStep, SoftDeleteCluster, SoftDeleteNamespace, DeleteRow, Administers,
       Change, tick, kube
  <2> QED BY <1>1, <2>1, Zenon
<1>6. CASE Poll \/ ServerVersionFails \/ EnsureCluster \/ UpdateCluster
  <2>1. pc' # "upsert" /\ UNCHANGED k8s
    BY <1>6, Zenon DEF Poll, ServerVersionFails, EnsureCluster, UpdateCluster, kube, tick
  <2> QED BY <1>2, <2>1, Zenon
<1>7. ASSUME NextKind \/ Return, UNCHANGED k8s PROVE ListExact' /\ PolicyLoop'
  BY <1>2, <1>7, Zenon DEF NextKind, Return
<1>8. CASE EnsureClusterFails \/ UpdateClusterFails \/ ListFails \/ Finish
  BY <1>7, <1>8, Zenon DEF EnsureClusterFails, UpdateClusterFails, ListFails, Finish, kube
<1>9. CASE Ingested
  <2>1. /\ UNCHANGED <<k8s, stage, ids, keep>>
        /\ listed' = k8s \cap OfKind(stage)
        /\ todo' = {o \in listed' : NsOf[o] = ClusterScope \/ NsOf[o] \in nsMap}
        /\ sweeping' = Swept
    BY <1>9, Zenon DEF Ingested, List, kube
  <2>2. ListExact'
    BY <2>1, Zenon DEF ListExact, Consistent
  <2>3. PolicyLoop'
    BY <2>1, Zenon DEF PolicyLoop, nsMap, Swept
  <2> QED BY <2>2, <2>3, Zenon
<1>10. ASSUME NEW o \in Objects, UpsertDone(o) \/ UpsertFails(o)
       PROVE  ListExact' /\ PolicyLoop'
  <2>1. UNCHANGED <<k8s, pc, stage, listed, sweeping, quiet>>
    BY <1>10, Zenon DEF UpsertDone, Upsert, UpsertFails, UpsertError, NoFault, Fault, kube
  <2>2. stage = NetworkPolicy => ids' = ids /\ todo \cup keep \subseteq todo' \cup keep'
    BY <1>10 DEF UpsertDone, Upsert, UpsertFails, Indexed
  <2>3. ListExact'
    BY <2>1, Zenon DEF ListExact, Consistent
  <2>4. PolicyLoop'
    BY <2>1, <2>2, Zenon DEF PolicyLoop, nsMap
  <2> QED BY <2>3, <2>4, Zenon
<1>11. ASSUME NEW o \in Objects, UpsertNetworkPolicyFails(o) PROVE ListExact' /\ PolicyLoop'
  BY <1>7, <1>11, Zenon DEF UpsertNetworkPolicyFails, UpsertError, kube
<1>12. ASSUME NEW s \in Scopes, Sweep(s) \/ SweepFails(s) PROVE ListExact' /\ PolicyLoop'
  <2>1. /\ UNCHANGED <<k8s, pc, stage, listed, quiet, ids, todo, keep>>
        /\ sweeping' \subseteq sweeping
    BY <1>12, Zenon DEF Sweep, SweepFails, NoFault, Fault, kube
  <2>2. ListExact'
    BY <2>1, Zenon DEF ListExact, Consistent
  <2>3. PolicyLoop'
    BY <2>1, Zenon DEF PolicyLoop, nsMap
  <2> QED BY <2>2, <2>3, Zenon
<1>13. CASE CollectorStep
  BY <1>0, <1>6, <1>8, <1>9, <1>10, <1>11, <1>12, <1>13, StepCases, Zenon
<1> QED BY <1>3, <1>4, <1>5, <1>13, Zenon DEF Next

\* A row stops being live only in a reconcile call or by an administrator.
LEMMA OnlySweepsRemove ==
  ASSUME Typed, [Next]_vars, NEW o \in Objects, row[o] = "live", row'[o] # "live"
  PROVE  \/ AdminStep
         \/ \E s \in Scopes :
               pc = "upsert" /\ todo = {} /\ s \in sweeping /\ DeleteNotIn(s)
<1>0. TypeOK /\ row \in [Objects -> RowStates]
  BY TypeParts, Zenon DEF Typed, TypeStore
<1>1. ~UNCHANGED row
  BY Zenon
<1>2. \A x \in Objects : ~Write(x)
  BY <1>0, Zenon DEF Write
<1>3. ~UNCHANGED vars /\ ~KubeStep
  BY <1>1, Zenon DEF vars, store, KubeStep, Upgrade, CreateObject, DeleteObject
<1>4. CASE CollectorStep
  <2>1. ~(\/ Poll \/ ServerVersionFails \/ EnsureCluster \/ EnsureClusterFails
          \/ UpdateCluster \/ UpdateClusterFails \/ Ingested \/ ListFails \/ Finish)
    BY <1>1, Zenon DEF Poll, ServerVersionFails, EnsureCluster, EnsureClusterFails, UpdateCluster,
       UpdateClusterFails, Ingested, List, ListFails, Finish, store
  <2>2. \A x \in Objects :
           ~UpsertDone(x) /\ ~UpsertFails(x) /\ ~UpsertNetworkPolicyFails(x)
    BY <1>1, <1>2, Zenon DEF UpsertDone, Upsert, UpsertFails, UpsertNetworkPolicyFails, UpsertError
  <2>3. PICK s \in Scopes : Sweep(s) \/ SweepFails(s)
    BY <1>0, <1>4, <2>1, <2>2, StepCases, Zenon
  <2> QED BY <1>1, <2>3, Zenon DEF Sweep, SweepFails
<1> QED BY <1>3, <1>4, Zenon DEF Next

(* While nobody else interferes, a tick takes the row of an existing       *)
(* object away only if that object, or its namespace, was listed and could *)
(* not be upserted, whatever calls fail.                                   *)
THEOREM ExistingRowsKept == Spec => ExistingRowsSurvive
<1>1. Init => Typed /\ ListExact /\ PolicyLoop
  BY TypeInit, LoopInit, Zenon
<1>2. Typed /\ ListExact /\ PolicyLoop /\ [Next]_vars
         => (Typed /\ ListExact /\ PolicyLoop)'
  BY TypeStep, LoopStep, Zenon
<1> DEFINE Survives == \A o \in k8s :
             (quiet' /\ row[o] = "live" /\ row'[o] # "live") =>
                (listed \ keep) \cap {o, NsOf[o]} # {}
<1>3. Typed /\ ListExact /\ [Next]_vars => Survives
  <2> SUFFICES ASSUME Typed, ListExact, [Next]_vars, NEW o \in k8s,
                      quiet', row[o] = "live", row'[o] # "live"
               PROVE  o \in listed \ keep \/ NsOf[o] \in listed \ keep
    BY Zenon
  <2>1. o \in Objects /\ TypeOK
    BY TypeParts, Zenon DEF Typed, TypeRest
  <2>2. ~AdminStep
    BY Zenon DEF AdminStep, SoftDeleteCluster, SoftDeleteNamespace, DeleteRow, Administers, Change
  <2>3. PICK s \in Scopes : pc = "upsert" /\ s \in sweeping /\ DeleteNotIn(s)
    BY <2>1, <2>2, OnlySweepsRemove, Zenon
  <2>4. \/ o \in Stale(s)
        \/ stage = Namespace /\ NsOf[o] \in Stale(s)
    BY <2>1, <2>3, DeleteNotInEffect, Zenon DEF DeleteEffect
  <2>5. quiet
    <3>1. CASE Poll
      BY <3>1, <2>3, Zenon DEF Poll
    <3>2. CASE ~Poll
      <4>1. CASE UNCHANGED vars
        BY <4>1, Zenon DEF vars
      <4>2. CASE KubeStep
        BY <4>2, Zenon DEF KubeStep, Upgrade, CreateObject, DeleteObject, Change
      <4>3. CASE CollectorStep
        <5>1. Fault \/ NoFault
          BY <2>1, <3>2, <4>3, StepCases, Zenon DEF ServerVersionFails, EnsureCluster,
             EnsureClusterFails, UpdateCluster, UpdateClusterFails, Ingested, ListFails,
             UpsertDone, Upsert, UpsertFails, UpsertNetworkPolicyFails, UpsertError, Sweep,
             SweepFails, Finish
        <5> QED BY <5>1, Zenon DEF Fault, NoFault
      <4> QED BY <4>1, <4>2, <4>3, <2>2, Zenon DEF Next
    <3> QED BY <3>1, <3>2, Zenon
  <2>6. listed = k8s \cap OfKind(stage)
    BY <2>3, <2>5, Zenon DEF ListExact
  <2>7. CASE o \in Stale(s)
    BY <2>6, <2>7, Zenon DEF Stale
  <2>8. CASE NsOf[o] \in Stale(s)
    <3>1. NsOf[o] \in k8s
      <4>1. NsOf[o] \in Objects
        BY <2>8, Zenon DEF Stale, OfKind
      <4> QED BY <4>1, CollectorAssumption, Zenon DEF ListExact, Consistent
    <3> QED BY <3>1, <2>6, <2>8, Zenon DEF Stale
  <2> QED BY <2>4, <2>7, <2>8, Zenon
<1>4. Typed /\ ListExact /\ [Next]_vars => [Survives]_vars
  BY <1>3, Zenon
<1> HIDE DEF Survives
<1>5. Spec => [][Survives]_vars
  BY <1>1, <1>2, <1>4, PTL DEF Spec
<1> QED BY <1>5, Zenon DEF Survives, ExistingRowsSurvive

(* No tick ever sweeps a network policy that its list call returned,       *)
(* whatever fails and whoever interferes.                                  *)
THEOREM PoliciesKept == Spec => ListedPoliciesKept
<1>1. Init => Typed /\ ListExact /\ PolicyLoop
  BY TypeInit, LoopInit, Zenon
<1>2. Typed /\ ListExact /\ PolicyLoop /\ [Next]_vars
         => (Typed /\ ListExact /\ PolicyLoop)'
  BY TypeStep, LoopStep, Zenon
<1> DEFINE Kept == \A o \in listed :
             (Kind[o] = NetworkPolicy /\ row[o] = "live") => row'[o] = "live"
<1>3. Typed /\ PolicyLoop /\ [Next]_vars => Kept
  <2> SUFFICES ASSUME Typed, PolicyLoop, [Next]_vars, NEW o \in listed,
                      Kind[o] = NetworkPolicy, row[o] = "live", row'[o] # "live"
               PROVE  FALSE
    BY Zenon
  <2>1. /\ o \in Objects /\ stage = NetworkPolicy /\ TypeOK
        /\ row \in [Objects -> RowStates]
    BY TypeParts, Zenon DEF Typed, TypeTick, TypeStore, OfKind
  <2>2. CASE AdminStep
    <3>1. CASE SoftDeleteCluster
      <4>a. Kind[o] \notin {Pod, Service, Ingress, PersistentVolumeClaim, PersistentVolume}
        OBVIOUS
      <4>1. o \notin HardChildren(OfKind(Namespace)) \cup OfKind(PersistentVolume)
        BY <4>a, Zenon DEF HardChildren, OfKind
      <4> QED BY <3>1, <4>1, <2>1, ZenonT(60) DEF SoftDeleteCluster
    <3>2. ASSUME NEW n \in Objects, SoftDeleteNamespace(n) PROVE FALSE
      <4>1. o \notin HardChildren({n})
        BY DEF HardChildren
      <4>2. o # n
        BY <3>2 DEF SoftDeleteNamespace
      <4> QED BY <3>2, <4>1, <4>2, <2>1 DEF SoftDeleteNamespace, CascadeNamespaces, Cascaded
    <3>3. ASSUME NEW x \in Objects, DeleteRow(x) PROVE FALSE
      BY <3>3, <2>1, Zenon DEF DeleteRow, HardDelete, Removed
    <3> QED BY <2>2, <3>1, <3>2, <3>3, Zenon DEF AdminStep
  <2>3. ASSUME NEW s \in Scopes, pc = "upsert", todo = {}, s \in sweeping, DeleteNotIn(s)
        PROVE  FALSE
    <3>1. o \in Stale(s)
      BY <2>1, <2>3, DeleteNotInEffect, Zenon DEF DeleteEffect
    <3>2. NsOf[o] \in nsMap /\ o \notin keep
      BY <2>1, <2>3, <3>1, Zenon DEF Stale, PolicyLoop
    <3> QED BY <2>1, <2>3, <3>2, Zenon DEF PolicyLoop
  <2> QED BY <2>1, <2>2, <2>3, OnlySweepsRemove, Zenon
<1>4. Typed /\ PolicyLoop /\ [Next]_vars => [Kept]_vars
  BY <1>3, Zenon
<1> HIDE DEF Kept
<1>5. Spec => [][Kept]_vars
  BY <1>1, <1>2, <1>4, PTL DEF Spec
<1> QED BY <1>5, Zenon DEF Kept, ListedPoliciesKept

-----------------------------------------------------------------------------
(***************************************************************************)
(* The Kyverno stage, for every set of resources, namespaces and bound on  *)
(* changes and faults.                                                     *)
(*                                                                         *)
(* The inductive invariant follows the stage through one family: what was  *)
(* listed is kept, still to come or in a dirty scope; while nothing        *)
(* changes it is what exists; and the scopes swept hold kept rows only.    *)
(***************************************************************************)

\* Where a scope of the tick is swept.
TickScopes == known \cup {ClusterScope}

\* What the stage holds of the current family: everything it listed is kept,
\* still to come, or in a scope that is not going to be swept.
StageSound ==
    /\ KyvernoTypeOK
    /\ \A r \in seen : Family[r] = family
    /\ \A r \in seen : ScopeOf[r] \in TickScopes =>
          r \in pending \cup swept \/ ScopeOf[r] \in dirty
    /\ \A r \in swept : policyRow[r] = "collector"
    /\ kpc \in {"listCluster", "listNamespaced", "sweep"} => pending = {}
    /\ kpc \in {"idle", "settings", "listCluster"} => seen = {} /\ dirty = {}
    /\ scopesLeft \subseteq TickScopes \ dirty
    /\ kpc # "sweep" => scopesLeft = {}

\* While nothing changes, what was listed is what exists.
SeenExact ==
    steady => \A r \in Resources :
        /\ r \in seen => r \in policies
        /\ (r \in policies /\ Family[r] = family) =>
              /\ (kpc \in {"upsertCluster", "listNamespaced", "upsertNamespaced", "sweep"}
                    /\ ScopeOf[r] = ClusterScope) => r \in seen
              /\ (kpc \in {"upsertNamespaced", "sweep"} /\ ScopeOf[r] # ClusterScope) => r \in seen

\* The rows of resource r agree with the cluster.
RowExact(r) == ScopeOf[r] \in TickScopes => (policyRow[r] = "collector" <=> r \in policies)

\* What a stage without failures has achieved so far: the policies are exact
\* once the reports are under way, and the scopes swept hold kept rows only.
SweptSoFar ==
    (steady /\ unfailing) =>
        /\ dirty = {}
        /\ (kpc # "idle" /\ kpc # "settings") => enabled
        /\ (kpc \notin {"idle", "settings"} /\ family = "reports") =>
              \A r \in Resources : Family[r] = "policies" => RowExact(r)
        /\ kpc = "sweep" => \A r \in Resources :
              (Family[r] = family /\ ScopeOf[r] \in TickScopes \ scopesLeft
                 /\ policyRow[r] = "collector") => r \in swept
        /\ (kpc = "idle" /\ enabled) => \A r \in Resources : RowExact(r)

\* Every step of the composition is a step of Collector or leaves it alone.
LEMMA DaemonStepIsCollectorStep == [KyvernoNext]_daemonVars => [Next]_vars
<1> SUFFICES ASSUME [KyvernoNext]_daemonVars PROVE [Next]_vars
  BY Zenon
<1>1. CASE PollStep \/ OtherStep
  BY <1>1, Zenon DEF PollStep, OtherStep, Next
<1>2. CASE KyvernoStep
  BY <1>2, Zenon DEF KyvernoStep, IngestKyvernoPolicies, GetSettingsFails,
     ListKyvernoClusterPolicies, ListKyvernoPolicies, ListKyvernoFails, UpsertPolicy,
     UpsertPolicyFails, UpsertsDone, SweepPolicies, SweepPoliciesFails, NextScope,
     FamilyDone
<1>3. CASE CallerStep
  BY <1>3, Zenon DEF CallerStep, TogglePolicies, CreatePolicy, DeletePolicy, WriteByAPI,
     DeleteByAPI, HandleCreateClusterPolicy, HandleDeleteClusterPolicy,
     HandleCreatePolicyReport, HandleDeletePolicyReport, PolicyChange
<1>4. CASE UNCHANGED daemonVars
  BY <1>4, Zenon DEF daemonVars
<1> QED
  BY <1>1, <1>2, <1>3, <1>4, Zenon DEF KyvernoNext

\* The stages of Collector do in the daemon what Collector says of them: the
\* theorems about Collector hold of the composition with the Kyverno stage.
THEOREM DaemonImplementsCollector == KyvernoSpec => Spec
<1>1. KyvernoInit => Init
  BY Zenon DEF KyvernoInit
<1> QED
  BY <1>1, DaemonStepIsCollectorStep, PTL DEF KyvernoSpec, Spec

StageInv == StageSound /\ SeenExact /\ SweptSoFar

LEMMA StageInit == KyvernoInit => StageInv
<1> SUFFICES ASSUME KyvernoInit PROVE StageInv
  BY Zenon
<1>0. MaxChanges \in Nat /\ MaxFaults \in Nat
  BY CollectorAssumption, Zenon
<1>a. policies \subseteq Resources
  BY Zenon DEF KyvernoInit
<1>b. policyRow \in [Resources -> {"none", "api", "collector"}]
  BY Zenon DEF KyvernoInit
<1>c. policyChanges \in 0..MaxChanges /\ policyFaults \in 0..MaxFaults
  BY <1>0 DEF KyvernoInit
<1>d. enabled \in BOOLEAN /\ steady \in BOOLEAN /\ unfailing \in BOOLEAN
  BY Zenon DEF KyvernoInit
<1>1. KyvernoTypeOK
  BY <1>a, <1>b, <1>c, <1>d, Zenon DEF KyvernoInit, KyvernoTypeOK, Families
<1>2. StageSound
  BY <1>1, Zenon DEF KyvernoInit, StageSound
<1> QED
  BY <1>2, Zenon DEF KyvernoInit, StageInv, SeenExact, SweptSoFar

\* A new family, or the end of the stage, starts from an empty result.
LEMMA FreshFamily ==
  ASSUME StageInv, policyRow' = policyRow, policies' = policies, enabled' = enabled,
         steady' = steady, policyChanges' = policyChanges,
         policyFaults' \in 0..MaxFaults, unfailing' \in BOOLEAN,
         \/ StartFamily("policies") /\ enabled
         \/ /\ StartFamily("reports")
            /\ steady /\ unfailing' => /\ enabled
                                      /\ \A r \in Resources :
                                            Family[r] = "policies" => RowExact(r)
         \/ /\ EndStage
            /\ steady /\ unfailing' /\ enabled => \A r \in Resources : RowExact(r)
  PROVE  StageInv'
<1>1. /\ known' = known /\ seen' = {} /\ pending' = {} /\ swept' = {} /\ dirty' = {}
      /\ scopesLeft' = {}
      /\ kpc' \in {"idle", "listCluster"} /\ family' \in Families
  BY Zenon DEF StartFamily, EndStage, Families
<1>3. KyvernoTypeOK'
  BY <1>1, Zenon DEF StageInv, StageSound, KyvernoTypeOK
<1>4. StageSound'
  BY <1>1, <1>3, Zenon DEF StageSound
<1>5. SeenExact'
  BY <1>1, Zenon DEF SeenExact
<1>6. ASSUME NEW r \in Resources, RowExact(r) PROVE RowExact(r)'
  BY <1>1, <1>6, Zenon DEF RowExact, TickScopes
<1>7. SweptSoFar'
  <2> SUFFICES ASSUME steady, unfailing' PROVE SweptSoFar'
    BY Zenon DEF SweptSoFar
  <2>1. CASE StartFamily("policies") /\ enabled
    BY <2>1, <1>1, Zenon DEF SweptSoFar, StartFamily
  <2>2. CASE StartFamily("reports") /\ enabled /\ \A r \in Resources :
                Family[r] = "policies" => RowExact(r)
    BY <2>2, <1>1, <1>6, Zenon DEF SweptSoFar, StartFamily
  <2>3. CASE EndStage /\ (enabled => \A r \in Resources : RowExact(r))
    BY <2>3, <1>1, <1>6, Zenon DEF SweptSoFar, EndStage
  <2> QED
    BY <2>1, <2>2, <2>3, Zenon
<1> QED
  BY <1>4, <1>5, <1>7, Zenon DEF StageInv

LEMMA CallerStepStage == ASSUME TypeOK, StageInv, CallerStep PROVE StageInv'
<1>1. /\ steady' = FALSE /\ UNCHANGED stageVars /\ unfailing' = unfailing
      /\ policyFaults' = policyFaults /\ policyChanges' = policyChanges + 1
      /\ changes + policyChanges < MaxChanges
  BY Zenon DEF CallerStep, TogglePolicies, CreatePolicy, DeletePolicy, WriteByAPI, DeleteByAPI,
     HandleCreateClusterPolicy, HandleDeleteClusterPolicy, HandleCreatePolicyReport,
     HandleDeletePolicyReport, PolicyChange
<1>2. /\ policies' \subseteq Resources /\ enabled' \in BOOLEAN
      /\ policyRow' \in [Resources -> {"none", "api", "collector"}]
      /\ \A r \in Resources : policyRow[r] = "collector" => policyRow'[r] = "collector"
  BY ZenonT(60) DEF CallerStep, TogglePolicies, CreatePolicy, DeletePolicy, WriteByAPI, DeleteByAPI,
     HandleCreateClusterPolicy, HandleDeleteClusterPolicy, HandleCreatePolicyReport,
     HandleDeletePolicyReport, StageInv, StageSound, KyvernoTypeOK
<1>3. policyChanges' \in 0..MaxChanges
  <2>1. /\ policyChanges \in 0..MaxChanges /\ changes \in 0..MaxChanges
        /\ MaxChanges \in Nat
    BY CollectorAssumption, Zenon DEF StageInv, StageSound, KyvernoTypeOK, TypeOK
  <2>2. policyChanges < MaxChanges
    BY <1>1, <2>1
  <2> QED
    BY <1>1, <2>1, <2>2
<1>4. KyvernoTypeOK'
  BY <1>1, <1>2, <1>3, Zenon DEF StageInv, StageSound, KyvernoTypeOK, stageVars
<1>5. StageSound'
  BY <1>1, <1>2, <1>4, Zenon DEF StageInv, StageSound, KyvernoTypeOK, TickScopes, stageVars
<1> QED
  BY <1>1, <1>5, Zenon DEF StageInv, SeenExact, SweptSoFar

LEMMA UnchangedStage == ASSUME StageInv, UNCHANGED kyvernoVars PROVE StageInv'
BY ZenonT(60) DEF StageInv, StageSound, SeenExact, SweptSoFar, KyvernoTypeOK, TickScopes, RowExact,
   kyvernoVars, stageVars, ghosts

LEMMA PollStepStage == ASSUME StageInv, PollStep PROVE StageInv'
<1>1. CASE ~EntersStage
  BY <1>1, UnchangedStage, Zenon DEF PollStep, kyvernoVars, ghosts
<1>2. CASE EntersStage
  <2>1. /\ kpc = "idle" /\ kpc' = "settings" /\ known' = nsMap /\ steady' /\ unfailing'
        /\ UNCHANGED <<family, seen, pending, swept, dirty, scopesLeft>>
        /\ UNCHANGED <<policies, policyRow, enabled, policyChanges, policyFaults>>
        /\ steady' \in BOOLEAN /\ unfailing' \in BOOLEAN
    BY <1>2, Zenon DEF PollStep
  <2>2. nsMap \subseteq OfKind(Namespace)
    BY Zenon DEF nsMap
  <2>3. KyvernoTypeOK'
    BY <2>1, <2>2, Zenon DEF StageInv, StageSound, KyvernoTypeOK
  <2>4. StageSound'
    BY <2>1, <2>3, Zenon DEF StageInv, StageSound
  <2>5. SeenExact' /\ SweptSoFar'
    BY <2>1, Zenon DEF StageInv, StageSound, SeenExact, SweptSoFar
  <2> QED
    BY <2>4, <2>5, Zenon DEF StageInv
<1> QED
  BY <1>1, <1>2, Zenon

LEMMA PolicyFaultFacts ==
  ASSUME TypeOK, StageInv, PolicyFault
  PROVE  /\ policyFaults' \in 0..MaxFaults /\ unfailing' = FALSE
         /\ steady' = steady /\ policyChanges' = policyChanges
<1>1. /\ policyFaults \in 0..MaxFaults /\ faults \in 0..MaxFaults /\ MaxFaults \in Nat
  BY CollectorAssumption, Zenon DEF StageInv, StageSound, KyvernoTypeOK, TypeOK
<1>2. policyFaults < MaxFaults
  BY <1>1 DEF PolicyFault
<1> QED
  BY <1>1, <1>2 DEF PolicyFault

\* After a sweep without failures the rows of the family are exact.
LEMMA FamilyExact ==
  ASSUME StageInv, kpc = "sweep", scopesLeft = {}, steady, unfailing,
         NEW r \in Resources, Family[r] = family
  PROVE  RowExact(r)
<1> SUFFICES ASSUME ScopeOf[r] \in TickScopes
             PROVE  policyRow[r] = "collector" <=> r \in policies
  BY Zenon DEF RowExact
<1>1. ASSUME policyRow[r] = "collector" PROVE r \in policies
  BY <1>1, Zenon DEF StageInv, StageSound, KyvernoTypeOK, SeenExact, SweptSoFar
<1>2. ASSUME r \in policies PROVE policyRow[r] = "collector"
  <2>1. r \in seen
    BY <1>2, Zenon DEF StageInv, SeenExact
  <2>2. r \in swept
    BY <2>1, Zenon DEF StageInv, StageSound, SweptSoFar
  <2> QED
    BY <2>2, Zenon DEF StageInv, StageSound
<1> QED
  BY <1>1, <1>2, Zenon

LEMMA FamilyStepStage ==
  ASSUME TypeOK, StageInv,
         IngestKyvernoPolicies \/ GetSettingsFails \/ ListKyvernoFails \/ FamilyDone
  PROVE  StageInv'
<1>0. /\ policyFaults \in 0..MaxFaults /\ unfailing \in BOOLEAN /\ family \in Families
      /\ \A r \in Resources : Family[r] \in Families
  BY KyvernoAssumption, Zenon DEF StageInv, StageSound, KyvernoTypeOK
<1>1. CASE IngestKyvernoPolicies
  <2>1. /\ UNCHANGED <<policies, policyRow, enabled, steady, unfailing, policyChanges,
                       policyFaults>>
        /\ (StartFamily("policies") /\ enabled) \/ (EndStage /\ ~enabled)
    BY <1>1, Zenon DEF IngestKyvernoPolicies, ghosts
  <2> QED
    BY <1>0, <2>1, FreshFamily, Zenon
<1>2. CASE GetSettingsFails
  <2>1. UNCHANGED <<policies, policyRow, enabled>> /\ PolicyFault /\ EndStage
    BY <1>2, Zenon DEF GetSettingsFails
  <2> QED
    BY <2>1, PolicyFaultFacts, FreshFamily, Zenon
<1>3. CASE ListKyvernoFails
  <2>1. /\ UNCHANGED <<policies, policyRow, enabled>> /\ PolicyFault
        /\ StartFamily("reports") \/ EndStage
    BY <1>3, Zenon DEF ListKyvernoFails, NextFamily
  <2> QED
    BY <2>1, PolicyFaultFacts, FreshFamily, Zenon
<1>4. CASE FamilyDone
  <2>1. /\ UNCHANGED <<policies, policyRow, enabled, steady, unfailing, policyChanges,
                       policyFaults>>
        /\ kpc = "sweep" /\ scopesLeft = {}
        /\ \/ family = "policies" /\ StartFamily("reports")
           \/ family = "reports" /\ EndStage
    BY <1>0, <1>4, Zenon DEF FamilyDone, NextFamily, ghosts, Families
  <2>2. ASSUME steady, unfailing PROVE \A r \in Resources : Family[r] = family => RowExact(r)
    BY <2>1, <2>2, FamilyExact, Zenon
  <2>3. ASSUME steady, unfailing PROVE enabled
    BY <2>1, <2>3, Zenon DEF StageInv, SweptSoFar
  <2>4. CASE family = "policies" /\ StartFamily("reports")
    BY <1>0, <2>1, <2>2, <2>3, <2>4, FreshFamily, Zenon
  <2>5. CASE family = "reports" /\ EndStage
    <3>1. ASSUME steady, unfailing PROVE \A r \in Resources : RowExact(r)
      <4>1. \A r \in Resources : Family[r] = "policies" => RowExact(r)
        BY <2>1, <2>5, <3>1, Zenon DEF StageInv, SweptSoFar
      <4> QED
        BY <1>0, <2>2, <2>5, <3>1, <4>1, Zenon DEF Families
    <3> QED
      BY <1>0, <2>1, <2>5, <3>1, FreshFamily, Zenon
  <2> QED
    BY <2>1, <2>4, <2>5, Zenon
<1> QED
  BY <1>1, <1>2, <1>3, <1>4, Zenon

LEMMA ListStage ==
  ASSUME StageInv, ListKyvernoClusterPolicies \/ ListKyvernoPolicies
  PROVE  StageInv'
<1>0. /\ UNCHANGED <<policies, policyRow, enabled, family, known, swept, dirty, scopesLeft>>
      /\ UNCHANGED <<steady, unfailing, policyChanges, policyFaults>>
  BY Zenon DEF ListKyvernoClusterPolicies, ListKyvernoPolicies, ghosts
<1>1. CASE ListKyvernoClusterPolicies
  <2>1. /\ kpc = "listCluster" /\ kpc' = "upsertCluster" /\ pending' = seen'
        /\ seen' = {r \in Resources : /\ r \in policies /\ Family[r] = family
                                      /\ ScopeOf[r] = ClusterScope}
        /\ seen = {}
    BY <1>1, Zenon DEF ListKyvernoClusterPolicies, OfFamily, StageInv, StageSound
  <2>2. KyvernoTypeOK'
    BY <1>0, <2>1, Zenon DEF StageInv, StageSound, KyvernoTypeOK
  <2>3. StageSound'
    BY <1>0, <2>1, <2>2, Zenon DEF StageInv, StageSound, TickScopes
  <2>4. SeenExact' /\ SweptSoFar'
    BY <1>0, <2>1, Zenon DEF StageInv, SeenExact, SweptSoFar, RowExact, TickScopes
  <2> QED
    BY <2>3, <2>4, Zenon DEF StageInv
<1>2. CASE ListKyvernoPolicies
  <2> DEFINE found == {r \in Resources : /\ r \in policies /\ Family[r] = family
                                         /\ ScopeOf[r] # ClusterScope}
  <2>1. /\ kpc = "listNamespaced" /\ kpc' = "upsertNamespaced"
        /\ seen' = seen \cup found
        /\ pending' = {r \in found : ScopeOf[r] \in known}
        /\ pending = {}
    BY <1>2, Zenon DEF ListKyvernoPolicies, OfFamily, StageInv, StageSound
  <2>2. KyvernoTypeOK'
    BY <1>0, <2>1, Zenon DEF StageInv, StageSound, KyvernoTypeOK
  <2>3. \A r \in seen' : Family[r] = family
    BY <2>1, Zenon DEF StageInv, StageSound
  <2>4. \A r \in seen' : ScopeOf[r] \in TickScopes =>
           r \in pending' \cup swept \/ ScopeOf[r] \in dirty
    BY <2>1, Zenon DEF StageInv, StageSound, TickScopes
  <2>5. StageSound'
    BY <1>0, <2>1, <2>2, <2>3, <2>4, Zenon DEF StageInv, StageSound, TickScopes
  <2>6. SeenExact'
    BY <1>0, <2>1, Zenon DEF StageInv, SeenExact
  <2>7. SweptSoFar'
    BY <1>0, <2>1, Zenon DEF StageInv, SweptSoFar, RowExact, TickScopes
  <2> QED
    BY <2>5, <2>6, <2>7, Zenon DEF StageInv
<1> QED
  BY <1>1, <1>2, Zenon

\* The upserts end: the second list follows, or the sweep.
LEMMA UpsertsDoneStage == ASSUME StageInv, UpsertsDone PROVE StageInv'
<1>0. /\ UNCHANGED <<policies, policyRow, enabled, family, known, seen, pending, swept, dirty>>
      /\ UNCHANGED <<steady, unfailing, policyChanges, policyFaults>>
      /\ pending = {}
      /\ \/ kpc = "upsertCluster" /\ kpc' = "listNamespaced" /\ scopesLeft' = scopesLeft
         \/ /\ kpc = "upsertNamespaced" /\ kpc' = "sweep"
            /\ scopesLeft' = TickScopes \ dirty
  BY Zenon DEF UpsertsDone, Upserting, ghosts, TickScopes
<1>1. TickScopes \subseteq Scopes
  BY Zenon DEF TickScopes, Scopes, StageInv, StageSound, KyvernoTypeOK
<1>2. KyvernoTypeOK'
  BY <1>0, <1>1, Zenon DEF StageInv, StageSound, KyvernoTypeOK
<1>3. StageSound'
  BY <1>0, <1>2, Zenon DEF StageInv, StageSound, TickScopes
<1>4. SeenExact'
  BY <1>0, Zenon DEF StageInv, SeenExact
<1>5. SweptSoFar'
  BY <1>0, Zenon DEF StageInv, SweptSoFar, RowExact, TickScopes
<1> QED
  BY <1>3, <1>4, <1>5, Zenon DEF StageInv

LEMMA UpsertStage ==
  ASSUME TypeOK, StageInv, NEW r \in Resources, UpsertPolicy(r) \/ UpsertPolicyFails(r)
  PROVE  StageInv'
<1>0. /\ UNCHANGED <<policies, enabled, kpc, family, known, seen, scopesLeft, steady,
                     policyChanges>>
      /\ kpc \in {"upsertCluster", "upsertNamespaced"}
      /\ r \in pending /\ pending' = pending \ {r} /\ r \in seen
      /\ policyRow' \in {policyRow, [policyRow EXCEPT ![r] = "collector"]}
      /\ Family[r] = family
  BY Zenon DEF UpsertPolicy, UpsertPolicyFails, Upserting, ghosts, PolicyFault, StageInv,
     StageSound, KyvernoTypeOK
<1>1. \/ /\ policyRow' = [policyRow EXCEPT ![r] = "collector"]
         /\ swept' = swept \cup {r} /\ dirty' = dirty
         /\ unfailing' = unfailing /\ policyFaults' = policyFaults
      \/ /\ swept' = swept /\ dirty' = dirty \cup {ScopeOf[r]}
         /\ unfailing' = FALSE /\ policyFaults' \in 0..MaxFaults
  BY PolicyFaultFacts, Zenon DEF UpsertPolicy, UpsertPolicyFails, ghosts
<1>2. /\ policyRow' \in [Resources -> {"none", "api", "collector"}]
      /\ \A q \in Resources : policyRow[q] = "collector" => policyRow'[q] = "collector"
      /\ \A q \in Resources \ {r} : policyRow'[q] = policyRow[q]
  BY <1>0, Zenon DEF StageInv, StageSound, KyvernoTypeOK
<1>3. ScopeOf[r] \in Scopes
  BY KyvernoAssumption, Zenon
<1>4. KyvernoTypeOK'
  BY <1>0, <1>1, <1>2, <1>3, Zenon DEF StageInv, StageSound, KyvernoTypeOK
<1>5. scopesLeft = {}
  BY <1>0, Zenon DEF StageInv, StageSound
<1>6. StageSound'
  <2>1. \A q \in swept' : policyRow'[q] = "collector"
    BY <1>0, <1>1, <1>2 DEF StageInv, StageSound, KyvernoTypeOK
  <2>2. \A q \in seen : ScopeOf[q] \in TickScopes =>
           q \in pending' \cup swept' \/ ScopeOf[q] \in dirty'
    BY <1>0, <1>1, Zenon DEF StageInv, StageSound
  <2> QED
    BY <1>0, <1>4, <1>5, <2>1, <2>2, ZenonT(60) DEF StageInv, StageSound, TickScopes
<1>7. SeenExact'
  BY <1>0, Zenon DEF StageInv, SeenExact
<1>8. SweptSoFar'
  <2> SUFFICES ASSUME steady, unfailing' PROVE SweptSoFar'
    BY <1>0, Zenon DEF SweptSoFar
  <2>1. ASSUME NEW q \in Resources, Family[q] = "policies", RowExact(q), family = "reports"
        PROVE  RowExact(q)'
    BY <1>0, <1>2, <2>1, Zenon DEF RowExact, TickScopes
  <2> QED
    BY <1>0, <1>1, <2>1, Zenon DEF StageInv, SweptSoFar
<1> QED
  BY <1>6, <1>7, <1>8, Zenon DEF StageInv

\* A sweep takes rows of its scope only, and only rows that are not kept.
LEMMA SweepStage ==
  ASSUME TypeOK, StageInv, NEW s \in Scopes, SweepPolicies(s) \/ SweepPoliciesFails(s)
  PROVE  StageInv'
<1>0. /\ kpc = "sweep" /\ s \in scopesLeft /\ scopesLeft' = scopesLeft \ {s}
      /\ UNCHANGED <<policies, enabled, kpc, family, known, seen, pending, swept, dirty>>
      /\ steady' = steady /\ policyChanges' = policyChanges
  BY PolicyFaultFacts, Zenon DEF SweepPolicies, SweepPoliciesFails, NextScope, ghosts
<1>1. \/ DeletePoliciesNotIn(s) /\ unfailing' = unfailing /\ policyFaults' = policyFaults
      \/ /\ policyRow' = policyRow \/ DeletePoliciesNotIn(s)
         /\ unfailing' = FALSE /\ policyFaults' \in 0..MaxFaults
  BY PolicyFaultFacts, Zenon DEF SweepPolicies, SweepPoliciesFails, ghosts
<1>2. /\ policyRow' \in [Resources -> {"none", "api", "collector"}]
      /\ \A r \in Resources : policyRow'[r] # policyRow[r] =>
            /\ Family[r] = family /\ ScopeOf[r] = s /\ r \notin swept
            /\ policyRow[r] = "collector"
      /\ \A r \in Resources : policyRow'[r] = "collector" => policyRow[r] = "collector"
  BY <1>1, Zenon DEF DeletePoliciesNotIn, StageInv, StageSound, KyvernoTypeOK
<1>3. StageSound'
  <2>1. KyvernoTypeOK'
    BY <1>0, <1>1, <1>2, Zenon DEF StageInv, StageSound, KyvernoTypeOK
  <2>2. \A r \in swept : policyRow'[r] = "collector"
    BY <1>2, Zenon DEF StageInv, StageSound, KyvernoTypeOK
  <2> QED
    BY <1>0, <2>1, <2>2, Zenon DEF StageInv, StageSound, TickScopes
<1>4. SeenExact'
  BY <1>0, Zenon DEF StageInv, SeenExact
<1>5. SweptSoFar'
  <2> SUFFICES ASSUME steady, unfailing' PROVE SweptSoFar'
    BY <1>0, Zenon DEF SweptSoFar
  <2>1. unfailing /\ DeletePoliciesNotIn(s)
    BY <1>1, Zenon
  <2>2. ASSUME NEW r \in Resources, Family[r] = family, ScopeOf[r] \in TickScopes \ scopesLeft',
               policyRow'[r] = "collector"
        PROVE  r \in swept
    <3>1. CASE ScopeOf[r] = s
      BY <2>1, <2>2, <3>1, Zenon DEF DeletePoliciesNotIn
    <3>2. CASE ScopeOf[r] # s
      BY <1>0, <1>2, <2>1, <2>2, <3>2, Zenon DEF StageInv, SweptSoFar
    <3> QED
      BY <3>1, <3>2, Zenon
  <2>3. ASSUME NEW r \in Resources, Family[r] = "policies", RowExact(r), family = "reports"
        PROVE  RowExact(r)'
    BY <1>0, <1>2, <2>3, Zenon DEF RowExact, TickScopes
  <2> QED
    BY <1>0, <2>1, <2>2, <2>3, Zenon DEF StageInv, SweptSoFar, TickScopes
<1> QED
  BY <1>3, <1>4, <1>5, Zenon DEF StageInv

LEMMA StageStep == TypeOK /\ StageInv /\ [KyvernoNext]_daemonVars => StageInv'
<1> SUFFICES ASSUME TypeOK, StageInv, [KyvernoNext]_daemonVars PROVE StageInv'
  BY Zenon
<1>1. CASE PollStep
  BY <1>1, PollStepStage, Zenon
<1>2. CASE OtherStep
  BY <1>2, UnchangedStage, Zenon DEF OtherStep
<1>3. CASE KyvernoStep
  BY <1>3, FamilyStepStage, ListStage, UpsertStage, UpsertsDoneStage, SweepStage, Zenon
     DEF KyvernoStep
<1>4. CASE CallerStep
  BY <1>4, CallerStepStage, Zenon
<1>5. CASE UNCHANGED daemonVars
  BY <1>5, UnchangedStage, Zenon DEF daemonVars
<1> QED
  BY <1>1, <1>2, <1>3, <1>4, <1>5, Zenon DEF KyvernoNext

LEMMA StageInvariant == KyvernoSpec => [](TypeOK /\ StageInv)
<1>1. KyvernoInit => StageInv
  BY StageInit, Zenon
<1> QED
  BY <1>1, DaemonImplementsCollector, TypeCorrect, StageStep, PTL DEF KyvernoSpec

(* The Kyverno stage keeps the types of its state: its two sets of results *)
(* come from the lists of the family it is collecting.                     *)
THEOREM KyvernoTypeCorrect == KyvernoSpec => []KyvernoTypeOK
<1>1. StageInv => KyvernoTypeOK
  BY Zenon DEF StageInv, StageSound
<1> QED
  BY <1>1, StageInvariant, PTL

(* However many resources and namespaces there are, a stage that met no    *)
(* failure and no change leaves exactly the rows of what exists.           *)
THEOREM CleanStageMirrors == KyvernoSpec => []PoliciesMirrored
<1>1. StageInv => PoliciesMirrored
  BY Zenon DEF StageInv, SweptSoFar, RowExact, TickScopes, PoliciesMirrored
<1> QED
  BY <1>1, StageInvariant, PTL

\* The only step that takes a row of the collector is a sweep.
LEMMA OnlySweepTakesRows ==
  ASSUME StageInv, KyvernoNext, NEW r \in Resources,
         policyRow[r] = "collector", policyRow'[r] # "collector"
  PROVE  \E s \in scopesLeft : kpc = "sweep" /\ DeletePoliciesNotIn(s)
<1>0. policyRow \in [Resources -> {"none", "api", "collector"}]
  BY Zenon DEF StageInv, StageSound, KyvernoTypeOK
<1>1. ~PollStep /\ ~OtherStep
  BY Zenon DEF PollStep, OtherStep, kyvernoVars
<1>2. ~CallerStep
  BY <1>0, Zenon DEF CallerStep, TogglePolicies, CreatePolicy, DeletePolicy, WriteByAPI, DeleteByAPI,
     HandleCreateClusterPolicy, HandleDeleteClusterPolicy, HandleCreatePolicyReport,
     HandleDeletePolicyReport
<1>3. \A q \in Resources : ~UpsertPolicy(q) /\ ~UpsertPolicyFails(q)
  BY <1>0, Zenon DEF UpsertPolicy, UpsertPolicyFails
<1>4. /\ ~IngestKyvernoPolicies /\ ~GetSettingsFails /\ ~ListKyvernoClusterPolicies
      /\ ~ListKyvernoPolicies /\ ~ListKyvernoFails /\ ~UpsertsDone /\ ~FamilyDone
  BY Zenon DEF IngestKyvernoPolicies, GetSettingsFails, ListKyvernoClusterPolicies,
     ListKyvernoPolicies, ListKyvernoFails, UpsertsDone, FamilyDone
<1>5. PICK s \in Scopes : SweepPolicies(s) \/ SweepPoliciesFails(s)
  BY <1>1, <1>2, <1>3, <1>4, Zenon DEF KyvernoNext, KyvernoStep
<1>6. kpc = "sweep" /\ s \in scopesLeft /\ DeletePoliciesNotIn(s)
  BY <1>5, Zenon DEF SweepPolicies, SweepPoliciesFails, NextScope
<1> QED
  BY <1>6, Zenon

(* Whatever fails, the row of a resource that was listed is never swept:   *)
(* it is kept, or its scope is dirty and is left out of the sweep.         *)
THEOREM ErrorsNeverWipe == KyvernoSpec => PoliciesSurviveErrors
<1>1. StageInv /\ [KyvernoNext]_daemonVars =>
        [\A r \in Resources :
           (policyRow[r] = "collector" /\ policyRow'[r] # "collector") =>
              /\ kpc = "sweep" /\ r \notin seen
              /\ steady => r \notin policies]_daemonVars
  <2> SUFFICES ASSUME StageInv, KyvernoNext, NEW r \in Resources,
                      policyRow[r] = "collector", policyRow'[r] # "collector"
               PROVE  /\ kpc = "sweep" /\ r \notin seen
                      /\ steady => r \notin policies
    BY Zenon
  <2>1. PICK s \in scopesLeft : kpc = "sweep" /\ DeletePoliciesNotIn(s)
    BY OnlySweepTakesRows, Zenon
  <2>2. Family[r] = family /\ ScopeOf[r] = s /\ r \notin swept
    BY <2>1, Zenon DEF DeletePoliciesNotIn
  <2>3. r \notin seen
    BY <2>1, <2>2, Zenon DEF StageInv, StageSound
  <2>4. steady => r \notin policies
    BY <2>1, <2>2, <2>3, Zenon DEF StageInv, SeenExact
  <2> QED
    BY <2>1, <2>3, <2>4, Zenon
<1> QED
  BY <1>1, StageInvariant, PTL DEF KyvernoSpec, PoliciesSurviveErrors
=============================================================================
