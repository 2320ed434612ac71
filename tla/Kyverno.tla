------------------------------- MODULE Kyverno -------------------------------
(***************************************************************************)
(* The last stage of the collector's poll: Kyverno policies and policy     *)
(* reports (internal/collector/kyverno_collector.go), composed with the    *)
(* stages of Collector, which hand it namespaceIDsByName.  It exists in    *)
(* the daemon only; the push collector has no store for it.                *)
(*                                                                         *)
(* A resource stands for the key (family, namespace, name).  Its row says  *)
(* who wrote it last: the collector or a caller of the REST API.           *)
(***************************************************************************)
EXTENDS Collector

CONSTANTS
    Resources,   \* Kyverno resources of the cluster
    Family,      \* "policies" or "reports"
    ScopeOf      \* the namespace of a resource, or ClusterScope

Families == {"policies", "reports"}

ASSUME KyvernoAssumption ==
    /\ Family \in [Resources -> Families]
    /\ ScopeOf \in [Resources -> Scopes]

VARIABLES
    policies,      \* resources that exist in the Kubernetes cluster
    policyRow,     \* the rows of cluster_policies and policy_reports
    enabled,       \* settings.policies_enabled
    kpc,           \* where the Kyverno stage is
    family,        \* the family it collects
    known,         \* the values of namespaceIDsByName in this tick
    seen,          \* what the list calls of this family returned
    pending,       \* listed resources still to be upserted
    swept,         \* kyvernoSweepResult: the ids to keep
    dirty,         \* clusterScopedDirty and dirtyNamespaces
    scopesLeft,    \* scopes still to be swept
    steady,        \* nothing that the stage reads has changed since it began
    unfailing,     \* no call of the stage failed
    policyChanges, \* number of changes so far
    policyFaults   \* number of failed calls so far

stageVars == <<kpc, family, known, seen, pending, swept, dirty, scopesLeft>>
ghosts == <<steady, unfailing, policyChanges, policyFaults>>
kyvernoVars == <<policies, policyRow, enabled, stageVars, ghosts>>
daemonVars == <<vars, kyvernoVars>>

KyvernoTypeOK ==
    /\ policies \subseteq Resources
    /\ policyRow \in [Resources -> {"none", "api", "collector"}]
    /\ enabled \in BOOLEAN
    /\ kpc \in {"idle", "settings", "listCluster", "upsertCluster", "listNamespaced",
                "upsertNamespaced", "sweep"}
    /\ family \in Families
    /\ known \subseteq OfKind(Namespace)
    /\ seen \subseteq Resources
    /\ pending \subseteq seen
    /\ swept \subseteq seen
    /\ dirty \subseteq Scopes
    /\ scopesLeft \subseteq Scopes
    /\ steady \in BOOLEAN /\ unfailing \in BOOLEAN
    /\ policyChanges \in 0..MaxChanges
    /\ policyFaults \in 0..MaxFaults

KyvernoInit ==
    /\ Init
    /\ policies \in SUBSET {r \in Resources : ScopeOf[r] \in k8s \cup {ClusterScope}}
    /\ enabled \in BOOLEAN
    /\ policyRow = [r \in Resources |-> "none"]
    /\ kpc = "idle" /\ family = "policies" /\ known = {}
    /\ seen = {} /\ pending = {} /\ swept = {} /\ dirty = {} /\ scopesLeft = {}
    /\ steady = FALSE /\ unfailing = FALSE
    /\ policyChanges = 0 /\ policyFaults = 0

-----------------------------------------------------------------------------
(* The cluster and the callers of the REST API.                            *)

PolicyChange ==
    /\ changes + policyChanges < MaxChanges
    /\ policyChanges' = policyChanges + 1
    /\ steady' = FALSE
    /\ UNCHANGED <<vars, stageVars, unfailing, policyFaults>>

CreatePolicy(r) ==
    /\ r \notin policies
    /\ ScopeOf[r] \in k8s \cup {ClusterScope}
    /\ policies' = policies \cup {r}
    /\ PolicyChange
    /\ UNCHANGED <<policyRow, enabled>>

DeletePolicy(r) ==
    /\ r \in policies
    /\ policies' = policies \ {r}
    /\ PolicyChange
    /\ UNCHANGED <<policyRow, enabled>>

TogglePolicies ==
    /\ enabled' = ~enabled
    /\ PolicyChange
    /\ UNCHANGED <<policies, policyRow>>

\* UpsertClusterPolicy and UpsertPolicyReport with source 'api': a row that
\* the collector manages answers a conflict.
WriteByAPI(r) ==
    /\ enabled
    /\ ScopeOf[r] # ClusterScope => row[ScopeOf[r]] # "none"
    /\ policyRow[r] # "collector"
    /\ policyRow' = [policyRow EXCEPT ![r] = "api"]
    /\ PolicyChange
    /\ UNCHANGED <<policies, enabled>>

\* Only rows written through the API can be deleted through it.
DeleteByAPI(r) ==
    /\ enabled
    /\ policyRow[r] = "api"
    /\ policyRow' = [policyRow EXCEPT ![r] = "none"]
    /\ PolicyChange
    /\ UNCHANGED <<policies, enabled>>

HandleCreateClusterPolicy(r) == Family[r] = "policies" /\ WriteByAPI(r)
HandleDeleteClusterPolicy(r) == Family[r] = "policies" /\ DeleteByAPI(r)
HandleCreatePolicyReport(r) == Family[r] = "reports" /\ WriteByAPI(r)
HandleDeletePolicyReport(r) == Family[r] = "reports" /\ DeleteByAPI(r)

-----------------------------------------------------------------------------
(* The stage.                                                              *)

PolicyFault ==
    /\ faults + policyFaults < MaxFaults
    /\ policyFaults' = policyFaults + 1
    /\ unfailing' = FALSE
    /\ UNCHANGED <<steady, policyChanges>>

\* newKyvernoSweepResult for the family f.
StartFamily(f) ==
    /\ kpc' = "listCluster" /\ family' = f
    /\ seen' = {} /\ pending' = {} /\ swept' = {} /\ dirty' = {} /\ scopesLeft' = {}
    /\ UNCHANGED known

EndStage ==
    /\ kpc' = "idle" /\ family' = "policies"
    /\ seen' = {} /\ pending' = {} /\ swept' = {} /\ dirty' = {} /\ scopesLeft' = {}
    /\ UNCHANGED known

\* CollectKyvernoPolicies goes from the policies to the reports.
NextFamily == IF family = "policies" THEN StartFamily("reports") ELSE EndStage

\* ingestKyvernoPolicies is gated by the settings.
IngestKyvernoPolicies ==
    /\ kpc = "settings"
    /\ IF enabled THEN StartFamily("policies") ELSE EndStage
    /\ UNCHANGED <<vars, policies, policyRow, enabled, ghosts>>

GetSettingsFails ==
    /\ kpc = "settings"
    /\ EndStage
    /\ PolicyFault
    /\ UNCHANGED <<vars, policies, policyRow, enabled>>

OfFamily == {r \in Resources : Family[r] = family}

\* The cluster-scoped list answers; without the CRD it is empty.
ListKyvernoClusterPolicies ==
    /\ kpc = "listCluster"
    /\ kpc' = "upsertCluster"
    /\ seen' = {r \in policies \cap OfFamily : ScopeOf[r] = ClusterScope}
    /\ pending' = seen'
    /\ UNCHANGED <<vars, policies, policyRow, enabled, family, known, swept, dirty,
                   scopesLeft, ghosts>>

\* The namespaced list answers; resources of unknown namespaces are skipped.
ListKyvernoPolicies ==
    /\ kpc = "listNamespaced"
    /\ kpc' = "upsertNamespaced"
    /\ LET found == {r \in policies \cap OfFamily : ScopeOf[r] # ClusterScope}
       IN  /\ seen' = seen \cup found
           /\ pending' = {r \in found : ScopeOf[r] \in known}
    /\ UNCHANGED <<vars, policies, policyRow, enabled, family, known, swept, dirty,
                   scopesLeft, ghosts>>

\* Mutant: a list that failed is taken for an empty one.
ListKyvernoFailsEmpty ==
    /\ kpc \in {"listCluster", "listNamespaced"}
    /\ kpc' = IF kpc = "listCluster" THEN "upsertCluster" ELSE "upsertNamespaced"
    /\ PolicyFault
    /\ UNCHANGED <<vars, policies, policyRow, enabled, family, known, seen, pending,
                   swept, dirty, scopesLeft>>

\* A list fails or is forbidden by RBAC: there is no result to sweep with,
\* although the first list's resources are upserted already.
ListKyvernoFails ==
    /\ kpc \in {"listCluster", "listNamespaced"}
    /\ NextFamily
    /\ PolicyFault
    /\ UNCHANGED <<vars, policies, policyRow, enabled>>

Upserting == kpc \in {"upsertCluster", "upsertNamespaced"}

\* UpsertClusterPolicy and UpsertPolicyReport with source 'collector'.
UpsertPolicy(r) ==
    /\ Upserting /\ r \in pending
    /\ policyRow' = [policyRow EXCEPT ![r] = "collector"]
    /\ pending' = pending \ {r} /\ swept' = swept \cup {r}
    /\ UNCHANGED <<vars, policies, enabled, kpc, family, known, seen, dirty, scopesLeft,
                   ghosts>>

\* markClusterScopedDirty, markNamespaceDirty: the scope will not be swept.
UpsertPolicyFails(r) ==
    /\ Upserting /\ r \in pending
    /\ policyRow' \in {policyRow, [policyRow EXCEPT ![r] = "collector"]}
    /\ pending' = pending \ {r} /\ dirty' = dirty \cup {ScopeOf[r]}
    /\ PolicyFault
    /\ UNCHANGED <<vars, policies, enabled, kpc, family, known, seen, swept, scopesLeft>>

\* Mutant: only the scopes that kept a resource are swept.
UpsertsDoneNonEmpty ==
    /\ Upserting /\ pending = {}
    /\ \/ kpc = "upsertCluster" /\ kpc' = "listNamespaced" /\ UNCHANGED scopesLeft
       \/ /\ kpc = "upsertNamespaced" /\ kpc' = "sweep"
          /\ scopesLeft' = {ScopeOf[r] : r \in swept} \ dirty
    /\ UNCHANGED <<vars, policies, policyRow, enabled, family, known, seen, pending, swept,
                   dirty, ghosts>>

\* The end of a loop of upserts: the second list, or the sweep of every scope
\* that is not dirty.
UpsertsDone ==
    /\ Upserting /\ pending = {}
    /\ \/ kpc = "upsertCluster" /\ kpc' = "listNamespaced" /\ UNCHANGED scopesLeft
       \/ /\ kpc = "upsertNamespaced" /\ kpc' = "sweep"
          /\ scopesLeft' = (known \cup {ClusterScope}) \ dirty
    /\ UNCHANGED <<vars, policies, policyRow, enabled, family, known, seen, pending, swept,
                   dirty, ghosts>>

\* DeleteClusterScopedPoliciesNotIn, DeleteClusterPoliciesByNamespace and
\* their twins for reports: rows with source 'collector' that are not kept.
DeletePoliciesNotIn(s) ==
    policyRow' = [r \in Resources |->
        IF /\ Family[r] = family /\ ScopeOf[r] = s /\ r \notin swept
           /\ policyRow[r] = "collector"
        THEN "none" ELSE policyRow[r]]

\* sweepClusterPolicies, sweepPolicyReports: the cluster scope goes first.
NextScope(s) ==
    /\ kpc = "sweep" /\ s \in scopesLeft
    /\ s = ClusterScope \/ ClusterScope \notin scopesLeft
    /\ scopesLeft' = scopesLeft \ {s}
    /\ UNCHANGED <<vars, policies, enabled, kpc, family, known, seen, pending, swept, dirty>>

SweepPolicies(s) ==
    /\ NextScope(s)
    /\ DeletePoliciesNotIn(s)
    /\ UNCHANGED ghosts

SweepPoliciesFails(s) ==
    /\ NextScope(s)
    /\ UNCHANGED policyRow \/ DeletePoliciesNotIn(s)
    /\ PolicyFault

FamilyDone ==
    /\ kpc = "sweep" /\ scopesLeft = {}
    /\ NextFamily
    /\ UNCHANGED <<vars, policies, policyRow, enabled, ghosts>>

-----------------------------------------------------------------------------
(* The composition.                                                        *)

\* ingestNetworkPolicies has returned and poll calls ingestKyvernoPolicies.
EntersStage == stage = NetworkPolicy /\ pc # "idle" /\ pc' = "idle"

\* Every step of poll up to the Kyverno stage; the next tick waits for it.
PollStep ==
    /\ CollectorStep
    /\ kpc = "idle"
    /\ faults' + policyFaults <= MaxFaults
    /\ IF EntersStage
       THEN /\ kpc' = "settings" /\ known' = nsMap
            /\ steady' = TRUE /\ unfailing' = TRUE
            /\ UNCHANGED <<family, seen, pending, swept, dirty, scopesLeft>>
       ELSE UNCHANGED <<stageVars, steady, unfailing>>
    /\ UNCHANGED <<policies, policyRow, enabled, policyChanges, policyFaults>>

\* The cluster and administrators change what Collector reads.  A namespace
\* goes after the policies in it.
OtherStep ==
    /\ KubeStep \/ AdminStep
    /\ \A r \in policies : ScopeOf[r] \in k8s' \cup {ClusterScope}
    /\ changes' + policyChanges <= MaxChanges
    /\ UNCHANGED kyvernoVars

KyvernoStep ==
    \/ IngestKyvernoPolicies
    \/ GetSettingsFails
    \/ ListKyvernoClusterPolicies
    \/ ListKyvernoPolicies
    \/ ListKyvernoFails
    \/ \E r \in Resources : UpsertPolicy(r) \/ UpsertPolicyFails(r)
    \/ UpsertsDone
    \/ \E s \in Scopes : SweepPolicies(s) \/ SweepPoliciesFails(s)
    \/ FamilyDone

CallerStep ==
    \/ TogglePolicies
    \/ \E r \in Resources :
          \/ CreatePolicy(r)
          \/ DeletePolicy(r)
          \/ HandleCreateClusterPolicy(r)
          \/ HandleDeleteClusterPolicy(r)
          \/ HandleCreatePolicyReport(r)
          \/ HandleDeletePolicyReport(r)

KyvernoNext == PollStep \/ OtherStep \/ KyvernoStep \/ CallerStep

KyvernoSpec == KyvernoInit /\ [][KyvernoNext]_daemonVars

-----------------------------------------------------------------------------
(* Properties.                                                             *)

(* "transient API errors must never wipe the store": whichever list or     *)
(* upsert fails or is forbidden, the stage never takes away the row of a   *)
(* resource that one of its lists returned, nor of one that exists while   *)
(* nothing changes; and callers of the API never take a collector's row.   *)
PoliciesSurviveErrors ==
    [][\A r \in Resources :
         (policyRow[r] = "collector" /\ policyRow'[r] # "collector") =>
            /\ kpc = "sweep" /\ r \notin seen
            /\ steady => r \notin policies]_daemonVars

(* A stage without failures during which nothing changed leaves, in the    *)
(* cluster scope and in every namespace of the tick, exactly the rows of   *)
(* the resources that exist, whatever earlier ticks left behind; rows that *)
(* were written through the API and are not in the cluster stay.           *)
PoliciesMirrored ==
    (kpc = "idle" /\ steady /\ unfailing /\ enabled) =>
        \A r \in Resources :
            ScopeOf[r] \in known \cup {ClusterScope} =>
                (policyRow[r] = "collector" <=> r \in policies)
==============================================================================
