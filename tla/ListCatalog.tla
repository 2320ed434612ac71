----------------------------- MODULE ListCatalog -----------------------------
(***************************************************************************)
(* What each List function of internal/store lists and in which orders,    *)
(* and who reads it: the handlers of internal/api, the tools of            *)
(* internal/mcp, the extracts and the flow matrix.  Lists.tla says how a   *)
(* page is computed; this module only holds the tables that differ.        *)
(*                                                                         *)
(* A column of a sort specification is a record: `expr' and `mint' say how *)
(* SQL computes the sort value and how Go computes it again for the cursor *)
(* (lower-cased, as it is, or as a severity rank), `nullable' what the     *)
(* specification says about NULL, `null' what the schema says.             *)
(***************************************************************************)
EXTENDS Integers, Sequences

Column(form) == [expr |-> form, mint |-> form, nullable |-> FALSE, null |-> FALSE]

TextCol == Column("lower")                \* LOWER(x), sortValText
PlainCol == Column("plain")               \* times and integers as they are
Opt(col) == [col EXCEPT !.nullable = TRUE, !.null = TRUE]

\* CASE severity WHEN ... ELSE 0, and severityRank in Go.
RankCol == [Column("rank") EXCEPT !.null = TRUE]

\* A sort specification: the columns, the key and direction of a request
\* without sort=, and the column the default branch of the sortVal switch
\* reads (every other key has a case of its own).
Sorts(columns, key, dir, fallback) ==
  [columns |-> columns, key |-> key, dir |-> dir, fallback |-> fallback]

\* The usual one: newest first.
Newest(columns) == Sorts(columns, "created_at", "desc", "created_at")

clusterSortSpec == Newest(
  [name |-> TextCol, environment |-> Opt(TextCol), provider |-> Opt(TextCol),
   region |-> Opt(TextCol), kubernetes_version |-> Opt(TextCol),
   created_at |-> PlainCol, updated_at |-> PlainCol, last_seen_at |-> PlainCol])

nodeSortSpec == Newest(
  [name |-> TextCol, role |-> Opt(TextCol), zone |-> Opt(TextCol),
   instance_type |-> Opt(TextCol), created_at |-> PlainCol, updated_at |-> PlainCol])

namespaceSortSpec == Newest(
  [name |-> TextCol, phase |-> Opt(TextCol), created_at |-> PlainCol, updated_at |-> PlainCol])

podSortSpec == Newest(
  [name |-> TextCol, phase |-> Opt(TextCol), node_name |-> Opt(TextCol),
   pod_ip |-> Opt(TextCol), created_at |-> PlainCol, updated_at |-> PlainCol])

workloadSortSpec == Newest(
  [name |-> TextCol, kind |-> TextCol, created_at |-> PlainCol, updated_at |-> PlainCol])

serviceSortSpec == Newest(
  [name |-> TextCol, type |-> Opt(TextCol), cluster_ip |-> Opt(TextCol),
   created_at |-> PlainCol, updated_at |-> PlainCol])

ingressSortSpec == Newest(
  [name |-> TextCol, ingress_class_name |-> Opt(TextCol),
   created_at |-> PlainCol, updated_at |-> PlainCol])

pvSortSpec == Newest(
  [name |-> TextCol, phase |-> Opt(TextCol), storage_class_name |-> Opt(TextCol),
   csi_driver |-> Opt(TextCol), capacity |-> Opt(TextCol),
   created_at |-> PlainCol, updated_at |-> PlainCol])

pvcSortSpec == Newest(
  [name |-> TextCol, phase |-> Opt(TextCol), storage_class_name |-> Opt(TextCol),
   requested_storage |-> Opt(TextCol), created_at |-> PlainCol, updated_at |-> PlainCol])

blockSortSpec == Newest(
  [name |-> TextCol, owner |-> Opt(TextCol), created_at |-> PlainCol, updated_at |-> PlainCol])

applicationSortSpec == Newest(
  [name |-> TextCol, owner |-> Opt(TextCol), criticality |-> Opt(TextCol),
   created_at |-> PlainCol, updated_at |-> PlainCol])

auditSortSpec == Sorts(
  [occurred_at |-> PlainCol, action |-> TextCol, resource_type |-> Opt(TextCol),
   actor_username |-> Opt(TextCol), source |-> TextCol],
  "occurred_at", "desc", "occurred_at")

userSortSpec == Newest(
  [username |-> TextCol, role |-> TextCol, created_at |-> PlainCol,
   last_login_at |-> Opt(PlainCol)])

sessionSortSpec == Newest(
  [username |-> TextCol, created_at |-> PlainCol, last_used_at |-> PlainCol,
   expires_at |-> PlainCol])

apiTokenSortSpec == Newest(
  [name |-> TextCol, created_at |-> PlainCol, expires_at |-> Opt(PlainCol),
   last_used_at |-> Opt(PlainCol)])

cloudAccountSortSpec == Newest(
  [name |-> TextCol, provider |-> TextCol, region |-> TextCol, status |-> TextCol,
   last_seen_at |-> Opt(PlainCol), created_at |-> PlainCol, updated_at |-> PlainCol])

clusterPolicySortSpec == Sorts(
  [name |-> TextCol, action |-> Opt(TextCol), background |-> Opt(PlainCol),
   severity |-> RankCol, rules_count |-> Opt(PlainCol), failure_policy |-> Opt(TextCol),
   category |-> Opt(TextCol), ready |-> Opt(PlainCol), resource_type |-> TextCol,
   scope |-> TextCol, reconcile_seen_at |-> PlainCol],
  "name", "asc", "reconcile_seen_at")

policyReportSortSpec == Sorts(
  [name |-> TextCol, scope_kind |-> Opt(TextCol), scope_name |-> Opt(TextCol),
   summary_pass |-> PlainCol, summary_fail |-> PlainCol, summary_warn |-> PlainCol,
   summary_error |-> PlainCol, summary_skip |-> PlainCol, reconcile_seen_at |-> PlainCol],
  "name", "asc", "reconcile_seen_at")

kubeNodeVMSortSpec == Sorts(
  [name |-> TextCol, status |-> PlainCol, instance_type |-> TextCol,
   power_state |-> TextCol, status_since |-> PlainCol, first_seen_at |-> PlainCol,
   last_seen_at |-> PlainCol, provider_creation_date |-> Opt(PlainCol)],
  "status_since", "desc", "status_since")

networkPolicySortSpec == Sorts(
  [name |-> TextCol, reconcile_seen_at |-> PlainCol],
  "reconcile_seen_at", "desc", "reconcile_seen_at")

\* vpc_id is read through COALESCE(vpc_id,''); an empty string mints NULL.
securityGroupSortSpec == Sorts(
  [name |-> TextCol, vpc_id |-> Opt(TextCol), reconcile_seen_at |-> PlainCol],
  "reconcile_seen_at", "desc", "reconcile_seen_at")

vmSortSpec == Newest(
  [name |-> TextCol, role |-> Opt(TextCol), region |-> Opt(TextCol), zone |-> Opt(TextCol),
   instance_type |-> Opt(TextCol), image_name |-> Opt(TextCol), power_state |-> TextCol,
   last_seen_at |-> PlainCol, created_at |-> PlainCol, updated_at |-> PlainCol])

(***************************************************************************)
(* The List functions.  `hides': rows past their end (terminated_at set,   *)
(* session expired) are left out unless the request includes them;         *)
(* `always': even then.  `scoped': the function lists one parent's rows    *)
(* only.  `filters': the optional filters of the request.  `wide': the cap *)
(* on the page is 500, not 200.                                            *)
(***************************************************************************)

Listing(spec, filters) ==
  [spec |-> spec, filters |-> filters, hides |-> FALSE, always |-> FALSE,
   scoped |-> FALSE, wide |-> FALSE]

Hiding(listing) == [listing EXCEPT !.hides = TRUE]
Scoped(listing) == [listing EXCEPT !.scoped = TRUE]
Wide(listing) == [listing EXCEPT !.wide = TRUE]

ListClusters == Hiding(Listing(clusterSortSpec, {"name", "stale"}))
ListNodes == Hiding(Listing(nodeSortSpec, {"cluster_id", "name"}))
ListNamespaces == Hiding(Listing(namespaceSortSpec, {"cluster_id", "name"}))
ListPods == Listing(podSortSpec, {"namespace_id", "node_name", "workload_id", "name", "image"})
ListWorkloads == Hiding(Listing(workloadSortSpec,
  {"namespace_id", "kind", "name", "image", "application_id", "application_name",
   "unlinked", "application_substring"}))
ListServices == Listing(serviceSortSpec, {"namespace_id", "name"})
ListIngresses == Listing(ingressSortSpec, {"namespace_id", "name"})
ListPersistentVolumes == Listing(pvSortSpec, {"cluster_id", "name"})
ListPersistentVolumeClaims == Listing(pvcSortSpec, {"namespace_id", "name"})
ListApplicationBlocks == Listing(blockSortSpec, {"name", "owner"})
ListApplications == Listing(applicationSortSpec,
  {"name", "block_id", "block_name", "criticality", "has_dict", "dict_min"})
ListAuditEvents == Wide(Listing(auditSortSpec,
  {"actor_id", "resource_type", "resource_id", "action", "source", "since", "until"}))
ListUsers == Listing(userSortSpec, {"name"})
ListSessions == [Listing(sessionSortSpec, {"name"}) EXCEPT !.hides = TRUE, !.always = TRUE]
ListAPITokens == Listing(apiTokenSortSpec, {"name"})
ListCloudAccounts == Listing(cloudAccountSortSpec, {"name"})
ListClusterPolicies == Listing(clusterPolicySortSpec,
  {"cluster_id", "namespace_id", "name", "resource_type", "action", "severity",
   "failure_policy", "category"})
ListPolicyReports == Listing(policyReportSortSpec, {"cluster_id", "namespace_id", "name",
  "scope_kind", "scope_name"})
ListKubeNodeVMs == Wide(Listing(kubeNodeVMSortSpec,
  {"cloud_account_id", "cluster_id", "status", "cluster_hint", "instance_type",
   "power_state", "name"}))
ListNetworkPoliciesByCluster == Wide(Scoped(Listing(networkPolicySortSpec, {"namespace_id", "name"})))
ListSecurityGroupsByAccount == Scoped(Listing(securityGroupSortSpec, {"name", "vpc_id"}))
ListVirtualMachines == Hiding(Listing(vmSortSpec,
  {"cloud_account_id", "cloud_account_name", "region", "role", "power_state", "name",
   "image", "application", "application_id", "application_name", "unlinked",
   "application_substring"}))
\* The two lists with a cursor of their own: the history of one entity, newest
\* first, and the image repositories in order, where the name is the key.
historySortSpec == Sorts([valid_from |-> PlainCol], "valid_from", "desc", "valid_from")
ListEntityHistory == [Listing(historySortSpec, {}) EXCEPT !.scoped = TRUE]

imageRepoSortSpec == Sorts([image_repo |-> Column("key")], "image_repo", "asc", "image_repo")
ListImageVersionsByRepo == Listing(imageRepoSortSpec,
  {"registry", "image_repo", "variant", "has_error", "last_checked_before"})

originSortSpec == Sorts([image_name |-> Column("key")], "image_name", "asc", "image_name")
ListImageOriginMappings == Wide(Listing(originSortSpec, {"public_registry", "q"}))

(***************************************************************************)
(* The handlers.  They pass limit, cursor, sort and order through; `sorted'*)
(* says whether the endpoint has sort= and order= at all, `required'       *)
(* whether the parent must be named, `gated' whether a setting must be on. *)
(***************************************************************************)

Endpoint(listing) ==
  [listing |-> listing, sorted |-> TRUE, required |-> FALSE, gated |-> FALSE]

ServerListClusters == Endpoint(ListClusters)
ServerListNodes == Endpoint(ListNodes)
ServerListNamespaces == Endpoint(ListNamespaces)
ServerListPods == Endpoint(ListPods)
ServerListWorkloads == Endpoint(ListWorkloads)
ServerListServices == Endpoint(ListServices)
ServerListIngresses == Endpoint(ListIngresses)
ServerListPersistentVolumes == Endpoint(ListPersistentVolumes)
ServerListPersistentVolumeClaims == Endpoint(ListPersistentVolumeClaims)
ServerListUsers == Endpoint(ListUsers)
ServerListApiTokens == Endpoint(ListAPITokens)
ServerListSessions == Endpoint(ListSessions)
ServerListAuditEvents == Endpoint(ListAuditEvents)
HandleListCloudAccounts == Endpoint(ListCloudAccounts)
HandleListVirtualMachines == Endpoint(ListVirtualMachines)
HandleListKubeNodeVMs == Endpoint(ListKubeNodeVMs)
HandleListApplications == Endpoint(ListApplications)
HandleListApplicationBlocks == Endpoint(ListApplicationBlocks)
HandleListClusterPolicies == [Endpoint(ListClusterPolicies) EXCEPT !.gated = TRUE]
HandleListPolicyReports == [Endpoint(ListPolicyReports) EXCEPT !.gated = TRUE]
HandleListNetworkPolicies == [Endpoint(ListNetworkPoliciesByCluster) EXCEPT !.required = TRUE]
HandleListSecurityGroups == [Endpoint(ListSecurityGroupsByAccount) EXCEPT !.required = TRUE]
HandleEntityHistory ==
  [Endpoint(ListEntityHistory) EXCEPT !.sorted = FALSE, !.gated = TRUE]
ServerListImageVersions ==
  [Endpoint(ListImageVersionsByRepo) EXCEPT !.sorted = FALSE]
ServerListImageOriginMappings ==
  [Endpoint(ListImageOriginMappings) EXCEPT !.sorted = FALSE]

Endpoints == {ServerListClusters, ServerListNodes, ServerListNamespaces, ServerListPods,
  ServerListWorkloads, ServerListServices, ServerListIngresses, ServerListPersistentVolumes,
  ServerListPersistentVolumeClaims, ServerListUsers, ServerListApiTokens, ServerListSessions,
  ServerListAuditEvents, HandleListCloudAccounts, HandleListVirtualMachines,
  HandleListKubeNodeVMs, HandleListApplications, HandleListApplicationBlocks,
  HandleListClusterPolicies, HandleListPolicyReports, HandleListNetworkPolicies,
  HandleListSecurityGroups, HandleEntityHistory, ServerListImageVersions,
  ServerListImageOriginMappings}

(***************************************************************************)
(* The readers inside the server.  Each reads its legs one after the other,*)
(* in their default order and with the largest page, to the end.  A leg    *)
(* either fills an index the answer is looked up in, or gives rows of the  *)
(* answer, or more rows of which some may be the same ("union").  A tool   *)
(* of the MCP server stops a leg at maxTotalItems and says nothing; an     *)
(* extract reads everything and cuts the rows it answers at its cap, with  *)
(* a header that says so; the others take everything.                      *)
(***************************************************************************)

Leg(listing, gives) == [listing |-> listing, gives |-> gives]

Index(listing) == Leg(listing, "index")
Rows(listing) == Leg(listing, "rows")
Union(listing) == Leg(listing, "union")

Reader(legs, cap) == [legs |-> legs, cap |-> cap]

Tool(listing) == Reader(<<Rows(listing)>>, "tool")

handleListClusters == Tool(ListClusters)
handleListNodes == Tool(ListNodes)
handleListNamespaces == Tool(ListNamespaces)
handleListWorkloads == Tool(ListWorkloads)
handleListPods == Tool(ListPods)
handleListServices == Tool(ListServices)
handleListIngresses == Tool(ListIngresses)
handleListPersistentVolumes == Tool(ListPersistentVolumes)
handleListPersistentVolumeClaims == Tool(ListPersistentVolumeClaims)
handleListCloudAccounts == Tool(ListCloudAccounts)
handleListVirtualMachines == Tool(ListVirtualMachines)
handleListKubeNodeVMs == Tool(ListKubeNodeVMs)
handleListApplications == Tool(ListApplications)
handleListApplicationBlocks == Tool(ListApplicationBlocks)
handleListImageVersions == Tool(ListImageVersionsByRepo)
handleGetImageVersionsSummary == Tool(ListImageVersionsByRepo)

EntitiesWithEol == <<Rows(ListClusters), Rows(ListNodes), Rows(ListVirtualMachines)>>

handleGetEOLSummary == Reader(EntitiesWithEol, "tool")
handleSearchImages ==
  Reader(<<Rows(ListWorkloads), Rows(ListPods), Rows(ListVirtualMachines)>>, "tool")

HandleEolExtract == Reader(EntitiesWithEol, "extract")

loadClusterNamespaceIndex == <<Index(ListClusters), Index(ListNamespaces)>>

collectWorkloadExtract == loadClusterNamespaceIndex \o <<Rows(ListWorkloads)>>

\* The second pass over the workloads finds those of the application asked for.
collectPodExtract ==
  loadClusterNamespaceIndex \o <<Index(ListWorkloads), Index(ListWorkloads), Rows(ListPods)>>

\* By image, then by application.
collectVMExtract ==
  <<Index(ListCloudAccounts), Rows(ListVirtualMachines), Union(ListVirtualMachines)>>

HandleSearchExtract ==
  {Reader(legs, "extract") : legs \in {collectWorkloadExtract, collectPodExtract, collectVMExtract}}

\* The archive has one file per kind of entity.
HandleSearchExtractZip == HandleSearchExtract

handleApplicationsExtract == Reader(<<Rows(ListApplications)>>, "extract")

ApplicationWorkloadMembers == Reader(<<Rows(ListWorkloads)>>, "none")
ApplicationVMMembers == Reader(<<Rows(ListVirtualMachines)>>, "none")
BuildContainerFreshness == Reader(<<Rows(ListWorkloads)>>, "none")

\* The flow matrix asks for one page of 500 and does not look at the cursor.
loadInternalRules == Reader(<<Rows(ListNetworkPoliciesByCluster)>>, "page")

Readers == HandleSearchExtract \cup HandleSearchExtractZip \cup
 {handleListClusters, handleListNodes, handleListNamespaces, handleListWorkloads,
  handleListPods, handleListServices, handleListIngresses, handleListPersistentVolumes,
  handleListPersistentVolumeClaims, handleGetEOLSummary, handleSearchImages,
  handleListCloudAccounts, handleListVirtualMachines, handleListKubeNodeVMs,
  handleListApplications, handleListApplicationBlocks, handleListImageVersions,
  handleGetImageVersionsSummary, HandleEolExtract, handleApplicationsExtract,
  ApplicationWorkloadMembers, ApplicationVMMembers, BuildContainerFreshness,
  loadInternalRules}
=============================================================================
