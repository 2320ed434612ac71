------------------------------- MODULE Routes -------------------------------
(***************************************************************************)
(* The surface of the server: every operation of the generated router      *)
(* (api.gen.go), every route mounted by hand (cmd/longue-vue/main.go), the *)
(* as_of reads and the routes of the ingest listener.  A route says which  *)
(* scopes the middleware asks for, how the path looks to the audit layer,  *)
(* whether the wrapper binds parameters before any middleware runs, and    *)
(* which plans of its handler a request may take.                          *)
(***************************************************************************)
EXTENDS Sequences

H == INSTANCE Handlers

(* A route behind the authentication middleware.  `path` is the part of    *)
(* the URL the audit layer looks at.                                       *)
Guarded(verb, table, path, scopes, mount, plans) ==
    [verb |-> verb, table |-> table, path |-> path, scopes |-> scopes,
     mount |-> mount, open |-> FALSE, rotation |-> FALSE, binds |-> FALSE,
     plans |-> plans]

Operation(verb, table, scope, plans) ==
    Guarded(verb, table, "plain", {scope}, "generated", plans)
AdminOperation(verb, table, plans) ==
    Guarded(verb, table, "admin", {"admin"}, "generated", plans)
OwnAccount(verb, table, path, plans) ==
    [Guarded(verb, table, path, {}, "generated", plans) EXCEPT !.rotation = TRUE]
Public(verb, table, path, plans) ==
    [Guarded(verb, table, path, {}, "generated", plans) EXCEPT !.open = TRUE]
Bound(route) == [route EXCEPT !.binds = TRUE]

Mounted(verb, table, scope, plans) ==
    Guarded(verb, table, "plain", {scope}, "audited", plans)
AdminMounted(verb, table, plans) ==
    Guarded(verb, table, "admin", {"admin"}, "audited", plans)
CredentialsMounted(verb, table, plans) ==
    Guarded(verb, table, "credentials", {"vm-collector"}, "audited", plans)
ExtractMounted(table, plans) ==
    Guarded("GET", table, "extract", {"read"}, "audited", plans)
Unlogged(verb, table, path, scope, plans) ==
    Guarded(verb, table, path, {scope}, "bare", plans)

(* Inventory kinds: listings and reads ask for read, creation and patches  *)
(* for write, deletion and reconciliation for delete.                      *)
ListClusters == Bound(Operation("GET", "clusters", "read", H!Listing))
ListNodes == Bound(Operation("GET", "nodes", "read", H!Listing))
ListNamespaces == Bound(Operation("GET", "namespaces", "read", H!Listing))
ListPods == Bound(Operation("GET", "pods", "read", H!Listing))
ListWorkloads == Bound(Operation("GET", "workloads", "read", H!Listing))
ListServices == Bound(Operation("GET", "services", "read", H!Listing))
ListIngresses == Bound(Operation("GET", "ingresses", "read", H!Listing))
ListPersistentVolumes == Bound(Operation("GET", "persistent_volumes", "read", H!Listing))
ListPersistentVolumeClaims ==
    Bound(Operation("GET", "persistent_volume_claims", "read", H!Listing))
GetCluster == Bound(Operation("GET", "clusters", "read", H!GetCluster))
GetNode == Bound(Operation("GET", "nodes", "read", H!GetNode))
GetNamespace == Bound(Operation("GET", "namespaces", "read", H!GetNamespace))
GetPod == Bound(Operation("GET", "pods", "read", H!GetPod))
GetWorkload == Bound(Operation("GET", "workloads", "read", H!GetWorkload))
GetService == Bound(Operation("GET", "services", "read", H!GetService))
GetIngress == Bound(Operation("GET", "ingresses", "read", H!GetIngress))
GetPersistentVolume ==
    Bound(Operation("GET", "persistent_volumes", "read", H!GetPersistentVolume))
GetPersistentVolumeClaim ==
    Bound(Operation("GET", "persistent_volume_claims", "read", H!GetPersistentVolumeClaim))
CreateCluster == Operation("POST", "clusters", "write", H!CreateCluster)
CreateNode == Operation("POST", "nodes", "write", H!CreateNode)
CreateNamespace == Operation("POST", "namespaces", "write", H!CreateNamespace)
CreatePod == Operation("POST", "pods", "write", H!CreatePod)
CreateWorkload == Operation("POST", "workloads", "write", H!CreateWorkload)
CreateService == Operation("POST", "services", "write", H!CreateService)
CreateIngress == Operation("POST", "ingresses", "write", H!CreateIngress)
CreatePersistentVolume ==
    Operation("POST", "persistent_volumes", "write", H!CreatePersistentVolume)
CreatePersistentVolumeClaim ==
    Operation("POST", "persistent_volume_claims", "write", H!CreatePersistentVolumeClaim)
UpdateCluster == Bound(Operation("PATCH", "clusters", "write", H!UpdateCluster))
UpdateNode == Bound(Operation("PATCH", "nodes", "write", H!UpdateNode))
UpdateNamespace == Bound(Operation("PATCH", "namespaces", "write", H!UpdateNamespace))
UpdatePod == Bound(Operation("PATCH", "pods", "write", H!UpdatePod))
UpdateWorkload == Bound(Operation("PATCH", "workloads", "write", H!UpdateWorkload))
UpdateService == Bound(Operation("PATCH", "services", "write", H!UpdateService))
UpdateIngress == Bound(Operation("PATCH", "ingresses", "write", H!UpdateIngress))
UpdatePersistentVolume ==
    Bound(Operation("PATCH", "persistent_volumes", "write", H!UpdatePersistentVolume))
UpdatePersistentVolumeClaim ==
    Bound(Operation("PATCH", "persistent_volume_claims", "write", H!UpdatePersistentVolumeClaim))
DeleteCluster == Bound(Operation("DELETE", "clusters", "delete", H!DeleteCluster))
DeleteNode == Bound(Operation("DELETE", "nodes", "delete", H!DeleteNode))
DeleteNamespace == Bound(Operation("DELETE", "namespaces", "delete", H!DeleteNamespace))
DeletePod == Bound(Operation("DELETE", "pods", "delete", H!DeletePod))
DeleteWorkload == Bound(Operation("DELETE", "workloads", "delete", H!DeleteWorkload))
DeleteService == Bound(Operation("DELETE", "services", "delete", H!DeleteService))
DeleteIngress == Bound(Operation("DELETE", "ingresses", "delete", H!DeleteIngress))
DeletePersistentVolume ==
    Bound(Operation("DELETE", "persistent_volumes", "delete", H!DeletePersistentVolume))
DeletePersistentVolumeClaim ==
    Bound(Operation("DELETE", "persistent_volume_claims", "delete", H!DeletePersistentVolumeClaim))
ReconcileNodes == Operation("POST", "nodes", "delete", H!ReconcileNodes)
ReconcileNamespaces == Operation("POST", "namespaces", "delete", H!ReconcileNamespaces)
ReconcilePods == Operation("POST", "pods", "delete", H!ReconcilePods)
ReconcileWorkloads == Operation("POST", "workloads", "delete", H!ReconcileWorkloads)
ReconcileServices == Operation("POST", "services", "delete", H!ReconcileServices)
ReconcileIngresses == Operation("POST", "ingresses", "delete", H!ReconcileIngresses)
ReconcilePersistentVolumes ==
    Operation("POST", "persistent_volumes", "delete", H!ReconcilePersistentVolumes)
ReconcilePersistentVolumeClaims ==
    Operation("POST", "persistent_volume_claims", "delete", H!ReconcilePersistentVolumeClaims)
CreateNetworkPolicy == Operation("POST", "network_policies", "write", H!CreateNetworkPolicy)
ReconcileNetworkPolicies ==
    Operation("POST", "network_policies", "delete", H!ReconcileNetworkPolicies)
ListImageVersions == Bound(Operation("GET", "image_versions", "read", H!Listing))
GetImageVersion == Bound(Operation("GET", "image_versions", "read", H!GetImageVersion))
RefreshImageVersions == Operation("POST", "image_versions", "admin", H!RefreshImageVersions)

(* Administration, all of it under /v1/admin/. *)
ListAuditEvents ==
    Bound([AdminOperation("GET", "audit_events", H!Listing) EXCEPT !.scopes = {"audit"}])
ListImageOriginMappings == Bound(AdminOperation("GET", "image_origin_mappings", H!Listing))
CreateImageOriginMapping ==
    AdminOperation("POST", "image_origin_mappings", H!CreateImageOriginMapping)
GetImageOriginMapping ==
    Bound(AdminOperation("GET", "image_origin_mappings", H!GetImageOriginMapping))
PatchImageOriginMapping ==
    Bound(AdminOperation("PATCH", "image_origin_mappings", H!PatchImageOriginMapping))
DeleteImageOriginMapping ==
    Bound(AdminOperation("DELETE", "image_origin_mappings", H!DeleteImageOriginMapping))
ListImageRegistries == AdminOperation("GET", "image_registries", H!ListImageRegistries)
CreateImageRegistry == AdminOperation("POST", "image_registries", H!CreateImageRegistry)
PatchImageRegistry ==
    Bound(AdminOperation("PATCH", "image_registries", H!PatchImageRegistry))
DeleteImageRegistry ==
    Bound(AdminOperation("DELETE", "image_registries", H!DeleteImageRegistry))
ListSessions == Bound(AdminOperation("GET", "sessions", H!Listing))
RevokeSession == Bound(AdminOperation("DELETE", "sessions", H!RevokeSession))
ListApiTokens == Bound(AdminOperation("GET", "api_tokens", H!Listing))
CreateApiToken == AdminOperation("POST", "api_tokens", H!CreateApiToken)
RevokeApiToken == Bound(AdminOperation("DELETE", "api_tokens", H!RevokeApiToken))
ListUsers == Bound(AdminOperation("GET", "users", H!Listing))
CreateUser == AdminOperation("POST", "users", H!CreateUser)
GetUser == Bound(AdminOperation("GET", "users", H!GetUser))
UpdateUser == Bound(AdminOperation("PATCH", "users", H!UpdateUser))
DeleteUser == Bound(AdminOperation("DELETE", "users", H!DeleteUser))

(* The caller's own account and session: any caller, even one that has to  *)
(* change its password first.                                              *)
ChangePassword == OwnAccount("POST", "users", "auth", H!ChangePassword)
Logout == OwnAccount("POST", "sessions", "auth", H!Logout)
GetMe == OwnAccount("GET", "users", "plain", H!GetMe)

(* Operations that declare no security: the middleware lets them through   *)
(* without a caller.                                                       *)
GetHealthz == Public("GET", "health", "plain", H!GetHealthz)
GetReadyz == Public("GET", "health", "plain", H!GetReadyz)
GetAuthConfig == Public("GET", "health", "plain", H!GetAuthConfig)
Login == Public("POST", "sessions", "auth", H!Login)
OidcAuthorize == Public("GET", "oidc_auth_states", "auth", H!OidcAuthorize)
OidcCallback == Bound(Public("GET", "sessions", "auth", H!OidcCallback))
VerifyToken == Public("POST", "api_tokens", "plain", H!VerifyToken)

(* The routes of buildHTTPServer and mountApplicationRoutes. *)
SettingsRoutes ==
    {Unlogged("GET", "settings", "admin", "admin", H!HandleGetSettings),
     Unlogged("PATCH", "settings", "admin", "admin", H!HandleUpdateSettings)}
OpenapiRoute ==
    {[Unlogged("GET", "health", "plain", "read", {<<>>}) EXCEPT !.rotation = TRUE]}
ImpactRoute == {Unlogged("GET", "health", "plain", "read", H!Listing)}
HistoryRoutes ==
    {Unlogged("GET", kind, "plain", "read", H!HandleEntityHistory) :
        kind \in {"clusters", "namespaces", "nodes", "workloads"}}
CloudAccountAdminRoutes ==
    {AdminMounted("GET", "cloud_accounts", H!Listing),
     AdminMounted("POST", "cloud_accounts", H!HandleCreateCloudAccount),
     AdminMounted("GET", "cloud_accounts", H!HandleGetCloudAccount),
     AdminMounted("PATCH", "cloud_accounts", H!HandlePatchCloudAccount),
     AdminMounted("PATCH", "cloud_accounts", H!HandlePatchCloudAccountCredentials),
     AdminMounted("POST", "cloud_accounts", H!HandleDisableCloudAccount),
     AdminMounted("POST", "cloud_accounts", H!HandleEnableCloudAccount),
     AdminMounted("DELETE", "cloud_accounts", H!HandleDeleteCloudAccount)}
CloudAccountTokenRoute ==
    {AdminMounted("POST", "api_tokens", H!HandleCreateCloudAccountToken)}
RegistryCredentialsRoute ==
    {AdminMounted("GET", "image_registries", H!HandleGetImageRegistryCredentials)}
CloudAccountCollectorRoutes ==
    {Mounted("POST", "cloud_accounts", "vm-collector", H!HandleCollectorRegisterCloudAccount),
     Mounted("PATCH", "cloud_accounts", "vm-collector", H!HandleCollectorPatchCloudAccountStatus),
     CredentialsMounted("GET", "cloud_accounts", H!HandleCollectorGetCredentialsByName),
     CredentialsMounted("GET", "cloud_accounts", H!HandleCollectorGetCredentialsByID)}
VirtualMachineRoutes ==
    {Mounted("POST", "virtual_machines", "vm-collector", H!HandleUpsertVirtualMachine),
     Mounted("POST", "security_groups", "vm-collector", H!HandleUpsertVirtualMachineGroups),
     Mounted("POST", "virtual_machines", "vm-collector", H!HandleReconcileVirtualMachines),
     Mounted("GET", "virtual_machines", "read", H!Listing),
     Mounted("GET", "virtual_machines", "read", H!HandleListDistinctVMApplications)}
MachineListRoutes ==
    {Mounted("GET", "nodes", "read", H!HandleListOSImages),
     Mounted("GET", "kube_node_vms", "read", H!Listing),
     Mounted("GET", "kube_node_vms", "read", H!HandleKubeNodeVMSummary),
     Mounted("GET", "image_versions", "read", H!HandleListContainerFreshness),
     ExtractMounted("image_versions", H!HandleContainerFreshnessExtract)}
VirtualMachineItemRoutes ==
    {Mounted("GET", "virtual_machines", "read", H!HandleGetVirtualMachine),
     Mounted("PATCH", "virtual_machines", "write", H!HandlePatchVirtualMachine),
     Mounted("DELETE", "virtual_machines", "delete", H!HandleDeleteVirtualMachine)}
IngestAccountRoutes ==
    {Mounted("POST", "security_groups", "vm-collector", H!HandleSweepSecurityGroups),
     Mounted("POST", "nodes", "vm-collector", H!HandleBackfillNodeImages),
     Mounted("POST", "kube_node_vms", "vm-collector", H!HandleBackfillNodeImagesMachines)}
NetworkReadRoutes ==
    {Mounted("GET", "security_groups", "read", H!Listing),
     Mounted("GET", "security_groups", "read", H!HandleGetSecurityGroup),
     Mounted("GET", "network_policies", "read", H!Listing),
     Mounted("GET", "network_policies", "read", H!HandleGetNetworkPolicy)}
PolicyRoutes ==
    {Mounted("POST", "cluster_policies", "write", H!HandleCreateClusterPolicy),
     Mounted("GET", "cluster_policies", "read", H!Listing),
     Mounted("GET", "cluster_policies", "read", H!HandleGetClusterPolicy),
     Mounted("POST", "policy_reports", "write", H!HandleCreatePolicyReport),
     Mounted("GET", "policy_reports", "read", H!Listing),
     Mounted("GET", "policy_reports", "read", H!HandleGetPolicyReport),
     Mounted("DELETE", "cluster_policies", "write", H!HandleDeleteClusterPolicy),
     Mounted("DELETE", "policy_reports", "write", H!HandleDeletePolicyReport)}
NetworkRulesRoutes ==
    {Mounted("GET", "workloads", "read", H!HandleWorkloadNetworkRules),
     Mounted("GET", "virtual_machines", "read", H!HandleVMNetworkRules)}
FlowMatrixRoutes ==
    {Mounted("GET", "flow_references", "read", H!HandleClusterFlowMatrix),
     ExtractMounted("flow_references", H!HandleFlowMatrixExtract),
     ExtractMounted("flow_references", H!HandleFlowMatrixExtractZip)}
FlowReferenceRoutes ==
    {Mounted("GET", "flow_references", "read", H!HandleListFlowReferences),
     Mounted("GET", "flow_references", "read", H!HandleExportFlowReferences),
     Mounted("POST", "flow_references", "write", H!HandleCreateFlowReference),
     Mounted("POST", "flow_references", "write", H!HandleImportFlowReferences),
     Mounted("PATCH", "flow_references", "write", H!HandleUpdateFlowReference),
     Mounted("DELETE", "flow_references", "write", H!HandleDeleteFlowReference)}
EndpointGroupRoutes ==
    {Unlogged("GET", "endpoint_groups", "admin", "admin", H!HandleListEndpointGroups),
     Unlogged("GET", "endpoint_groups", "admin", "admin", H!HandleGetEndpointGroup),
     AdminMounted("POST", "endpoint_groups", H!HandleCreateEndpointGroup),
     AdminMounted("PATCH", "endpoint_groups", H!HandleUpdateEndpointGroup),
     AdminMounted("DELETE", "endpoint_groups", H!HandleDeleteEndpointGroup)}
ExtractRoutes == {ExtractMounted("workloads", H!Listing)}
ApplicationBlockRoutes ==
    {Mounted("POST", "application_blocks", "write", H!HandleCreateApplicationBlock),
     Mounted("GET", "application_blocks", "read", H!Listing),
     Mounted("GET", "application_blocks", "read", H!HandleGetApplicationBlock),
     Mounted("PATCH", "application_blocks", "write", H!HandlePatchApplicationBlock),
     Mounted("DELETE", "application_blocks", "admin", H!HandleDeleteApplicationBlock)}
ApplicationRoutes ==
    {Mounted("GET", "applications", "read", H!HandleGetApplicationByName),
     Mounted("POST", "applications", "write", H!HandleCreateApplication),
     Mounted("GET", "applications", "read", H!Listing),
     ExtractMounted("applications", H!Listing),
     Mounted("GET", "applications", "read", H!HandleGetApplication),
     Mounted("PATCH", "applications", "write", H!HandlePatchApplication),
     Mounted("DELETE", "applications", "admin", H!HandleDeleteApplication),
     Mounted("GET", "applications", "read", H!HandleGetApplicationEOL)}

(* Reads with ?as_of= are answered before the router sees them. *)
AsOfRoutes ==
    {Unlogged("GET", kind, "plain", "read", H!serveAsOf) :
        kind \in {"clusters", "namespaces", "nodes", "workloads"}}

(* The generated router registers every operation. *)
Generated ==
    {ListClusters, ListNodes, ListNamespaces, ListPods, ListWorkloads,
     ListServices, ListIngresses, ListPersistentVolumes,
     ListPersistentVolumeClaims, GetCluster, GetNode, GetNamespace,
     GetPod, GetWorkload, GetService, GetIngress, GetPersistentVolume,
     GetPersistentVolumeClaim, CreateCluster, CreateNode,
     CreateNamespace, CreatePod, CreateWorkload, CreateService,
     CreateIngress, CreatePersistentVolume, CreatePersistentVolumeClaim,
     UpdateCluster, UpdateNode, UpdateNamespace, UpdatePod,
     UpdateWorkload, UpdateService, UpdateIngress,
     UpdatePersistentVolume, UpdatePersistentVolumeClaim, DeleteCluster,
     DeleteNode, DeleteNamespace, DeletePod, DeleteWorkload,
     DeleteService, DeleteIngress, DeletePersistentVolume,
     DeletePersistentVolumeClaim, ReconcileNodes, ReconcileNamespaces,
     ReconcilePods, ReconcileWorkloads, ReconcileServices,
     ReconcileIngresses, ReconcilePersistentVolumes,
     ReconcilePersistentVolumeClaims, CreateNetworkPolicy,
     ReconcileNetworkPolicies, ListImageVersions, GetImageVersion,
     RefreshImageVersions, ListAuditEvents, ListImageOriginMappings,
     CreateImageOriginMapping, GetImageOriginMapping,
     PatchImageOriginMapping, DeleteImageOriginMapping,
     ListImageRegistries, CreateImageRegistry, PatchImageRegistry,
     DeleteImageRegistry, ListSessions, RevokeSession, ListApiTokens,
     CreateApiToken, RevokeApiToken, ListUsers, CreateUser, GetUser,
     UpdateUser, DeleteUser, ChangePassword, Logout, GetMe, GetHealthz,
     GetReadyz, GetAuthConfig, Login, OidcAuthorize, OidcCallback,
     VerifyToken}

(* Sign-in also writes the row of the user, and the OIDC callback consumes *)
(* the state row of its handshake.                                         *)
LoginUser == Public("POST", "users", "auth", H!LoginUser)
OidcCallbackUser == Bound(Public("GET", "users", "auth", H!OidcCallbackUser))
OidcCallbackState == Bound(Public("GET", "oidc_auth_states", "auth", H!OidcCallbackState))

(* The ingest listener serves these and nothing else. *)
IngestRoutes ==
    {VerifyToken, CreateCluster, UpdateCluster, CreateNode,
     ReconcileNodes, CreateNamespace, ReconcileNamespaces, CreatePod,
     ReconcilePods, CreateWorkload, ReconcileWorkloads, CreateService,
     ReconcileServices, CreateIngress, ReconcileIngresses,
     CreatePersistentVolume, ReconcilePersistentVolumes,
     CreatePersistentVolumeClaim, ReconcilePersistentVolumeClaims,
     CreateNetworkPolicy, ReconcileNetworkPolicies}

Mounts ==
    UNION {SettingsRoutes, OpenapiRoute, ImpactRoute, HistoryRoutes,
           CloudAccountAdminRoutes, CloudAccountTokenRoute,
           RegistryCredentialsRoute, CloudAccountCollectorRoutes,
           VirtualMachineRoutes, MachineListRoutes,
           VirtualMachineItemRoutes, IngestAccountRoutes,
           NetworkReadRoutes, PolicyRoutes, NetworkRulesRoutes,
           FlowMatrixRoutes, FlowReferenceRoutes, EndpointGroupRoutes,
           ExtractRoutes, ApplicationBlockRoutes, ApplicationRoutes,
           AsOfRoutes}

(* The public listener answers 404 for the verification of a token. *)
blockIngestOnlyPaths(routes) == routes \ {VerifyToken}

Surface ==
    blockIngestOnlyPaths(
        Generated \cup {LoginUser, OidcCallbackUser, OidcCallbackState} \cup Mounts)
    \cup IngestRoutes
============================================================================
