------------------------------ MODULE Handlers ------------------------------
(***************************************************************************)
(* The HTTP handlers, one definition per Go function: the set of plans a   *)
(* request may put it through, a plan being the sequence of steps in the   *)
(* order of the code.  A handler has several plans where an optional part  *)
(* of the request adds statements.  Steps of its own:                      *)
(*                                                                         *)
(*   check      validation of the request, or a scope asked for again      *)
(*   bind       EnforceCloudAccountBinding                                 *)
(*   human      the caller has to be a user, not a token                   *)
(*   deny       the request is refused whatever the row says               *)
(*   try        a part that may answer 5xx (a missing master key)          *)
(*   elsewhere  an upsert of another table, whose outcome comes back       *)
(*   skipIdle   SetAuditSkip when nothing was inserted, changed or deleted *)
(*   skipUncreated  SetAuditSkip unless the row was inserted               *)
(***************************************************************************)
EXTENDS Sequences

S == INSTANCE StoreOps

Check == <<"check">>
Bind == <<"bind">>
SkipIdle == <<"skipIdle">>
SkipUncreated == <<"skipUncreated">>

(* Shared parts of the handlers. *)
ResolveApplicationID == <<"check", "read">>
diffVMApplications == Check
requirePoliciesEnabled == S!GetSettings \o Check
checkTimeTravelEnabled == S!IsTimeTravelEnabled \o <<"try">>
respondCredentials == <<"try">> \o S!GetCloudAccountCredentials \o <<"try">>

(* The generated operations of internal/api/server.go: creation. *)
CreateCluster == {Check \o S!EnsureCluster \o SkipUncreated}
CreateNode == {Check \o S!UpsertNode \o SkipIdle}
CreateNamespace == {Check \o S!UpsertNamespace \o SkipIdle}
CreatePod == {Check \o S!UpsertPod \o SkipIdle}
CreateWorkload == {Check \o S!UpsertWorkload \o SkipIdle}
CreateService == {Check \o S!UpsertService \o SkipIdle}
CreateIngress == {Check \o S!UpsertIngress \o SkipIdle}
CreatePersistentVolume == {Check \o S!UpsertPersistentVolume \o SkipIdle}
CreatePersistentVolumeClaim == {Check \o S!UpsertPersistentVolumeClaim \o SkipIdle}

(* Reads, patches and deletes by id. *)
GetCluster == {S!GetCluster}
GetNode == {S!GetNode}
GetNamespace == {S!GetNamespace}
GetPod == {S!GetPod}
GetWorkload == {S!GetWorkload}
GetService == {S!GetService}
GetIngress == {S!GetIngress}
GetPersistentVolume == {S!GetPersistentVolume}
GetPersistentVolumeClaim == {S!GetPersistentVolumeClaim}
UpdateCluster == {Check \o S!UpdateCluster}
UpdateNode == {Check \o S!UpdateNode}
UpdateNamespace == {Check \o S!UpdateNamespace}
UpdatePod == {Check \o S!UpdatePod}
UpdateWorkload ==
    {Check \o link \o S!UpdateWorkload : link \in {<<>>, ResolveApplicationID}}
UpdateService == {Check \o S!UpdateService}
UpdateIngress == {Check \o S!UpdateIngress}
UpdatePersistentVolume == {Check \o S!UpdatePersistentVolume}
UpdatePersistentVolumeClaim == {Check \o S!UpdatePersistentVolumeClaim}
DeleteCluster == {S!GetCluster \o S!SoftDeleteCluster}
DeleteNode == {S!DeleteNode}
DeleteNamespace == {S!SoftDeleteNamespace}
DeletePod == {S!DeletePod}
DeleteWorkload == {S!DeleteWorkload}
DeleteService == {S!DeleteService}
DeleteIngress == {S!DeleteIngress}
DeletePersistentVolume == {S!DeletePersistentVolume}
DeletePersistentVolumeClaim == {S!DeletePersistentVolumeClaim}

(* Reconciliation against a keep list. *)
ReconcileNodes == {Check \o S!DeleteNodesNotIn \o SkipIdle}
ReconcileNamespaces == {Check \o S!DeleteNamespacesNotIn \o SkipIdle}
ReconcilePods == {Check \o S!DeletePodsNotIn \o SkipIdle}
ReconcileWorkloads == {Check \o S!DeleteWorkloadsNotIn \o SkipIdle}
ReconcileServices == {Check \o S!DeleteServicesNotIn \o SkipIdle}
ReconcileIngresses == {Check \o S!DeleteIngressesNotIn \o SkipIdle}
ReconcilePersistentVolumes == {Check \o S!DeletePersistentVolumesNotIn \o SkipIdle}
ReconcilePersistentVolumeClaims ==
    {Check \o S!DeletePersistentVolumeClaimsNotIn \o SkipIdle}

(* Health, and the reads of a listing: Lists has their pages. *)
GetHealthz == {<<>>}
GetReadyz == {S!Ping}
Listing == {Check \o <<"read">>}

(* Images, registries and origins. *)
GetImageVersion == {S!GetImageVersionsByRepo}
RefreshImageVersions == {S!GetSettings \o Check}
ListImageRegistries == {S!ListImageRegistries}
CreateImageRegistry == {Check \o S!CreateImageRegistry}
PatchImageRegistry == {S!UpdateImageRegistry}
DeleteImageRegistry == {S!DeleteImageRegistry}
GetImageOriginMapping == {S!GetImageOriginMapping}
CreateImageOriginMapping == {Check \o S!CreateImageOriginMapping}
PatchImageOriginMapping == {Check \o S!PatchImageOriginMapping}
DeleteImageOriginMapping == {S!DeleteImageOriginMapping}
HandleGetImageRegistryCredentials ==
    {Check \o S!GetImageRegistry \o Check \o <<"mask">> \o S!GetMirrorAuthToken}

(* Users, sessions and tokens, seen as rows; Accounts has their statements *)
(* in full.                                                                *)
GetUser == {S!GetUser}
CreateUser == {Check \o S!CreateUser}
UpdateUser ==
    {Check \o password \o S!UpdateUserGuarded : password \in {<<>>, S!SetUserPassword}}
DeleteUser == {Check \o S!DeleteUserGuarded}
ChangePassword ==
    {<<"human">> \o Check \o <<"read">> \o Check \o <<"mask">> \o S!SetUserPassword}
GetMe == {<<>>}
Logout == {S!DeleteSession}
RevokeSession == {Check \o S!DeleteSessionByPublicID}
CreateApiToken == {Check \o <<"mask">> \o S!CreateAPIToken}
RevokeApiToken == {S!RevokeAPIToken}
GetAuthConfig == {<<>>}
OidcAuthorize == {Check \o <<"mask">> \o S!CreateOidcAuthState}

(* Every failure up to the password is a 401, that of the lookup included. *)
(* A callback that fails redirects to the login page, here like a refusal  *)
(* or a failure.  Sign-in writes two tables: the session, and the user.    *)
credentials == Check \o Check
Login == {credentials \o Check \o <<"mask">> \o S!CreateSession}
LoginUser ==
    {credentials \o S!IncrementFailedLogin \o <<"deny">>,
     credentials \o Check \o <<"try">> \o S!ResetFailedLogin \o S!TouchUserLogin}
OidcCallback == {Check \o <<"read">> \o Check \o <<"mask">> \o S!CreateSession}
findOrCreateOidcUser == S!CreateUserWithIdentity
OidcCallbackUser ==
    {Check \o Check \o findOrCreateOidcUser \o <<"try">> \o S!TouchUserLogin}
OidcCallbackState == {Check \o S!ConsumeOidcAuthState \o <<"read">>}
VerifyToken == {Check \o <<"read">>}

(* Network policies pushed by a collector, and their reads. *)
CreateNetworkPolicy ==
    {S!NetworkPolicyExists \o <<"mask">> \o S!UpsertNetworkPolicy \o S!GetNetworkPolicy}
ReconcileNetworkPolicies == {S!SweepNetworkPoliciesByNamespaceWithCount \o SkipIdle}
HandleGetNetworkPolicy == {Check \o S!GetNetworkPolicy \o S!ListNetworkPolicyRules}
HandleWorkloadNetworkRules == {Check \o S!GetWorkload \o S!ListNetworkPoliciesForWorkload}
HandleVMNetworkRules == {Check \o S!GetVirtualMachine}

(* Cloud accounts: administrators, then collectors, whose token is bound to*)
(* one account.                                                            *)
HandleCreateCloudAccount ==
    {Check \o S!UpsertCloudAccount \o <<"mask">> \o metadata \o keys :
        metadata \in {<<>>, S!UpdateCloudAccount},
        keys \in {<<>>, <<"try">> \o S!SetCloudAccountCredentials}}
HandleGetCloudAccount == {Check \o S!GetCloudAccount}
HandlePatchCloudAccount == {Check \o S!UpdateCloudAccount}
HandlePatchCloudAccountCredentials == {Check \o <<"try">> \o S!SetCloudAccountCredentials}
HandleDisableCloudAccount == {Check \o S!DisableCloudAccount}
HandleEnableCloudAccount == {Check \o S!EnableCloudAccount}
HandleDeleteCloudAccount == {Check \o S!DeleteCloudAccount}
HandleCreateCloudAccountToken ==
    {Check \o <<"read">> \o Check \o <<"mask">> \o S!CreateAPIToken}
HandleCollectorRegisterCloudAccount ==
    {Check \o S!UpsertCloudAccount \o Bind}
HandleCollectorPatchCloudAccountStatus ==
    {Check \o Bind \o Check \o S!UpdateCloudAccountStatus}
HandleCollectorGetCredentialsByName ==
    {Check \o S!GetCloudAccountByNameAny \o Bind \o respondCredentials}
HandleCollectorGetCredentialsByID ==
    {Check \o Bind \o S!GetCloudAccount \o respondCredentials}

(* Virtual machines, and what their ingestion leaves in the tables of      *)
(* security groups, nodes and cluster machines.                            *)
HandleUpsertVirtualMachine == {Check \o Bind \o S!UpsertVirtualMachine \o SkipIdle}
HandleUpsertVirtualMachineGroups ==
    {Check \o Bind \o <<"elsewhere">> \o S!UpsertSecurityGroup \o SkipIdle}
HandleReconcileVirtualMachinesUnbound ==
    {Check \o S!ReconcileVirtualMachines \o SkipIdle}
HandleReconcileVirtualMachines == {Check \o Bind \o S!ReconcileVirtualMachines \o SkipIdle}
HandleGetVirtualMachine == {Check \o S!GetVirtualMachine}
HandlePatchVirtualMachine == {Check \o link \o apps \o S!UpdateVirtualMachine :
        link \in {<<>>, ResolveApplicationID}, apps \in {<<>>, diffVMApplications}}
HandleDeleteVirtualMachine == {Check \o S!DeleteVirtualMachine}
HandleListDistinctVMApplications == {Check \o S!ListDistinctVMApplications}
HandleSweepSecurityGroups ==
    {Check \o Bind \o Check \o S!SweepSecurityGroupsByAccount \o enrichment :
        enrichment \in {<<>>, S!UpsertSecurityGroup}}
HandleGetSecurityGroup == {Check \o S!GetSecurityGroup \o S!ListSecurityGroupRules}

(* The token has to be bound to the account in the path.  That says        *)
(* nothing of the nodes whose provider id matches, which may be anybody's: *)
(* for them the binding is one more check.  The machines are the account's.*)
HandleBackfillNodeImages == {Check \o Check \o S!BackfillNodeImages}
HandleBackfillNodeImagesMachines ==
    {Check \o Bind \o Check \o <<"try">> \o S!ReconcileKubeNodeVMs}
HandleKubeNodeVMSummary == {Check \o S!SummarizeKubeNodeVMs}
HandleListOSImages == {Check \o S!ListOSImages}

(* Policies and policy reports written through the API. *)
HandleCreateClusterPolicy ==
    {Check \o requirePoliciesEnabled \o Check \o S!UpsertClusterPolicy}
HandleGetClusterPolicy == {Check \o requirePoliciesEnabled \o Check \o S!GetClusterPolicy}
HandleDeleteClusterPolicy ==
    {Check \o requirePoliciesEnabled \o Check \o S!DeleteClusterPolicy}
HandleCreatePolicyReport ==
    {Check \o requirePoliciesEnabled \o Check \o S!UpsertPolicyReport}
HandleGetPolicyReport == {Check \o requirePoliciesEnabled \o Check \o S!GetPolicyReport}
HandleDeletePolicyReport ==
    {Check \o requirePoliciesEnabled \o Check \o S!DeletePolicyReport}

(* Flow references, the flow matrix and endpoint groups. *)
HandleListFlowReferences == {Check \o S!ListFlowReferences}
HandleExportFlowReferences == {Check \o S!ListFlowReferences}
HandleCreateFlowReference == {Check \o <<"mask">> \o S!CreateFlowReference}
HandleUpdateFlowReference == {Check \o S!UpdateFlowReference}
HandleDeleteFlowReference == {Check \o S!DeleteFlowReference}
HandleImportFlowReferences == {Check \o <<"mask">> \o S!ReplaceFlowReferences}
HandleClusterFlowMatrix == {Check \o S!GetSettings \o <<"read">>}
HandleFlowMatrixExtract == {Check \o S!GetSettings \o <<"read">>}
HandleFlowMatrixExtractZip == {Check \o S!GetSettings \o <<"read">>}
HandleListEndpointGroups == {S!ListEndpointGroups}
HandleGetEndpointGroup == {Check \o S!GetEndpointGroup}
HandleCreateEndpointGroup == {Check \o S!CreateEndpointGroup}
HandleUpdateEndpointGroup == {Check \o S!UpdateEndpointGroup}
HandleDeleteEndpointGroup == {Check \o S!DeleteEndpointGroup}

(* Applications and their blocks: creating one that exists answers with it. *)
HandleCreateApplicationBlock ==
    {Check \o S!CreateApplicationBlock \o S!GetApplicationBlockByName}
HandleGetApplicationBlock == {Check \o S!GetApplicationBlock}
HandlePatchApplicationBlock == {Check \o S!UpdateApplicationBlock}
HandleDeleteApplicationBlock == {Check \o S!DeleteApplicationBlock}
HandleCreateApplication == {Check \o S!CreateApplication}
HandleGetApplication == {Check \o S!GetApplication}
HandleGetApplicationByName == {Check \o S!GetApplicationByName}
HandlePatchApplication == {Check \o S!UpdateApplication}
HandleDeleteApplication == {Check \o S!DeleteApplication}
HandleGetApplicationEOL == {Check \o S!GetApplication \o <<"read">>}

(* Settings, history and extracts. *)
HandleGetSettings == {Check \o S!GetSettings}
HandleUpdateSettings == {Check \o <<"mask">> \o S!UpdateSettings}
HandleEntityHistory == {checkTimeTravelEnabled \o Check \o S!ListEntityHistory}
serveAsOf == {checkTimeTravelEnabled \o Check \o S!GetEntityAsOf \o Check}
HandleContainerFreshnessExtract == {Check \o <<"read">>}
HandleListContainerFreshness == {Check \o <<"read">>}
============================================================================
