------------------------------ MODULE StoreOps ------------------------------
(***************************************************************************)
(* The statements of the Postgres store (internal/store), one definition   *)
(* per method: the steps it takes on the row a request is about, in their  *)
(* order.  What a step does to the row, when it refuses and what it may    *)
(* leave behind is in Access; the steps of one method are separate         *)
(* statements, or the snapshot and the write of one statement, so other    *)
(* requests run between them.  History rows are in HistoryStore, pages of  *)
(* a listing in Lists.                                                     *)
(*                                                                         *)
(*   find, refetch, read, unlock     reads                                 *)
(*   insert, adopt, merge, tryMerge  creation                              *)
(*   snapshot + write, ensure        upserts that report what they did     *)
(*   update, amend, heartbeat        changes to a row that is there        *)
(*   tryAmend, tryReconcile          writes whose failure is only logged   *)
(*   end, revive, revoke             the soft states of a row              *)
(*   remove, discard, replace        deletion                              *)
(*   sweep, sweepEnd                 deletion of what a keep list lacks    *)
(*   guard                           a condition inside the transaction    *)
(*   mask                            from here on every refusal is a 500   *)
(***************************************************************************)
EXTENDS Sequences

(* Reads by key: not found unless the row is there, ended rows included. *)
GetCluster == <<"find">>
GetNode == <<"find">>
GetNamespace == <<"find">>
GetPod == <<"find">>
GetWorkload == <<"find">>
GetService == <<"find">>
GetIngress == <<"find">>
GetPersistentVolume == <<"find">>
GetPersistentVolumeClaim == <<"find">>
GetVirtualMachine == <<"find">>
GetApplication == <<"find">>
GetApplicationByName == <<"find">>
GetApplicationBlock == <<"find">>
GetCloudAccount == <<"find">>
GetCloudAccountByNameAny == <<"find">>
GetClusterPolicy == <<"find">>
GetPolicyReport == <<"find">>
GetNetworkPolicy == <<"find">>
GetSecurityGroup == <<"find">>
GetEndpointGroup == <<"find">>
GetImageOriginMapping == <<"find">>
GetImageVersionsByRepo == <<"find">>
GetImageRegistry == <<"find">>
GetUser == <<"find">>
getAPIToken == <<"find">>

(* Reads that pass whatever they find, and reads of other tables. *)
GetSettings == <<"read">>
NetworkPolicyExists == <<"read">>
GetMirrorAuthToken == <<"read">>
ListImageRegistries == <<"read">>
IsTimeTravelEnabled == <<"read">>
Ping == <<"read">>
ListEndpointGroups == <<"read">>
ListFlowReferences == <<"read">>
ListOSImages == <<"read">>
ListNetworkPolicyRules == <<"read">>
ListNetworkPoliciesForWorkload == <<"read">>
ListSecurityGroupRules == <<"read">>
GetEntityAsOf == <<"read">>
ListEntityHistory == <<"read">>
SummarizeKubeNodeVMs == <<"read">>
ListDistinctVMApplications == <<"read">>

(* The credentials of an account: refused while they are missing or the    *)
(* account is disabled.                                                    *)
GetCloudAccountCredentials == <<"unlock">>

(* Patches: UPDATE by id, which leaves an ended row ended, and a second    *)
(* read of the row.                                                        *)
UpdateCluster == <<"update", "find">>
UpdateNode == <<"update", "find">>
UpdateNamespace == <<"update", "find">>
UpdatePod == <<"update", "find">>
UpdateWorkload == <<"update", "find">>
UpdateService == <<"update", "find">>
UpdateIngress == <<"update", "find">>
UpdatePersistentVolume == <<"update", "find">>
UpdatePersistentVolumeClaim == <<"update", "find">>
UpdateVirtualMachine == <<"update", "find">>
UpdateApplicationLateGuard == <<"update", "guard", "find">>
UpdateApplication == <<"guard", "update", "find">>
UpdateApplicationBlock == <<"update", "find">>
UpdateCloudAccount == <<"guard", "update", "find">>
UpdateEndpointGroup == <<"guard", "update", "find">>
UpdateUserGuarded == <<"guard", "update", "find">>

(* UPDATE ... RETURNING, and updates whose row is not read again. *)
UpdateFlowReference == <<"update">>
UpdateImageRegistry == <<"update">>
PatchImageOriginMapping == <<"update">>
SetUserPassword == <<"update">>
UpdateSettings == <<"update", "find">>
UpdateCloudAccountStatus == <<"heartbeat">>

(* UPDATE of the nodes whose provider id matches, in any cluster and under *)
(* any account: the statement has no account to ask for.                   *)
BackfillNodeImages == <<"amend">>

(* What a sign-in leaves on the row of the user: the caller logs an error  *)
(* and goes on, and a user that is gone is no error.                       *)
IncrementFailedLogin == <<"tryAmend">>
ResetFailedLogin == <<"tryAmend">>
TouchUserLogin == <<"tryAmend">>

(* Hard deletes by key. *)
DeleteNode == <<"remove">>
DeletePod == <<"remove">>
DeleteWorkload == <<"remove">>
DeleteService == <<"remove">>
DeleteIngress == <<"remove">>
DeletePersistentVolume == <<"remove">>
DeletePersistentVolumeClaim == <<"remove">>
DeleteApplication == <<"remove">>
DeleteApplicationBlock == <<"remove">>
DeleteCloudAccount == <<"remove">>
DeleteClusterPolicy == <<"remove">>
DeletePolicyReport == <<"remove">>
DeleteEndpointGroup == <<"remove">>
DeleteFlowReference == <<"remove">>
DeleteImageOriginMapping == <<"remove">>
DeleteImageRegistry == <<"remove">>
DeleteSessionByPublicID == <<"remove">>
ConsumeOidcAuthState == <<"remove">>
DeleteSession == <<"discard">>
DeleteUserGuarded == <<"guard", "remove">>

(* Soft deletes, which succeed on a row that ended before, and the way     *)
(* back: storing credentials also activates the account.                   *)
SoftDeleteCluster == <<"end">>
SoftDeleteNamespace == <<"end">>
DeleteVirtualMachine == <<"end">>
DisableCloudAccount == <<"end">>
EnableCloudAccount == <<"revive">>
SetCloudAccountCredentials == <<"revive", "find">>
RevokeAPIToken == <<"revoke">>

(* Inserts that conflict with a row of the same key, some with a second    *)
(* read.                                                                   *)
CreateEndpointGroup == <<"insert", "mask", "find">>
CreateImageOriginMapping == <<"insert">>
CreateImageRegistry == <<"insert">>
CreateFlowReference == <<"insert">>
CreateUser == <<"insert", "mask", "find">>
CreateAPIToken == <<"insert", "mask">> \o getAPIToken
CreateSession == <<"insert">>
CreateOidcAuthState == <<"insert">>

(* Inserts whose conflict the handler answers with the row that is there;  *)
(* one that was inserted and is gone when it is read again is a 500.       *)
CreateApplicationBlock == <<"adopt">>
CreateUserWithIdentity == <<"adopt">>
CreateApplication == <<"adopt">> \o GetApplication

(* Reads by name of a row this request did not insert. *)
GetApplicationBlockByName == <<"refetch">>
GetClusterByName == <<"refetch">>

(* Upserts that report whether a business column changed: the old row is   *)
(* read in the snapshot of the statement, the write sees the latest row.   *)
UpsertNode == <<"snapshot", "write">>
UpsertNamespace == <<"snapshot", "write">>
UpsertPod == <<"snapshot", "write">>
UpsertWorkload == <<"snapshot", "write">>
UpsertService == <<"snapshot", "write">>
UpsertIngress == <<"snapshot", "write">>
UpsertPersistentVolume == <<"snapshot", "write">>
UpsertPersistentVolumeClaim == <<"snapshot", "write">>
UpsertVirtualMachine == <<"guard", "snapshot", "write">>

(* Upserts without a report; a policy or report the collector owns is left *)
(* alone.                                                                  *)
UpsertCloudAccount == <<"merge">>
UpsertNetworkPolicy == <<"merge">>
UpsertSecurityGroup == <<"tryMerge">>
UpsertClusterPolicy == <<"guard", "merge">>
UpsertPolicyReport == <<"guard", "merge">>

(* The machines of an account that carry a cluster tag: those listed are   *)
(* upserted, the others deleted, in one transaction.                       *)
ReconcileKubeNodeVMs == <<"tryReconcile">>

(* EnsureCluster reads the row by name, restores, refreshes or inserts it, *)
(* and reads it again.                                                     *)
EnsureCluster == <<"snapshot", "ensure", "mask">> \o GetClusterByName

(* Sweeps end or delete what the keep list leaves out; ended rows are not  *)
(* counted again.                                                          *)
DeleteNodesNotIn == <<"sweepEnd">>
DeleteNamespacesNotIn == <<"sweepEnd">>
DeleteWorkloadsNotIn == <<"sweepEnd">>
ReconcileVirtualMachines == <<"sweepEnd">>
DeletePodsNotIn == <<"sweep">>
DeleteServicesNotIn == <<"sweep">>
DeleteIngressesNotIn == <<"sweep">>
DeletePersistentVolumesNotIn == <<"sweep">>
DeletePersistentVolumeClaimsNotIn == <<"sweep">>
SweepNetworkPoliciesByNamespaceWithCount == <<"sweep">>
SweepSecurityGroupsByAccount == <<"sweep">>
ReplaceFlowReferences == <<"replace", "read">>
============================================================================
