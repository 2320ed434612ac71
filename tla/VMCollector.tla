----------------------------- MODULE VMCollector -----------------------------
(***************************************************************************)
(* The cloud VM collector (internal/vmcollector), one process bound by its *)
(* token to one cloud account, and the server side of every call it makes. *)
(*                                                                         *)
(* A tick obtains the account's credentials from longue-vue, lists the     *)
(* VMs and the security groups of the cloud account, posts each VM that    *)
(* carries no drop tag, pushes the Kubernetes-tagged ones for              *)
(* reconciliation against the nodes table, sweeps the security groups,     *)
(* tombstones the VMs it did not post and reports the account's status.    *)
(* The cloud, the Kubernetes collectors and the administrators move        *)
(* between any two of these steps, and any call may fail before or after   *)
(* it took effect.                                                         *)
(*                                                                         *)
(* Provider data is abstracted to what these steps tell apart: whether a   *)
(* VM exists, its drop tag, its age against the grace period, the groups   *)
(* attached to it.  Deleting the collector's own account, which also       *)
(* deletes its token and every row below, is not modelled.                 *)
(***************************************************************************)
EXTENDS Naturals

CONSTANTS
  VMs,         \* provider VM identifiers
  Groups,      \* provider security group identifiers
  Attached,    \* the groups a VM is created with
  Populations, \* what the cloud account may hold at first: a tag for each VM of it
  Cluster,     \* the cluster hint (or tag) a Kubernetes-tagged VM carries
  Reconcile,   \* LONGUE_VUE_VM_COLLECTOR_RECONCILE
  MaxChanges,  \* how often cloud, nodes table and administrators change something
  MaxFaults    \* how many calls fail and how often the collector restarts

ASSUME AttachedAssumption == Attached \in [VMs -> SUBSET Groups]
ASSUME PopulationsAssumption ==
  Populations \subseteq [VMs -> {"plain", "kube", "ignore", "absent"}]
ASSUME ReconcileAssumption == Reconcile \in BOOLEAN
ASSUME BoundsAssumption == MaxChanges \in Nat /\ MaxFaults \in Nat

VARIABLES
  cloud,     \* the VMs that exist at the provider
  tag,       \* the drop tag each VM carries there
  young,     \* the VMs still inside the kube-node grace period
  grp,       \* the security groups that exist at the provider
  nodes,     \* the nodes row whose provider_id names the VM
  account,   \* the cloud_accounts row the token is bound to
  phantom,   \* a second row holds the configured account name
  flow,      \* settings.flow_matrix_enabled
  vm,        \* virtual_machines rows of the account
  kvm,       \* kube_node_vms rows of the account, by status
  sg,        \* security_groups rows of the account
  rules,     \* the groups whose security_group_rules are stored
  att,       \* the VMs with vm_security_group_attachments rows
  known,     \* Collector.accountID is set
  prov,      \* Collector.provider is built
  fresh,     \* the cached credentials are younger than CredentialRefresh
  pc,        \* where the tick is
  listed,    \* vms: the VMs ListVMs returned
  ltag,      \* their tags in that answer
  enum,      \* accountSGs: what GetSecurityGroups returned
  enumOK,    \* that call succeeded
  todo,      \* the kept VMs not posted yet
  checked,   \* the VM whose dedup query found no node, before its insert
  keep,      \* the VMs posted
  quiet,     \* nothing outside the collector changed since the tick began
  sound,     \* no call of the tick failed and it did not return early
  changes, faults

world == <<cloud, tag, young, grp, nodes>>
admin == <<account, phantom, flow>>
tables == <<vm, kvm, sg, rules, att>>
memory == <<known, prov, fresh>>
tick == <<listed, ltag, enum, enumOK, todo, checked, keep>>
vars == <<cloud, tag, young, grp, nodes, account, phantom, flow,
          vm, kvm, sg, rules, att, known, prov, fresh,
          pc, listed, ltag, enum, enumOK, todo, checked, keep,
          quiet, sound, changes, faults>>

Tags == {"plain", "kube", "ignore"}
NoTags == [v \in VMs |-> "plain"]
Rows == {"none", "live", "terminated"}
Statuses == {"pending_credentials", "active", "error", "disabled"}
KubeStatuses == {"none", "node", "pending", "orphan", "unknown_cluster"}
Steps == {"idle", "fetch", "register", "recover", "build", "list", "groups",
          "upsert", "backfill", "sweep", "reconcile", "status", "report"}

------------------------------------------------------------------------------
(* Pure parts of a tick. *)

\* filter.Apply: no drop tag at all.
Apply(vms, t) == {v \in vms : t[v] = "plain"}

\* filter.KubeNodeVMs: Kubernetes-tagged and not opted out.
KubeNodeVMs(vms, t) == {v \in vms : t[v] = "kube"}

\* buildSGAttachments: the listed VMs that carry a group, dropped or not.
SGAttachments(vms) == {v \in vms : Attached[v] # {}}

\* The provider keeps a group alive while it is attached to a VM.
GroupsOf(vms) == UNION {Attached[v] : v \in vms}

\* Variant: without an enumeration only the posted VMs' groups count as seen.
SeenOnKeptVMs ==
  IF enumOK THEN enum ELSE GroupsOf(Apply(listed, ltag))

\* computeSweepSeenIDs: the enumeration, or what was seen on the listed VMs.
computeSweepSeenIDs ==
  IF enumOK THEN enum ELSE GroupsOf(Apply(listed, ltag)) \cup GroupsOf(listed)

\* The status query of ReconcileKubeNodeVMs for row v of the set kube: a live
\* node, else the grace period, else a sibling of the same cluster that
\* matched a live node.
KubeStatus(v, kube) ==
  CASE nodes[v] = "live" -> "node"
    [] nodes[v] # "live" /\ v \in young -> "pending"
    [] /\ nodes[v] # "live" /\ v \notin young
       /\ \E w \in kube : nodes[w] = "live" /\ Cluster[w] = Cluster[v] -> "orphan"
    [] OTHER -> "unknown_cluster"

\* ReconcileKubeNodeVMs: a full-set reconcile of the account's rows.
KubeRows(kube) ==
  [v \in VMs |-> IF v \in kube THEN KubeStatus(v, kube) ELSE "none"]

------------------------------------------------------------------------------
(* The account starts registered and bound, with or without credentials. *)
Init ==
  /\ \E p \in Populations :
       /\ cloud = {v \in VMs : p[v] # "absent"}
       /\ tag = [v \in VMs |-> IF p[v] = "absent" THEN "plain" ELSE p[v]]
  /\ young = {}
  /\ grp = Groups
  /\ nodes = [v \in VMs |-> "none"]
  /\ account \in {[named |-> TRUE, keys |-> FALSE, status |-> "pending_credentials"],
                  [named |-> TRUE, keys |-> TRUE, status |-> "active"]}
  /\ phantom = FALSE
  /\ flow \in BOOLEAN
  /\ vm = [v \in VMs |-> "none"]
  /\ kvm = [v \in VMs |-> "none"]
  /\ sg = {} /\ rules = {} /\ att = {}
  /\ known = FALSE /\ prov = FALSE /\ fresh = FALSE
  /\ pc = "idle"
  /\ listed = {} /\ ltag = NoTags /\ enum = {} /\ enumOK = FALSE
  /\ todo = {} /\ checked = {} /\ keep = {}
  /\ quiet = FALSE /\ sound = FALSE
  /\ changes = 0 /\ faults = 0

Fault ==
  /\ faults < MaxFaults
  /\ faults' = faults + 1
  /\ sound' = FALSE

NoFault == UNCHANGED <<sound, faults>>

\* The tick returns; what it held in local variables is gone.
Return ==
  /\ pc' = "idle"
  /\ listed' = {} /\ enum' = {} /\ enumOK' = FALSE
  /\ todo' = {} /\ checked' = {} /\ keep' = {} /\ ltag' = NoTags

------------------------------------------------------------------------------
(* ensureCredentials. *)

\* runOnce begins; cached credentials are used while they are fresh.
BeginTick ==
  /\ pc = "idle"
  /\ quiet' = TRUE /\ sound' = TRUE
  /\ pc' = IF known /\ prov /\ fresh THEN "list" ELSE "fetch"
  /\ UNCHANGED <<world, admin, tables, memory, tick, changes, faults>>

\* What GET .../by-name/{name}/credentials answers: 404 when the name is not
\* that of the bound account or it has no credentials, 403 when disabled.
CredentialsAnswer ==
  CASE ~account.named \/ account.status = "pending_credentials" -> "not_registered"
    [] account.named /\ account.status = "disabled" -> "disabled"
    [] OTHER -> IF account.keys THEN "credentials" ELSE "not_registered"

FetchCredentialsByName ==
  /\ pc = "fetch"
  /\ \/ /\ CredentialsAnswer = "credentials"
        /\ pc' = IF known THEN "build" ELSE "recover"
        /\ UNCHANGED <<tick, sound>>
     \/ /\ CredentialsAnswer = "not_registered"
        /\ pc' = "register"
        /\ UNCHANGED <<tick, sound>>
     \/ /\ CredentialsAnswer = "disabled"
        /\ sound' = FALSE
        /\ Return
  /\ UNCHANGED <<world, admin, tables, memory, quiet, changes, faults>>

\* POST /v1/cloud-accounts upserts by name first and checks the token's binding
\* after: with the bound account renamed it creates a second row and answers
\* 403.  After a 404 the tick ends even when registration succeeds; after a
\* successful fetch it only recovers the account id.
RegisterCloudAccount ==
  /\ pc \in {"register", "recover"}
  /\ phantom' = (phantom \/ ~account.named)
  /\ IF account.named /\ pc = "recover"
     THEN /\ pc' = "build"
          /\ UNCHANGED <<tick, sound, known>>
     ELSE /\ known' = (known \/ account.named)
          /\ sound' = FALSE
          /\ Return
  /\ UNCHANGED <<world, account, flow, tables, prov, fresh, quiet, changes, faults>>

\* The provider client is built and everything is cached.
BuildProvider ==
  /\ pc = "build"
  /\ known' = TRUE /\ prov' = TRUE /\ fresh' = TRUE
  /\ pc' = "list"
  /\ NoFault
  /\ UNCHANGED <<world, admin, tables, tick, quiet, changes>>

\* Any of these calls fails; registration may have taken effect unanswered.
CredentialsFail ==
  /\ pc \in {"fetch", "register", "recover", "build"}
  /\ Fault
  /\ \/ phantom' = phantom
     \/ /\ pc \in {"register", "recover"}
        /\ phantom' = (phantom \/ ~account.named)
  /\ Return
  /\ UNCHANGED <<world, account, flow, tables, memory, quiet, changes>>

\* CredentialRefresh elapses.
CredentialsAge ==
  /\ fresh
  /\ fresh' = FALSE
  /\ UNCHANGED <<world, admin, tables, known, prov, pc, tick, quiet, sound, changes, faults>>

------------------------------------------------------------------------------
(* Listing. *)

ListVMs ==
  /\ pc = "list"
  /\ listed' = cloud
  /\ ltag' = tag
  /\ pc' = "groups"
  /\ UNCHANGED <<world, admin, tables, memory, enum, enumOK, todo, checked, keep,
                 quiet, sound, changes, faults>>

ListVMsFails ==
  /\ pc = "list"
  /\ Fault
  /\ pc' = "report"
  /\ UNCHANGED <<world, admin, tables, memory, tick, quiet, changes>>

\* A failed enumeration does not abort the tick.
GetSecurityGroups ==
  /\ pc = "groups"
  /\ \/ enum' = grp /\ enumOK' = TRUE /\ NoFault
     \/ enum' = {} /\ enumOK' = FALSE /\ Fault
  /\ todo' = Apply(listed, ltag)
  /\ pc' = "upsert"
  /\ UNCHANGED <<world, admin, tables, memory, listed, ltag, checked, keep, quiet, changes>>

------------------------------------------------------------------------------
(* POST /v1/virtual-machines: a COUNT over nodes, then an INSERT, not in one *)
(* transaction; then the groups of the VM, whose payload carries no rules.   *)

\* Variant: the 409 of a VM already known as a node ends the tick.
ConflictAborts(v) ==
  /\ pc = "upsert" /\ v \in todo /\ checked = {}
  /\ IF nodes[v] # "none"
     THEN pc' = "report" /\ sound' = FALSE /\ UNCHANGED checked
     ELSE checked' = {v} /\ UNCHANGED <<pc, sound>>
  /\ UNCHANGED <<world, admin, tables, memory, listed, ltag, enum, enumOK, todo, keep,
                 quiet, changes, faults>>

\* 409 when any nodes row, terminated or not, names the VM: it is skipped.
DedupCheck(v) ==
  /\ pc = "upsert" /\ v \in todo /\ checked = {}
  /\ IF nodes[v] # "none"
     THEN todo' = todo \ {v} /\ UNCHANGED checked
     ELSE checked' = {v} /\ UNCHANGED todo
  /\ UNCHANGED <<world, admin, tables, memory, pc, listed, ltag, enum, enumOK, keep,
                 quiet, sound, changes, faults>>

PersistVM(v) == vm' = [vm EXCEPT ![v] = "live"] /\ UNCHANGED <<kvm, att>>

\* persistSGsFromVMIngest: upsertCanonicalSG replaces the rules by none.
PersistGroups(v) == sg' = sg \cup Attached[v] /\ rules' = rules \ Attached[v]

\* Group by group, and best effort: some rows written, of those some rules.
PersistSomeGroups(v) ==
  \E S \in SUBSET Attached[v] : \E R \in SUBSET S : sg' = sg \cup S /\ rules' = rules \ R

\* A failure to write the groups is logged, not answered.
UpsertVirtualMachine(v) ==
  /\ pc = "upsert" /\ v \in checked
  /\ PersistVM(v)
  /\ \/ PersistGroups(v) /\ NoFault
     \/ PersistSomeGroups(v) /\ Fault
  /\ todo' = todo \ {v}
  /\ checked' = {}
  /\ keep' = keep \cup {v}
  /\ UNCHANGED <<world, admin, memory, pc, listed, ltag, enum, enumOK, quiet, changes>>

\* Variant: the loop goes on with the next VM after a failed post.
FailedUpsertSkipped(v) ==
  /\ pc = "upsert" /\ v \in todo /\ checked \subseteq {v}
  /\ Fault
  /\ UNCHANGED tables
  /\ todo' = todo \ {v} /\ checked' = {}
  /\ UNCHANGED <<world, admin, memory, pc, listed, ltag, enum, enumOK, keep, quiet, changes>>

\* Any other answer, or none, ends the tick: nothing is tombstoned after it.
UpsertFails(v) ==
  /\ pc = "upsert" /\ v \in todo /\ checked \subseteq {v}
  /\ Fault
  /\ \/ UNCHANGED tables
     \/ v \in checked /\ PersistVM(v) /\ PersistSomeGroups(v)
  /\ pc' = "report"
  /\ UNCHANGED <<world, admin, memory, tick, quiet, changes>>

UpsertsDone ==
  /\ pc = "upsert" /\ todo = {}
  /\ pc' = "backfill"
  /\ UNCHANGED <<world, admin, tables, memory, tick, quiet, sound, changes, faults>>

------------------------------------------------------------------------------
(* The calls after the loop.  A failed one may have taken effect. *)

\* Variant: an empty batch is not posted.
EmptyBatchSkipped ==
  /\ pc = "backfill"
  /\ kvm' = IF KubeNodeVMs(listed, ltag) = {} THEN kvm
            ELSE KubeRows(KubeNodeVMs(listed, ltag))
  /\ NoFault
  /\ pc' = "sweep"
  /\ UNCHANGED <<world, admin, vm, sg, rules, att, memory, tick, quiet, changes>>

\* The kube-tagged batch is posted even when it is empty.
BackfillNodeImages ==
  /\ pc = "backfill"
  /\ \/ kvm' = KubeRows(KubeNodeVMs(listed, ltag)) /\ NoFault
     \/ kvm' \in {kvm, KubeRows(KubeNodeVMs(listed, ltag))} /\ Fault
  /\ pc' = "sweep"
  /\ UNCHANGED <<world, admin, vm, sg, rules, att, memory, tick, quiet, changes>>

\* HandleSweepSecurityGroups: delete-unseen, then, with the flow matrix on, the
\* enumerated groups with their rules and the attachments of every listed VM.
Sweep ==
  /\ sg' = (sg \cap computeSweepSeenIDs) \cup (IF flow THEN enum ELSE {})
  /\ rules' = (rules \cap computeSweepSeenIDs) \cup (IF flow THEN enum ELSE {})
  /\ att' = IF flow THEN SGAttachments(listed) ELSE att

\* The deletion took effect and the best-effort enrichment did so in part.
SweepInPart ==
  \E G \in SUBSET (IF flow THEN enum ELSE {}) : \E R \in SUBSET G :
    /\ sg' = (sg \cap computeSweepSeenIDs) \cup G
    /\ rules' = (rules \cap computeSweepSeenIDs) \cup R
    /\ att' \in IF flow THEN SUBSET (att \cup SGAttachments(listed)) ELSE {att}

SweepSecurityGroups ==
  /\ pc = "sweep"
  /\ \/ Sweep /\ NoFault
     \/ (SweepInPart \/ UNCHANGED <<sg, rules, att>>) /\ Fault
  /\ pc' = IF Reconcile THEN "reconcile" ELSE "status"
  /\ UNCHANGED <<world, admin, vm, kvm, memory, tick, quiet, changes>>

Tombstone(kept) ==
  vm' = [v \in VMs |-> IF vm[v] = "live" /\ v \notin kept THEN "terminated" ELSE vm[v]]

ReconcileVirtualMachines ==
  /\ pc = "reconcile"
  /\ Tombstone(keep)
  /\ pc' = "status"
  /\ NoFault
  /\ UNCHANGED <<world, admin, kvm, sg, rules, att, memory, tick, quiet, changes>>

ReconcileFails ==
  /\ pc = "reconcile"
  /\ Fault
  /\ Tombstone(keep) \/ UNCHANGED vm
  /\ pc' = "report"
  /\ UNCHANGED <<world, admin, kvm, sg, rules, att, memory, tick, quiet, changes>>

\* UpdateCloudAccountStatus excludes the rows an administrator holds.
Heartbeat(s) ==
  account' = IF account.status \in {"disabled", "pending_credentials"} THEN account
             ELSE [account EXCEPT !.status = s]

\* The status of a finished tick.
UpdateStatus ==
  /\ pc = "status"
  /\ \/ Heartbeat("active") /\ NoFault
     \/ (Heartbeat("active") \/ UNCHANGED account) /\ Fault
  /\ Return
  /\ UNCHANGED <<world, phantom, flow, tables, memory, quiet, changes>>

\* reportTickError: the status of an aborted one.
ReportTickError ==
  /\ pc = "report"
  /\ \/ Heartbeat("error") /\ NoFault
     \/ (Heartbeat("error") \/ UNCHANGED account) /\ Fault
  /\ Return
  /\ UNCHANGED <<world, phantom, flow, tables, memory, quiet, changes>>

\* The process stops anywhere and starts again with an empty cache.
Restart ==
  /\ Fault
  /\ known' = FALSE /\ prov' = FALSE /\ fresh' = FALSE
  /\ Return
  /\ UNCHANGED <<world, admin, tables, quiet, changes>>

------------------------------------------------------------------------------
(* The cloud, the nodes table and the administrators. *)

Change ==
  /\ changes < MaxChanges
  /\ changes' = changes + 1
  /\ quiet' = FALSE
  /\ UNCHANGED <<memory, pc, tick, sound, faults>>

CloudChange ==
  /\ Change
  /\ \/ \E v \in VMs \ cloud, t \in Tags :
          /\ Attached[v] \subseteq grp
          /\ cloud' = cloud \cup {v}
          /\ tag' = [tag EXCEPT ![v] = t]
          /\ young' = young \cup {v}
          /\ UNCHANGED grp
     \/ \E v \in cloud :
          /\ cloud' = cloud \ {v}
          /\ tag' = [tag EXCEPT ![v] = "plain"]
          /\ young' = young \ {v}
          /\ UNCHANGED grp
     \/ \E v \in cloud, t \in Tags :
          /\ tag' = [tag EXCEPT ![v] = t]
          /\ UNCHANGED <<cloud, young, grp>>
     \/ \E v \in young :
          /\ young' = young \ {v}
          /\ UNCHANGED <<cloud, tag, grp>>
     \/ \E g \in Groups :
          /\ grp' \in {grp \cup {g}, grp \ {g}}
          /\ GroupsOf(cloud) \subseteq grp'
          /\ UNCHANGED <<cloud, tag, young>>
  /\ UNCHANGED <<nodes, admin, tables>>

\* A Kubernetes collector upserts or tombstones the VM's node, or an
\* administrator deletes its row.
NodeChange ==
  /\ Change
  /\ \E v \in VMs :
       \/ v \in cloud /\ nodes' = [nodes EXCEPT ![v] = "live"]
       \/ nodes[v] = "live" /\ nodes' = [nodes EXCEPT ![v] = "terminated"]
       \/ nodes[v] # "none" /\ nodes' = [nodes EXCEPT ![v] = "none"]
  /\ UNCHANGED <<cloud, tag, young, grp, admin, tables>>

SetCredentials ==
  /\ Change
  /\ account' = [account EXCEPT !.keys = TRUE, !.status = "active"]
  /\ UNCHANGED <<world, phantom, flow, tables>>

DisableCloudAccount ==
  /\ Change
  /\ account' = [account EXCEPT !.status = "disabled"]
  /\ UNCHANGED <<world, phantom, flow, tables>>

EnableCloudAccount ==
  /\ Change
  /\ account' = [account EXCEPT !.status =
                   IF account.keys THEN "active" ELSE "pending_credentials"]
  /\ UNCHANGED <<world, phantom, flow, tables>>

\* The name is unique: renaming back waits for the second row to be deleted.
RenameCloudAccount ==
  /\ Change
  /\ ~phantom
  /\ account' = [account EXCEPT !.named = ~account.named]
  /\ UNCHANGED <<world, phantom, flow, tables>>

DeletePhantomAccount ==
  /\ Change
  /\ phantom
  /\ phantom' = FALSE
  /\ UNCHANGED <<world, account, flow, tables>>

ToggleFlowMatrix ==
  /\ Change
  /\ flow' = ~flow
  /\ UNCHANGED <<world, account, phantom, tables>>

DeleteVirtualMachine ==
  /\ Change
  /\ \E v \in VMs : vm[v] = "live" /\ vm' = [vm EXCEPT ![v] = "terminated"]
  /\ UNCHANGED <<world, admin, kvm, sg, rules, att>>

------------------------------------------------------------------------------
Tick ==
  \/ BeginTick \/ FetchCredentialsByName \/ RegisterCloudAccount \/ BuildProvider
  \/ CredentialsFail \/ ListVMs \/ ListVMsFails \/ GetSecurityGroups
  \/ \E v \in VMs : DedupCheck(v) \/ UpsertVirtualMachine(v) \/ UpsertFails(v)
  \/ UpsertsDone \/ BackfillNodeImages \/ SweepSecurityGroups
  \/ ReconcileVirtualMachines \/ ReconcileFails \/ UpdateStatus \/ ReportTickError

Environment ==
  \/ CloudChange \/ NodeChange
  \/ SetCredentials \/ DisableCloudAccount \/ EnableCloudAccount
  \/ RenameCloudAccount \/ DeletePhantomAccount \/ ToggleFlowMatrix
  \/ DeleteVirtualMachine

Next == Tick \/ CredentialsAge \/ Restart \/ Environment

Spec == Init /\ [][Next]_vars

\* Run's loop starts a tick every interval and every call has a deadline.
FairSpec == Spec /\ WF_vars(Tick)

------------------------------------------------------------------------------
(* Properties. *)

\* Every variable has its type.  Beyond that, security_group_rules exist only
\* for stored groups (the cascade of the sweep's DELETE, whatever part of a
\* post took effect), and the VM between its dedup query and its insert is
\* one still to be posted.
TypeOK ==
  /\ cloud \in SUBSET VMs /\ tag \in [VMs -> Tags] /\ young \in SUBSET VMs
  /\ grp \in SUBSET Groups
  /\ nodes \in [VMs -> Rows]
  /\ account \in [named : BOOLEAN, keys : BOOLEAN, status : Statuses]
  /\ phantom \in BOOLEAN /\ flow \in BOOLEAN
  /\ vm \in [VMs -> Rows] /\ kvm \in [VMs -> KubeStatuses]
  /\ sg \in SUBSET Groups /\ rules \in SUBSET sg /\ att \in SUBSET VMs
  /\ known \in BOOLEAN /\ prov \in BOOLEAN /\ fresh \in BOOLEAN
  /\ pc \in Steps
  /\ listed \in SUBSET VMs /\ ltag \in [VMs -> Tags]
  /\ enum \in SUBSET Groups /\ enumOK \in BOOLEAN
  /\ todo \in SUBSET VMs /\ checked \in SUBSET todo /\ keep \in SUBSET VMs
  /\ quiet \in BOOLEAN /\ sound \in BOOLEAN
  /\ changes \in 0..MaxChanges /\ faults \in 0..MaxFaults

\* The VMs the inventory should show.
Inventory == {v \in Apply(cloud, tag) : nodes[v] = "none"}

MirrorsVMs ==
  /\ \A v \in Inventory : vm[v] = "live"
  /\ Reconcile => \A v \in VMs \ Inventory : vm[v] # "live"

MirrorsKube == kvm = KubeRows(KubeNodeVMs(cloud, tag))

MirrorsGroups ==
  /\ GroupsOf(Inventory) \subseteq sg
  /\ sg \subseteq grp
  /\ flow => sg = grp /\ att = SGAttachments(cloud)

\* A tick that completed with no failed call, while nothing outside changed,
\* leaves every table a mirror of the cloud account: the VMs, the kube-node
\* rows with their statuses, and the groups, with their rules restored after
\* the VM posts emptied them.
MirrorAfterCleanTick ==
  pc = "idle" /\ quiet /\ sound =>
    /\ MirrorsVMs /\ MirrorsKube /\ MirrorsGroups
    /\ flow => rules = grp

\* Whatever calls fail, a tick during which nothing outside changed tombstones
\* a VM row only if the cloud no longer has the VM, it is tagged out or a nodes
\* row names it: a failed post never makes the reconcile remove the others.
ListedVMsSurvive ==
  [][\A v \in VMs : quiet' /\ vm[v] = "live" /\ vm'[v] # "live" => v \notin Inventory]_vars

\* Whatever calls fail, such a tick deletes no security group attached to a VM
\* of the account, node or not, and none that exists once the enumeration
\* succeeded.
PerimeterSurvives ==
  [][\A g \in Groups : quiet' /\ g \in sg /\ g \notin sg' =>
       g \notin GroupsOf(cloud) /\ (enumOK => g \notin grp)]_vars

Usable == account.named /\ account.status \in {"active", "error"}

\* Once the account stays usable and the failures stop, the tables converge to
\* the cloud account and stay there, and the account reads active.
EventuallyMirrors ==
  <>[]Usable => <>[](MirrorsVMs /\ MirrorsKube /\ MirrorsGroups /\ account.status = "active")
==============================================================================
