-------------------------- MODULE VMCollectorProofs --------------------------
(***************************************************************************)
(* Proofs about VMCollector for any set of VMs and groups, any attachment  *)
(* of groups to VMs and any bounds.                                        *)
(*                                                                         *)
(* The inductive invariant says what the local variables of a tick mean    *)
(* while nothing outside the collector has changed: the listing is the     *)
(* cloud account, every VM of the inventory is still to be posted or was   *)
(* posted and has a live row, and each later call has made its table a     *)
(* mirror of the account unless a call failed.                             *)
(***************************************************************************)
EXTENDS VMCollector, TLAPS

Looping == {"upsert", "backfill", "sweep", "reconcile", "status"}

\* What holds whatever changes outside: where the locals are empty, that no
\* post is left when the calls after the loop run, and that the provider keeps
\* attached groups.
Structure ==
  /\ GroupsOf(cloud) \subseteq grp
  /\ pc \notin Looping \cup {"report"} => todo = {} /\ checked = {} /\ keep = {}
  /\ pc \in Looping \ {"upsert"} => todo = {}
  /\ pc = "report" => ~sound

\* The listing is the cloud account and the enumeration its groups.
Listing ==
  /\ quiet /\ pc \in {"groups"} \cup Looping => listed = cloud /\ ltag = tag
  /\ pc \in Looping => (quiet /\ enumOK => enum = grp) /\ (sound => enumOK)

\* Every VM of the inventory is to be posted or was, and only those were.
Posting ==
  quiet /\ pc \in Looping =>
    /\ Inventory \subseteq todo \cup keep
    /\ todo \subseteq Apply(cloud, tag)
    /\ keep \cup checked \subseteq Inventory
    /\ \A v \in keep : vm[v] = "live" /\ (sound => Attached[v] \subseteq sg)

\* What the calls after the loop have achieved so far.
Progress ==
  quiet /\ sound =>
    /\ pc \in {"sweep", "reconcile", "status"} => MirrorsKube
    /\ pc \in {"reconcile", "status"} => MirrorsGroups /\ (flow => rules = grp)
    /\ pc = "status" => MirrorsVMs

IInv == TypeOK /\ Structure /\ Listing /\ Posting /\ Progress /\ MirrorAfterCleanTick

\* The type invariant, by what the provers need for each part of it.
TypeData ==
  /\ cloud \in SUBSET VMs /\ tag \in [VMs -> Tags] /\ young \in SUBSET VMs
  /\ grp \in SUBSET Groups
  /\ nodes \in [VMs -> Rows]
  /\ vm \in [VMs -> Rows] /\ kvm \in [VMs -> KubeStatuses]
  /\ sg \in SUBSET Groups /\ rules \in SUBSET sg /\ att \in SUBSET VMs
  /\ pc \in Steps
  /\ listed \in SUBSET VMs /\ ltag \in [VMs -> Tags]
  /\ enum \in SUBSET Groups
  /\ todo \in SUBSET VMs /\ checked \in SUBSET todo /\ keep \in SUBSET VMs

TypeAccount == account \in [named : BOOLEAN, keys : BOOLEAN, status : Statuses]

TypeFlags ==
  /\ phantom \in BOOLEAN /\ flow \in BOOLEAN
  /\ known \in BOOLEAN /\ prov \in BOOLEAN /\ fresh \in BOOLEAN
  /\ enumOK \in BOOLEAN /\ quiet \in BOOLEAN /\ sound \in BOOLEAN

TypeCounts == changes \in 0..MaxChanges /\ faults \in 0..MaxFaults

USE DEF world, admin, tables, memory, tick

------------------------------------------------------------------------------
(* Types. *)

\* The rows a kube-node reconcile writes have statuses.
LEMMA KubeRowsType ==
  ASSUME NEW K \in SUBSET VMs
  PROVE  KubeRows(K) \in [VMs -> KubeStatuses]
BY Zenon DEF KubeRows, KubeStatus, KubeStatuses

\* The groups of a set of VMs are groups.
LEMMA GroupsOfType ==
  ASSUME NEW S \in SUBSET VMs
  PROVE  GroupsOf(S) \in SUBSET Groups
BY AttachedAssumption, Zenon DEF GroupsOf

\* What the sweep counts as seen are groups.
LEMMA SeenType ==
  ASSUME TypeData
  PROVE  computeSweepSeenIDs \in SUBSET Groups
<1>1. listed \in SUBSET VMs /\ Apply(listed, ltag) \in SUBSET VMs /\ enum \in SUBSET Groups
  BY Zenon DEF TypeData, Apply
<1>2. GroupsOf(listed) \in SUBSET Groups /\ GroupsOf(Apply(listed, ltag)) \in SUBSET Groups
  BY <1>1, GroupsOfType, Zenon
<1> QED
  BY <1>1, <1>2, Zenon DEF computeSweepSeenIDs

\* Every step of the tick, of the clock and of everyone else keeps the data typed.
LEMMA DataType ==
  ASSUME TypeData, Structure, [Next]_vars
  PROVE  TypeData'
<1> USE AttachedAssumption
<1>1. CASE BeginTick
  BY <1>1, Zenon DEF TypeData, BeginTick, Steps
<1>2. CASE FetchCredentialsByName
  BY <1>2, Zenon DEF TypeData, FetchCredentialsByName, Return, Steps, NoTags, Tags
<1>3. CASE RegisterCloudAccount
  BY <1>3, Zenon DEF TypeData, RegisterCloudAccount, Return, Steps, NoTags, Tags
<1>4. CASE BuildProvider
  BY <1>4, Zenon DEF TypeData, BuildProvider, Steps
<1>5. CASE CredentialsFail
  BY <1>5, Zenon DEF TypeData, CredentialsFail, Return, Steps, NoTags, Tags
<1>6. CASE ListVMs \/ ListVMsFails
  BY <1>6, Zenon DEF TypeData, ListVMs, ListVMsFails, Steps
<1>7. CASE GetSecurityGroups
  <2>1. Apply(listed, ltag) \in SUBSET VMs
    BY Zenon DEF TypeData, Apply
  <2> QED
    BY <1>7, <2>1, Zenon DEF TypeData, GetSecurityGroups, Structure, Looping, Steps
<1>8. ASSUME NEW v \in VMs, DedupCheck(v)
      PROVE  TypeData'
  BY <1>8 DEF  TypeData, DedupCheck
<1>9. ASSUME NEW v \in VMs, UpsertVirtualMachine(v)
      PROVE  TypeData'
  BY <1>9, Zenon DEF TypeData, UpsertVirtualMachine, PersistVM, PersistGroups, PersistSomeGroups, Rows
<1>10. ASSUME NEW v \in VMs, UpsertFails(v)
       PROVE  TypeData'
  BY <1>10, Zenon DEF TypeData, UpsertFails, PersistVM, PersistGroups, PersistSomeGroups, Rows, Steps
<1>11. CASE UpsertsDone
  BY <1>11, Zenon DEF TypeData, UpsertsDone, Steps
<1>12. CASE BackfillNodeImages
  <2>1. KubeNodeVMs(listed, ltag) \in SUBSET VMs
    BY Zenon DEF TypeData, KubeNodeVMs
  <2>2. KubeRows(KubeNodeVMs(listed, ltag)) \in [VMs -> KubeStatuses]
    BY <2>1, KubeRowsType, Zenon
  <2> QED
    BY <1>12, <2>2, Zenon DEF TypeData, BackfillNodeImages, Steps
<1>13. CASE SweepSecurityGroups
  <2>1. SGAttachments(listed) \in SUBSET VMs
    BY Zenon DEF TypeData, SGAttachments
  <2>2. sg' \in SUBSET Groups /\ rules' \in SUBSET sg' /\ att' \in SUBSET VMs
    BY <1>13, <2>1, SeenType, Zenon DEF TypeData, SweepSecurityGroups, Sweep, SweepInPart
  <2> QED
    BY <1>13, <2>2, Zenon DEF TypeData, SweepSecurityGroups, Steps
<1>14. CASE ReconcileVirtualMachines \/ ReconcileFails
  BY <1>14, Zenon DEF TypeData, ReconcileVirtualMachines, ReconcileFails, Tombstone,
     Rows, Steps
<1>15. CASE UpdateStatus \/ ReportTickError
  BY <1>15, Zenon DEF TypeData, UpdateStatus, ReportTickError, Return,
     Statuses, Steps, NoTags, Tags
<1>16. CASE CredentialsAge
  BY <1>16, Zenon DEF  TypeData, CredentialsAge
<1>17. CASE Restart
  BY <1>17, Zenon DEF TypeData, Restart, Return, Steps, NoTags, Tags
<1>18. CASE CloudChange
  BY <1>18, Zenon DEF TypeData, CloudChange, Change, Tags
<1>19. CASE NodeChange
  BY <1>19, Zenon DEF TypeData, NodeChange, Change, Rows
<1>20. CASE SetCredentials \/ DisableCloudAccount \/ EnableCloudAccount
  BY <1>20, Zenon DEF TypeData, SetCredentials, DisableCloudAccount, EnableCloudAccount, Change
<1>21. CASE RenameCloudAccount \/ DeletePhantomAccount \/ ToggleFlowMatrix
  BY <1>21, Zenon DEF TypeData, RenameCloudAccount, DeletePhantomAccount, ToggleFlowMatrix, Change
<1>22. CASE DeleteVirtualMachine
  BY <1>22, Zenon DEF TypeData, DeleteVirtualMachine, Change, Rows
<1>23. CASE UNCHANGED vars
  BY <1>23, Zenon DEF  TypeData, vars
<1> QED
  BY <1>1, <1>2, <1>3, <1>4, <1>5, <1>6, <1>7, <1>8, <1>9, <1>10, <1>11, <1>12, <1>13,
     <1>14, <1>15, <1>16, <1>17, <1>18, <1>19, <1>20, <1>21, <1>22, <1>23, Zenon
  DEF Next, Tick, Environment

\* Changes and faults stay within their bounds.
LEMMA CountsType ==
  ASSUME TypeCounts, [Next]_vars
  PROVE  TypeCounts'
<1>1. CASE BeginTick \/ FetchCredentialsByName \/ RegisterCloudAccount \/ BuildProvider
        \/ CredentialsFail
  BY <1>1, BoundsAssumption DEF TypeCounts, BeginTick, FetchCredentialsByName,
     RegisterCloudAccount, BuildProvider, CredentialsFail, Change, Fault, NoFault
<1>2. CASE ListVMs \/ ListVMsFails \/ GetSecurityGroups \/ UpsertsDone
  BY <1>2, BoundsAssumption DEF TypeCounts, ListVMs, ListVMsFails, GetSecurityGroups,
     UpsertsDone, Change, Fault, NoFault
<1>3. CASE BackfillNodeImages \/ SweepSecurityGroups \/ ReconcileVirtualMachines
        \/ ReconcileFails
  BY <1>3, BoundsAssumption DEF TypeCounts, BackfillNodeImages, SweepSecurityGroups,
     ReconcileVirtualMachines, ReconcileFails, Change, Fault, NoFault
<1>4. CASE UpdateStatus \/ ReportTickError
  BY <1>4, BoundsAssumption DEF TypeCounts, UpdateStatus, ReportTickError, Change, Fault,
     NoFault
<1>5. CASE CredentialsAge \/ Restart
  BY <1>5, BoundsAssumption DEF TypeCounts, CredentialsAge, Restart, Change, Fault, NoFault
<1>6. CASE CloudChange \/ NodeChange \/ DeleteVirtualMachine
  BY <1>6, BoundsAssumption DEF TypeCounts, CloudChange, NodeChange, DeleteVirtualMachine,
     Change, Fault, NoFault
<1>7. CASE SetCredentials \/ DisableCloudAccount \/ EnableCloudAccount \/ RenameCloudAccount
        \/ DeletePhantomAccount \/ ToggleFlowMatrix
  BY <1>7, BoundsAssumption DEF TypeCounts, SetCredentials, DisableCloudAccount,
     EnableCloudAccount, RenameCloudAccount, DeletePhantomAccount, ToggleFlowMatrix, Change,
     Fault, NoFault
<1>8. ASSUME NEW v \in VMs, DedupCheck(v) \/ UpsertVirtualMachine(v) \/ UpsertFails(v)
     PROVE  TypeCounts'
  BY <1>8, BoundsAssumption DEF TypeCounts, DedupCheck, UpsertVirtualMachine, UpsertFails,
     Change, Fault, NoFault
<1>9. CASE UNCHANGED vars
  BY <1>9, BoundsAssumption, Zenon DEF TypeCounts, vars
<1> QED
  BY <1>1, <1>2, <1>3, <1>4, <1>5, <1>6, <1>7, <1>8, <1>9, Zenon DEF Next, Tick, Environment

\* The account keeps its shape.
LEMMA AccountType ==
  ASSUME TypeAccount, [Next]_vars
  PROVE  TypeAccount'
<1>1. CASE BeginTick \/ FetchCredentialsByName \/ RegisterCloudAccount \/ BuildProvider
        \/ CredentialsFail
  BY <1>1, Zenon DEF TypeAccount, BeginTick, FetchCredentialsByName, RegisterCloudAccount, BuildProvider,
     CredentialsFail, Heartbeat, Statuses
<1>2. CASE ListVMs \/ ListVMsFails \/ GetSecurityGroups \/ UpsertsDone
  BY <1>2, Zenon DEF TypeAccount, ListVMs, ListVMsFails, GetSecurityGroups, UpsertsDone, Heartbeat,
     Statuses
<1>3. CASE BackfillNodeImages \/ SweepSecurityGroups \/ ReconcileVirtualMachines
        \/ ReconcileFails
  BY <1>3, Zenon DEF TypeAccount, BackfillNodeImages, SweepSecurityGroups, ReconcileVirtualMachines,
     ReconcileFails, Heartbeat, Statuses
<1>4. CASE UpdateStatus \/ ReportTickError
  BY <1>4, Zenon DEF TypeAccount, UpdateStatus, ReportTickError, Heartbeat, Statuses
<1>5. CASE CredentialsAge \/ Restart
  BY <1>5, Zenon DEF TypeAccount, CredentialsAge, Restart, Heartbeat, Statuses
<1>6. CASE CloudChange \/ NodeChange \/ DeleteVirtualMachine
  BY <1>6, Zenon DEF TypeAccount, CloudChange, NodeChange, DeleteVirtualMachine, Heartbeat, Statuses
<1>7. CASE SetCredentials \/ DisableCloudAccount \/ EnableCloudAccount \/ RenameCloudAccount
        \/ DeletePhantomAccount \/ ToggleFlowMatrix
  BY <1>7, Zenon DEF TypeAccount, SetCredentials, DisableCloudAccount, EnableCloudAccount,
     RenameCloudAccount, DeletePhantomAccount, ToggleFlowMatrix, Heartbeat, Statuses
<1>8. ASSUME NEW v \in VMs, DedupCheck(v) \/ UpsertVirtualMachine(v) \/ UpsertFails(v)
     PROVE  TypeAccount'
  BY <1>8, Zenon DEF TypeAccount, DedupCheck, UpsertVirtualMachine, UpsertFails, Heartbeat, Statuses
<1>9. CASE UNCHANGED vars
  BY <1>9, Zenon DEF  TypeAccount, vars
<1> QED
  BY <1>1, <1>2, <1>3, <1>4, <1>5, <1>6, <1>7, <1>8, <1>9, Zenon DEF Next, Tick, Environment

\* The flags stay Boolean.
LEMMA FlagsType ==
  ASSUME TypeFlags, [Next]_vars
  PROVE  TypeFlags'
<1>1. CASE BeginTick \/ FetchCredentialsByName \/ RegisterCloudAccount \/ BuildProvider
        \/ CredentialsFail
  BY <1>1, ZenonT(60) DEF TypeFlags, BeginTick, FetchCredentialsByName, RegisterCloudAccount,
     BuildProvider, CredentialsFail, Change, Fault, NoFault, Return
<1>2. CASE ListVMs \/ ListVMsFails \/ GetSecurityGroups \/ UpsertsDone
  BY <1>2, ZenonT(60) DEF TypeFlags, ListVMs, ListVMsFails, GetSecurityGroups, UpsertsDone, Change,
     Fault, NoFault, Return
<1>3. CASE BackfillNodeImages \/ SweepSecurityGroups \/ ReconcileVirtualMachines
        \/ ReconcileFails
  BY <1>3, ZenonT(60) DEF TypeFlags, BackfillNodeImages, SweepSecurityGroups,
     ReconcileVirtualMachines, ReconcileFails, Change, Fault, NoFault, Return
<1>4. CASE UpdateStatus \/ ReportTickError
  BY <1>4, ZenonT(60) DEF TypeFlags, UpdateStatus, ReportTickError, Change, Fault, NoFault, Return
<1>5. CASE CredentialsAge \/ Restart
  BY <1>5, Zenon DEF TypeFlags, CredentialsAge, Restart, Change, Fault, NoFault, Return
<1>6. CASE CloudChange \/ NodeChange \/ DeleteVirtualMachine
  BY <1>6, ZenonT(60) DEF TypeFlags, CloudChange, NodeChange, DeleteVirtualMachine, Change, Fault,
     NoFault, Return
<1>7. CASE SetCredentials \/ DisableCloudAccount \/ EnableCloudAccount \/ RenameCloudAccount
        \/ DeletePhantomAccount \/ ToggleFlowMatrix
  BY <1>7, ZenonT(60) DEF TypeFlags, SetCredentials, DisableCloudAccount, EnableCloudAccount,
     RenameCloudAccount, DeletePhantomAccount, ToggleFlowMatrix, Change, Fault, NoFault,
     Return
<1>8. ASSUME NEW v \in VMs, DedupCheck(v) \/ UpsertVirtualMachine(v) \/ UpsertFails(v)
     PROVE  TypeFlags'
  BY <1>8, ZenonT(60) DEF TypeFlags, DedupCheck, UpsertVirtualMachine, UpsertFails, Change, Fault,
     NoFault, Return
<1>9. CASE UNCHANGED vars
  BY <1>9, Zenon DEF TypeFlags, vars
<1> QED
  BY <1>1, <1>2, <1>3, <1>4, <1>5, <1>6, <1>7, <1>8, <1>9, Zenon DEF Next, Tick, Environment

\* The parts make up the type invariant.
LEMMA TypeParts == TypeOK <=> TypeData /\ TypeAccount /\ TypeFlags /\ TypeCounts
BY Zenon DEF TypeOK, TypeData, TypeAccount, TypeFlags, TypeCounts

\* The initial states have the declared types.
LEMMA InitType == Init => TypeOK
<1> SUFFICES ASSUME Init PROVE TypeOK
  BY Zenon
<1>1. TypeData
  BY PopulationsAssumption, Zenon DEF Init, TypeData, Tags, NoTags, Rows, KubeStatuses, Steps
<1>2. TypeAccount
  <2>1. \E k \in BOOLEAN, t \in Statuses :
          account = [named |-> TRUE, keys |-> k, status |-> t]
    BY Zenon DEF Init, Statuses
  <2> QED
    BY <2>1 DEF TypeAccount
<1>3. TypeFlags
  BY Zenon DEF Init, TypeFlags
<1>4. TypeCounts
  BY BoundsAssumption DEF Init, TypeCounts
<1> QED
  BY <1>1, <1>2, <1>3, <1>4, TypeParts, Zenon

------------------------------------------------------------------------------
(* The inductive invariant. *)

\* No tick has begun in an initial state.
LEMMA InitIInv == Init => IInv
<1> SUFFICES ASSUME Init PROVE IInv
  BY Zenon
<1>1. TypeOK
  BY InitType, Zenon
<1>2. Structure
  <2>1. cloud \in SUBSET VMs /\ grp = Groups
    BY Zenon DEF Init
  <2> QED
    BY <2>1, GroupsOfType, Zenon DEF Init, Structure, Looping
<1>3. pc = "idle" /\ ~quiet
  BY Zenon DEF Init
<1>4. Listing /\ Posting /\ Progress /\ MirrorAfterCleanTick
  BY <1>3, Zenon DEF Listing, Posting, Progress, MirrorAfterCleanTick, Looping
<1> QED
  BY <1>1, <1>2, <1>4, Zenon DEF IInv

\* A step of the cloud, the nodes table or an administrator ends the quiet
\* period: only the structure is left to show.
LEMMA EnvironmentIInv ==
  ASSUME IInv, Environment, TypeOK'
  PROVE  IInv'
<1>1. ~quiet' /\ pc' = pc /\ sound' = sound /\ enumOK' = enumOK
      /\ todo' = todo /\ checked' = checked /\ keep' = keep
  BY Zenon DEF Environment, Change, CloudChange, NodeChange, SetCredentials, DisableCloudAccount,
     EnableCloudAccount, RenameCloudAccount, DeletePhantomAccount, ToggleFlowMatrix,
     DeleteVirtualMachine
<1>2. GroupsOf(cloud)' \subseteq grp'
  <2>1. CASE cloud' = cloud /\ grp' = grp
    BY <2>1, Zenon DEF IInv, Structure, GroupsOf
  <2>2. CASE CloudChange
    <3>1. \/ cloud' = cloud /\ grp' = grp
          \/ \E v \in VMs : Attached[v] \subseteq grp /\ cloud' = cloud \cup {v} /\ grp' = grp
          \/ \E v \in VMs : cloud' = cloud \ {v} /\ grp' = grp
          \/ GroupsOf(cloud) \subseteq grp' /\ cloud' = cloud
      BY <2>2, Zenon DEF CloudChange, IInv, TypeOK
    <3> QED
      BY <3>1, <2>1, Zenon DEF IInv, Structure, GroupsOf
  <2> QED
    BY <2>1, <2>2, Zenon DEF Environment, NodeChange, SetCredentials, DisableCloudAccount,
       EnableCloudAccount, RenameCloudAccount, DeletePhantomAccount, ToggleFlowMatrix,
       DeleteVirtualMachine
<1>3. Structure'
  BY <1>1, <1>2, Zenon DEF IInv, Structure
<1>4. Listing' /\ Posting' /\ Progress' /\ MirrorAfterCleanTick'
  BY <1>1, Zenon DEF IInv, Listing, Posting, Progress, MirrorAfterCleanTick
<1> QED
  BY <1>3, <1>4, Zenon DEF IInv

\* A tick that ends early leaves nothing behind, and does not count as sound.
LEMMA ReturnIInv ==
  ASSUME IInv, TypeOK', UNCHANGED world, Return, ~sound'
  PROVE  IInv'
<1>1. Structure'
  BY Zenon DEF IInv, Structure, Return, Looping, GroupsOf
<1>2. Listing' /\ Posting' /\ Progress' /\ MirrorAfterCleanTick'
  BY Zenon DEF Listing, Posting, Progress, MirrorAfterCleanTick, Return, Looping
<1> QED
  BY <1>1, <1>2, Zenon DEF IInv

\* Nor does one that is about to report an error.
LEMMA ReportIInv ==
  ASSUME IInv, TypeOK', UNCHANGED world, pc' = "report", ~sound'
  PROVE  IInv'
<1>1. Structure'
  BY Zenon DEF IInv, Structure, Looping, GroupsOf
<1>2. Listing' /\ Posting' /\ Progress' /\ MirrorAfterCleanTick'
  BY Zenon DEF Listing, Posting, Progress, MirrorAfterCleanTick, Looping
<1> QED
  BY <1>1, <1>2, Zenon DEF IInv

\* Before the listing a tick has no locals to speak of.
LEMMA EarlyIInv ==
  ASSUME IInv, TypeOK', UNCHANGED world, UNCHANGED <<todo, checked, keep>>,
         pc \notin Looping \cup {"report"},
         pc' \in {"fetch", "register", "recover", "build", "list"}
  PROVE  IInv'
<1>1. Structure'
  BY Zenon DEF IInv, Structure, Looping, GroupsOf
<1>2. Listing' /\ Posting' /\ Progress' /\ MirrorAfterCleanTick'
  BY Zenon DEF Listing, Posting, Progress, MirrorAfterCleanTick, Looping
<1> QED
  BY <1>1, <1>2, Zenon DEF IInv

\* The listing is the cloud account of that moment.
LEMMA ListIInv ==
  ASSUME IInv, TypeOK', ListVMs
  PROVE  IInv'
<1>1. Structure'
  BY Zenon DEF IInv, Structure, ListVMs, Looping, GroupsOf
<1>2. Listing' /\ Posting' /\ Progress' /\ MirrorAfterCleanTick'
  BY Zenon DEF Listing, Posting, Progress, MirrorAfterCleanTick, ListVMs, Looping
<1> QED
  BY <1>1, <1>2, Zenon DEF IInv

\* The loop starts with the whole inventory to post.
LEMMA GroupsIInv ==
  ASSUME IInv, TypeOK', GetSecurityGroups
  PROVE  IInv'
<1>1. Structure'
  BY Zenon DEF IInv, Structure, GetSecurityGroups, Looping, GroupsOf
<1>2. Listing'
  BY Zenon DEF IInv, Listing, GetSecurityGroups, Fault, NoFault, Looping
<1>3. Posting'
  BY Zenon DEF IInv, Structure, Listing, Posting, GetSecurityGroups, Inventory, Apply, Looping
<1>4. Progress' /\ MirrorAfterCleanTick'
  BY Zenon DEF Progress, MirrorAfterCleanTick, GetSecurityGroups
<1> QED
  BY <1>1, <1>2, <1>3, <1>4, Zenon DEF IInv

\* A VM that is refused as a node is not part of the inventory.
LEMMA DedupIInv ==
  ASSUME IInv, TypeOK', NEW v \in VMs, DedupCheck(v)
  PROVE  IInv'
<1>1. Structure'
  BY Zenon DEF IInv, Structure, DedupCheck, Looping, GroupsOf
<1>2. Listing'
  BY Zenon DEF IInv, Listing, DedupCheck
<1>3. Posting'
  BY DEF IInv, Posting, DedupCheck, Inventory, Apply
<1>4. Progress' /\ MirrorAfterCleanTick'
  BY Zenon DEF Progress, MirrorAfterCleanTick, DedupCheck
<1> QED
  BY <1>1, <1>2, <1>3, <1>4, Zenon DEF IInv

\* A posted VM has a live row and, if nothing failed, its groups.
LEMMA UpsertIInv ==
  ASSUME IInv, TypeOK', NEW v \in VMs, UpsertVirtualMachine(v)
  PROVE  IInv'
<1>1. Structure'
  BY Zenon DEF IInv, Structure, UpsertVirtualMachine, Looping, GroupsOf
<1>2. Listing'
  BY DEF IInv, Listing, UpsertVirtualMachine, Fault, NoFault
<1>3. Posting'
  <2> SUFFICES ASSUME quiet', pc' \in Looping
               PROVE  /\ Inventory' \subseteq todo' \cup keep'
                      /\ todo' \subseteq Apply(cloud, tag)'
                      /\ keep' \cup checked' \subseteq Inventory'
                      /\ \A w \in keep' : vm'[w] = "live" /\ (sound' => Attached[w] \subseteq sg')
    BY Zenon DEF Posting
  <2>1. Inventory' = Inventory /\ Apply(cloud, tag)' = Apply(cloud, tag)
    BY Zenon DEF UpsertVirtualMachine, Inventory, Apply
  <2>2. quiet /\ pc \in Looping /\ v \in checked /\ vm \in [VMs -> Rows] /\ keep \subseteq VMs
    BY Zenon DEF UpsertVirtualMachine, IInv, TypeOK
  <2>3. todo' = todo \ {v} /\ keep' = keep \cup {v} /\ checked' = {}
        /\ vm' = [vm EXCEPT ![v] = "live"]
    BY Zenon DEF UpsertVirtualMachine, PersistVM
  <2>4. sg \subseteq sg' /\ (sound' => sound /\ Attached[v] \subseteq sg')
    BY DEF UpsertVirtualMachine, PersistGroups, PersistSomeGroups, Fault, NoFault
  <2> QED
    BY <2>1, <2>2, <2>3, <2>4, Zenon DEF IInv, Posting
<1>4. Progress' /\ MirrorAfterCleanTick'
  BY Zenon DEF Progress, MirrorAfterCleanTick, UpsertVirtualMachine
<1> QED
  BY <1>1, <1>2, <1>3, <1>4, Zenon DEF IInv

\* The loop ends when nothing is left to post.
LEMMA UpsertsDoneIInv ==
  ASSUME IInv, TypeOK', UpsertsDone
  PROVE  IInv'
<1>1. Structure'
  BY Zenon DEF IInv, Structure, UpsertsDone, Looping, GroupsOf
<1>2. Listing'
  BY Zenon DEF IInv, Listing, UpsertsDone, Looping
<1>3. Posting'
  BY Zenon DEF IInv, Posting, UpsertsDone, Looping, Inventory, Apply
<1>4. Progress' /\ MirrorAfterCleanTick'
  BY Zenon DEF Progress, MirrorAfterCleanTick, UpsertsDone
<1> QED
  BY <1>1, <1>2, <1>3, <1>4, Zenon DEF IInv

\* The pushed batch is the set of Kubernetes-tagged VMs of the account.
LEMMA BackfillIInv ==
  ASSUME IInv, TypeOK', BackfillNodeImages
  PROVE  IInv'
<1>1. Structure'
  BY Zenon DEF IInv, Structure, BackfillNodeImages, Looping, GroupsOf
<1>2. Listing'
  BY DEF IInv, Listing, BackfillNodeImages, Fault, NoFault, Looping
<1>3. Posting'
  BY Zenon DEF IInv, Posting, BackfillNodeImages, Fault, NoFault, Looping, Inventory, Apply
<1>4. Progress'
  <2> SUFFICES ASSUME quiet', sound' PROVE MirrorsKube'
    BY Zenon DEF Progress, BackfillNodeImages
  <2>1. listed = cloud /\ ltag = tag /\ UNCHANGED <<cloud, tag, young, nodes>>
    BY Zenon DEF BackfillNodeImages, IInv, Listing, Looping
  <2>2. kvm' = KubeRows(KubeNodeVMs(listed, ltag))
    BY Zenon DEF BackfillNodeImages, Fault
  <2> QED
    BY <2>1, <2>2 DEF MirrorsKube, KubeRows, KubeStatus, KubeNodeVMs
<1>5. MirrorAfterCleanTick'
  BY Zenon DEF MirrorAfterCleanTick, BackfillNodeImages
<1> QED
  BY <1>1, <1>2, <1>3, <1>4, <1>5, Zenon DEF IInv

\* What the sweep counts as seen, while nothing outside changed: every group
\* attached to a VM of the account, and after an enumeration every group.
LEMMA SeenCovers ==
  ASSUME IInv, quiet, pc = "sweep"
  PROVE  /\ GroupsOf(cloud) \subseteq computeSweepSeenIDs
         /\ enumOK => computeSweepSeenIDs = grp /\ enum = grp
<1>1. listed = cloud /\ (enumOK => enum = grp)
  BY Zenon DEF IInv, Listing, Looping
<1> QED
  BY <1>1, Zenon DEF IInv, Structure, computeSweepSeenIDs

\* A sound sweep leaves the groups, rules and attachments of the account.
LEMMA SweepIInv ==
  ASSUME IInv, TypeOK', SweepSecurityGroups
  PROVE  IInv'
<1>0. pc = "sweep" /\ pc' \in {"reconcile", "status"} /\ (pc' = "status" => ~Reconcile)
  BY Zenon DEF SweepSecurityGroups
<1>1. Structure'
  BY <1>0, Zenon DEF IInv, Structure, SweepSecurityGroups, Looping, GroupsOf
<1>2. Listing'
  BY <1>0 DEF IInv, Listing, SweepSecurityGroups, Fault, NoFault, Looping
<1>3. ASSUME quiet', sound'
      PROVE  /\ sg' = (sg \cap grp) \cup (IF flow THEN grp ELSE {})
             /\ rules' = (rules \cap grp) \cup (IF flow THEN grp ELSE {})
             /\ att' = IF flow THEN SGAttachments(cloud) ELSE att
  <2>1. quiet /\ sound /\ enumOK /\ listed = cloud /\ Sweep
    BY <1>0, <1>3, Zenon DEF SweepSecurityGroups, Fault, NoFault, IInv, Listing, Looping
  <2> QED
    BY <1>0, <2>1, SeenCovers, Zenon DEF Sweep
<1>4. ASSUME quiet'
      PROVE  /\ quiet /\ (sound' => sound)
             /\ Inventory \subseteq keep /\ keep \cup checked \subseteq Inventory
             /\ \A v \in keep : /\ vm[v] = "live"
                                /\ sound' => Attached[v] \subseteq sg /\ Attached[v] \subseteq grp
  <2>1. quiet /\ (sound' => sound) /\ pc \in Looping /\ todo = {}
    BY <1>0, <1>4 DEF SweepSecurityGroups, Fault, NoFault, IInv, Structure, Looping
  <2>2. \A v \in Inventory : Attached[v] \subseteq grp
    BY Zenon DEF IInv, Structure, GroupsOf, Inventory, Apply
  <2> QED
    BY <2>1, <2>2, Zenon DEF IInv, Posting
<1>5. Posting'
  <2> SUFFICES ASSUME quiet', pc' \in Looping
               PROVE  /\ Inventory' \subseteq todo' \cup keep'
                      /\ todo' \subseteq Apply(cloud, tag)'
                      /\ keep' \cup checked' \subseteq Inventory'
                      /\ \A w \in keep' : vm'[w] = "live" /\ (sound' => Attached[w] \subseteq sg')
    BY Zenon DEF Posting
  <2>1. Inventory' = Inventory /\ UNCHANGED <<vm, todo, checked, keep>>
    BY Zenon DEF SweepSecurityGroups, Inventory, Apply
  <2>2. todo = {}
    BY <1>0, Zenon DEF IInv, Structure, Looping
  <2> QED
    BY <1>3, <1>4, <2>1, <2>2, Zenon
<1>6. Progress'
  <2> SUFFICES ASSUME quiet', sound'
               PROVE  /\ MirrorsKube' /\ MirrorsGroups' /\ (flow => rules = grp)'
                      /\ pc' = "status" => MirrorsVMs'
    BY Zenon DEF Progress
  <2>1. MirrorsKube'
    <3>1. MirrorsKube /\ UNCHANGED <<kvm, cloud, tag, young, nodes>>
      BY <1>0, <1>4, Zenon DEF IInv, Progress, SweepSecurityGroups, Fault, NoFault
    <3> QED
      BY <3>1, Zenon DEF MirrorsKube, KubeRows, KubeStatus, KubeNodeVMs
  <2>2. MirrorsGroups' /\ (flow => rules = grp)'
    <3>1. UNCHANGED <<flow, grp, cloud>> /\ Inventory' = Inventory
      BY Zenon DEF SweepSecurityGroups, Inventory, Apply
    <3>2. \A v \in Inventory : Attached[v] \subseteq sg'
      BY <1>3, <1>4, Zenon
    <3>3. GroupsOf(Inventory)' \subseteq sg'
      BY <3>1, <3>2, Zenon DEF GroupsOf
    <3>4. rules \subseteq Groups /\ sg \subseteq Groups
      BY Zenon DEF IInv, TypeOK
    <3> QED
      BY <1>3, <3>1, <3>3, <3>4, Zenon DEF MirrorsGroups, SGAttachments
  <2>3. ASSUME pc' = "status" PROVE MirrorsVMs'
    <3>1. Inventory' = Inventory /\ vm' = vm
      BY Zenon DEF SweepSecurityGroups, Inventory, Apply
    <3> QED
      BY <1>0, <1>4, <2>3, <3>1, Zenon DEF MirrorsVMs
  <2> QED
    BY <2>1, <2>2, <2>3, Zenon
<1>7. MirrorAfterCleanTick'
  BY <1>0, Zenon DEF MirrorAfterCleanTick
<1> QED
  BY <1>1, <1>2, <1>5, <1>6, <1>7, Zenon DEF IInv

\* The reconcile keeps exactly the posted VMs, which are the inventory.
LEMMA ReconcileIInv ==
  ASSUME IInv, TypeOK', ReconcileVirtualMachines
  PROVE  IInv'
<1>0. /\ pc = "reconcile" /\ pc' = "status" /\ quiet' = quiet /\ sound' = sound
      /\ vm' = [v \in VMs |-> IF vm[v] = "live" /\ v \notin keep THEN "terminated" ELSE vm[v]]
      /\ UNCHANGED <<cloud, tag, young, grp, nodes, flow, kvm, sg, rules, att,
                     listed, ltag, enum, enumOK, todo, checked, keep>>
  BY Zenon DEF ReconcileVirtualMachines, Tombstone, NoFault
<1>1. Structure'
  BY <1>0, Zenon DEF IInv, Structure, Looping, GroupsOf
<1>2. Listing'
  BY <1>0, Zenon DEF IInv, Listing, Looping
<1>3. Inventory' = Inventory /\ Apply(cloud, tag)' = Apply(cloud, tag)
  BY <1>0, Zenon DEF  Inventory, Apply
<1>4. keep \subseteq VMs /\ \A v \in keep : vm'[v] = vm[v]
  BY <1>0, Zenon DEF  IInv, TypeOK
<1>5. Posting'
  BY <1>0, <1>3, <1>4, Zenon DEF IInv, Posting, Looping
<1>6. Progress'
  <2> SUFFICES ASSUME quiet', sound'
               PROVE  MirrorsKube' /\ MirrorsGroups' /\ (flow => rules = grp)' /\ MirrorsVMs'
    BY Zenon DEF Progress
  <2>1. MirrorsKube /\ MirrorsGroups /\ (flow => rules = grp)
    BY <1>0, Zenon DEF IInv, Progress
  <2>2. MirrorsKube' /\ MirrorsGroups' /\ (flow => rules = grp)'
    BY <1>0, <1>3, <2>1, Zenon DEF MirrorsKube, KubeRows, KubeStatus, KubeNodeVMs, MirrorsGroups,
       GroupsOf, SGAttachments
  <2>3. todo = {} /\ Inventory \subseteq keep /\ keep \subseteq Inventory
        /\ \A v \in keep : vm[v] = "live"
    BY <1>0, Zenon DEF IInv, Structure, Posting, Looping
  <2>4. MirrorsVMs'
    BY <1>0, <1>3, <1>4, <2>3, Zenon DEF MirrorsVMs
  <2> QED
    BY <2>2, <2>4, Zenon
<1>7. MirrorAfterCleanTick'
  BY <1>0, Zenon DEF MirrorAfterCleanTick
<1> QED
  BY <1>1, <1>2, <1>5, <1>6, <1>7, Zenon DEF IInv

\* A tick that ends sound and undisturbed leaves the mirror it has built.
LEMMA StatusIInv ==
  ASSUME IInv, TypeOK', UpdateStatus
  PROVE  IInv'
<1>0. /\ pc = "status" /\ pc' = "idle" /\ quiet' = quiet /\ (sound' => sound)
      /\ UNCHANGED <<cloud, tag, young, grp, nodes, flow, vm, kvm, sg, rules, att>>
      /\ todo' = {} /\ checked' = {} /\ keep' = {}
  BY DEF UpdateStatus, Return, Fault, NoFault
<1>1. Structure'
  BY <1>0, Zenon DEF IInv, Structure, Looping, GroupsOf
<1>2. Listing' /\ Posting' /\ Progress'
  BY <1>0, Zenon DEF Listing, Posting, Progress, Looping
<1>3. MirrorAfterCleanTick'
  <2> SUFFICES ASSUME quiet', sound'
               PROVE  MirrorsVMs' /\ MirrorsKube' /\ MirrorsGroups' /\ (flow => rules = grp)'
    BY Zenon DEF MirrorAfterCleanTick
  <2>1. MirrorsVMs /\ MirrorsKube /\ MirrorsGroups /\ (flow => rules = grp)
    BY <1>0, Zenon DEF IInv, Progress
  <2> QED
    BY <1>0, <2>1 DEF MirrorsVMs, MirrorsKube, KubeRows, KubeStatus, KubeNodeVMs,
       MirrorsGroups, GroupsOf, SGAttachments, Inventory, Apply
<1> QED
  BY <1>1, <1>2, <1>3, Zenon DEF IInv

\* Nothing the invariant speaks of changes.
LEMMA StutterIInv ==
  ASSUME IInv, TypeOK', CredentialsAge \/ UNCHANGED vars
  PROVE  IInv'
<1>1. UNCHANGED <<cloud, tag, young, grp, nodes, flow, vm, kvm, sg, rules, att,
                  pc, listed, ltag, enum, enumOK, todo, checked, keep, quiet, sound>>
  BY Zenon DEF CredentialsAge, vars
<1>2. MirrorsVMs' = MirrorsVMs /\ MirrorsKube' = MirrorsKube /\ MirrorsGroups' = MirrorsGroups
      /\ Inventory' = Inventory /\ Apply(cloud, tag)' = Apply(cloud, tag)
      /\ GroupsOf(cloud)' = GroupsOf(cloud)
  BY <1>1 DEF MirrorsVMs, MirrorsKube, KubeRows, KubeStatus, KubeNodeVMs, MirrorsGroups,
     GroupsOf, SGAttachments, Inventory, Apply
<1> QED
  BY <1>1, <1>2, Zenon DEF IInv, Structure, Listing, Posting, Progress, MirrorAfterCleanTick

\* Every step preserves the invariant.
LEMMA NextIInv ==
  ASSUME IInv, [Next]_vars
  PROVE  IInv'
<1>0. TypeOK'
  BY DataType, AccountType, FlagsType, CountsType, TypeParts, ZenonT(60) DEF IInv, TypeOK, TypeData,
     TypeAccount, TypeFlags, TypeCounts
<1>1. CASE BeginTick
  BY <1>0, <1>1, EarlyIInv, Zenon DEF BeginTick, Looping
<1>2. CASE FetchCredentialsByName
  <2>1. \/ Return /\ ~sound'
        \/ UNCHANGED <<todo, checked, keep>> /\ pc' \in {"register", "recover", "build"}
    BY <1>2, Zenon DEF FetchCredentialsByName
  <2> QED
    BY <1>0, <1>2, <2>1, ReturnIInv, EarlyIInv, Zenon DEF FetchCredentialsByName, Looping
<1>3. CASE RegisterCloudAccount
  <2>1. \/ Return /\ ~sound'
        \/ UNCHANGED <<todo, checked, keep>> /\ pc' = "build"
    BY <1>3, Zenon DEF RegisterCloudAccount
  <2> QED
    BY <1>0, <1>3, <2>1, ReturnIInv, EarlyIInv, Zenon DEF RegisterCloudAccount, Looping
<1>4. CASE BuildProvider
  BY <1>0, <1>4, EarlyIInv, Zenon DEF BuildProvider, Looping
<1>5. CASE CredentialsFail
  BY <1>0, <1>5, ReturnIInv, Zenon DEF CredentialsFail, Fault
<1>6. CASE ListVMs
  BY <1>0, <1>6, ListIInv, Zenon
<1>7. CASE ListVMsFails
  BY <1>0, <1>7, ReportIInv, Zenon DEF ListVMsFails, Fault
<1>8. CASE GetSecurityGroups
  BY <1>0, <1>8, GroupsIInv, Zenon
<1>9. ASSUME NEW v \in VMs, DedupCheck(v) \/ UpsertVirtualMachine(v) \/ UpsertFails(v)
      PROVE  IInv'
  <2>1. CASE UpsertFails(v)
    BY <1>0, <2>1, ReportIInv, Zenon DEF UpsertFails, Fault
  <2> QED
    BY <1>0, <1>9, <2>1, DedupIInv, UpsertIInv, Zenon
<1>10. CASE UpsertsDone
  BY <1>0, <1>10, UpsertsDoneIInv, Zenon
<1>11. CASE BackfillNodeImages
  BY <1>0, <1>11, BackfillIInv, Zenon
<1>12. CASE SweepSecurityGroups
  BY <1>0, <1>12, SweepIInv, Zenon
<1>13. CASE ReconcileVirtualMachines
  BY <1>0, <1>13, ReconcileIInv, Zenon
<1>14. CASE ReconcileFails
  BY <1>0, <1>14, ReportIInv, Zenon DEF ReconcileFails, Fault
<1>15. CASE UpdateStatus
  BY <1>0, <1>15, StatusIInv, Zenon
<1>16. CASE ReportTickError
  <2>1. ~sound'
    BY <1>16, Zenon DEF ReportTickError, Fault, NoFault, IInv, Structure
  <2> QED
    BY <1>0, <1>16, <2>1, ReturnIInv, Zenon DEF ReportTickError
<1>17. CASE Restart
  BY <1>0, <1>17, ReturnIInv, Zenon DEF Restart, Fault
<1>18. CASE CredentialsAge \/ UNCHANGED vars
  BY <1>0, <1>18, StutterIInv, Zenon
<1>19. CASE Environment
  BY <1>0, <1>19, EnvironmentIInv, Zenon
<1> QED
  BY <1>1, <1>2, <1>3, <1>4, <1>5, <1>6, <1>7, <1>8, <1>9, <1>10, <1>11, <1>12, <1>13,
     <1>14, <1>15, <1>16, <1>17, <1>18, <1>19, Zenon DEF Next, Tick

------------------------------------------------------------------------------
(* The theorems. *)

\* The invariant holds in every reachable state.
THEOREM Invariance == Spec => []IInv
<1>1. Init => IInv
  BY InitIInv, Zenon
<1>2. IInv /\ [Next]_vars => IInv'
  BY NextIInv, Zenon
<1> QED
  BY <1>1, <1>2, PTL DEF Spec

\* Every variable keeps its type; in particular no rule outlives its group.
THEOREM TypeCorrect == Spec => []TypeOK
<1>1. IInv => TypeOK
  BY Zenon DEF IInv
<1> QED
  BY <1>1, Invariance, PTL

\* A sound tick of runOnce during which nothing outside changed leaves the
\* VM, kube-node, group, rule and attachment tables a mirror of the account.
THEOREM CleanTickMirrors == Spec => []MirrorAfterCleanTick
<1>1. IInv => MirrorAfterCleanTick
  BY Zenon DEF IInv
<1> QED
  BY <1>1, Invariance, PTL

\* Only the reconcile after a complete posting loop tombstones rows, so no
\* failed call makes runOnce tombstone a VM of the inventory.
THEOREM FailuresNeverTombstone == Spec => ListedVMsSurvive
<1>1. ASSUME IInv, [Next]_vars,
             NEW v \in VMs, quiet', vm[v] = "live", vm'[v] # "live"
      PROVE  v \notin Inventory
  <2>0. vm \in [VMs -> Rows]
    BY <1>1, Zenon DEF IInv, TypeOK
  <2>1. ~Environment
    BY <1>1, Zenon DEF Environment, Change, CloudChange, NodeChange, SetCredentials,
       DisableCloudAccount, EnableCloudAccount, RenameCloudAccount, DeletePhantomAccount,
       ToggleFlowMatrix, DeleteVirtualMachine
  <2>2. ~(\E w \in VMs : DedupCheck(w) \/ UpsertVirtualMachine(w) \/ UpsertFails(w))
    BY <1>1, <2>0, ZenonT(60) DEF DedupCheck, UpsertVirtualMachine, UpsertFails, PersistVM
  <2>3. ReconcileVirtualMachines \/ ReconcileFails
    BY <1>1, <2>1, <2>2, ZenonT(60) DEF Next, Tick, BeginTick, FetchCredentialsByName,
       RegisterCloudAccount, BuildProvider, CredentialsFail, ListVMs, ListVMsFails,
       GetSecurityGroups, UpsertsDone, BackfillNodeImages, SweepSecurityGroups,
       UpdateStatus, ReportTickError, CredentialsAge, Restart, vars
  <2>4. pc = "reconcile" /\ quiet /\ v \notin keep
    BY <1>1, <2>0, <2>3, Zenon DEF ReconcileVirtualMachines, ReconcileFails, Tombstone
  <2> QED
    BY <1>1, <2>4, Zenon DEF IInv, Structure, Posting, Looping
<1>2. IInv /\ [Next]_vars =>
        [\A v \in VMs : quiet' /\ vm[v] = "live" /\ vm'[v] # "live" => v \notin Inventory]_vars
  BY <1>1, Zenon
<1> QED
  BY <1>2, Invariance, PTL DEF Spec, ListedVMsSurvive

\* computeSweepSeenIDs covers the perimeter whether or not the enumeration
\* succeeded, so the sweep deletes no attached group, and after an enumeration
\* no existing one.
THEOREM SweepKeepsPerimeter == Spec => PerimeterSurvives
<1>1. ASSUME IInv, [Next]_vars,
             NEW g \in Groups, quiet', g \in sg, g \notin sg'
      PROVE  g \notin GroupsOf(cloud) /\ (enumOK => g \notin grp)
  <2>1. ~Environment
    BY <1>1, Zenon DEF Environment, Change, CloudChange, NodeChange, SetCredentials,
       DisableCloudAccount, EnableCloudAccount, RenameCloudAccount, DeletePhantomAccount,
       ToggleFlowMatrix, DeleteVirtualMachine
  <2>2. ~(\E w \in VMs : DedupCheck(w) \/ UpsertVirtualMachine(w) \/ UpsertFails(w))
    BY <1>1, ZenonT(60) DEF DedupCheck, UpsertVirtualMachine, UpsertFails, PersistGroups,
       PersistSomeGroups
  <2>3. SweepSecurityGroups
    BY <1>1, <2>1, <2>2, ZenonT(60) DEF Next, Tick, BeginTick, FetchCredentialsByName,
       RegisterCloudAccount, BuildProvider, CredentialsFail, ListVMs, ListVMsFails,
       GetSecurityGroups, UpsertsDone, BackfillNodeImages, ReconcileVirtualMachines,
       ReconcileFails, UpdateStatus, ReportTickError, CredentialsAge, Restart, vars
  <2>4. pc = "sweep" /\ quiet /\ g \notin computeSweepSeenIDs
    BY <1>1, <2>3, Zenon DEF SweepSecurityGroups, Sweep, SweepInPart
  <2> QED
    BY <1>1, <2>4, SeenCovers, Zenon
<1>2. IInv /\ [Next]_vars =>
        [\A g \in Groups : quiet' /\ g \in sg /\ g \notin sg' =>
           g \notin GroupsOf(cloud) /\ (enumOK => g \notin grp)]_vars
  BY <1>1, Zenon
<1> QED
  BY <1>2, Invariance, PTL DEF Spec, PerimeterSurvives
==============================================================================
