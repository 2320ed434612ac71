----------------------------- MODULE AdminGuard -----------------------------
(***************************************************************************)
(* The last-admin guard of the user store (internal/store/pg_auth.go):     *)
(* UpdateUserGuarded and DeleteUserGuarded as the sequences of SQL         *)
(* statements they are, run by concurrent admin requests next to           *)
(* CreateUser.                                                             *)
(*                                                                         *)
(* PostgreSQL runs the statements at READ COMMITTED: each one sees what    *)
(* was committed when it began; a SELECT ... FOR UPDATE takes the row      *)
(* locks one by one, waits for a row that another transaction holds, keeps *)
(* the lock on a row that no longer matches, and skips a deleted row.  The *)
(* write is the last statement before the commit, so it is one step with   *)
(* it.                                                                     *)
(***************************************************************************)
EXTENDS FiniteSets

CONSTANTS Users,         \* ids that rows of the users table may get
          InitialUsers,  \* rows at the start, all of them active admins
          Txs,           \* guarded requests, each served once
          Patches,       \* what the requests ask for
          Nobody         \* holder of a free row lock

\* ValidRoles, cut down to what the guard tells apart.
ValidRoles == {"admin", "viewer"}

\* A request: UserPatch with its two fields that the guard looks at ("keep"
\* is a nil pointer), or the delete.  A role outside ValidRoles is refused.
Patch == [role : ValidRoles \cup {"keep", "bogus"},
          disabled : {"keep", "yes", "no"},
          delete : BOOLEAN]

ASSUME GuardAssumption ==
  /\ InitialUsers \subseteq Users
  /\ InitialUsers # {}
  /\ Patches \subseteq Patch
  /\ Nobody \notin Txs

VARIABLES created,   \* ids handed out so far
          live,      \* ids whose row exists
          role, disabled,
          holder,    \* the transaction that holds each row lock
          pc, target, patch,
          snapshot,  \* active admins when the locking SELECT began
          toLock     \* those of them it has not reached

rows == <<created, live, role, disabled>>
request == <<target, patch>>
vars == <<rows, holder, pc, request, snapshot, toLock>>

ActiveAdmins == {u \in live : role[u] = "admin" /\ ~disabled[u]}

Open(t) == pc[t] \in {"admins", "target", "count", "write"}

-----------------------------------------------------------------------------
Init ==
  /\ created = InitialUsers
  /\ live = InitialUsers
  /\ role = [u \in Users |-> "admin"]
  /\ disabled = [u \in Users |-> FALSE]
  /\ holder = [u \in Users |-> Nobody]
  /\ pc = [t \in Txs |-> "idle"]
  /\ target \in [Txs -> Users]
  /\ patch \in [Txs -> Patches]
  /\ snapshot = [t \in Txs |-> {}]
  /\ toLock = [t \in Txs |-> {}]

\* CreateUser: one INSERT under a fresh id.
CreateUser(u) ==
  /\ u \notin created
  /\ created' = created \cup {u}
  /\ live' = live \cup {u}
  /\ \E r \in ValidRoles : role' = [role EXCEPT ![u] = r]
  /\ disabled' = [disabled EXCEPT ![u] = FALSE]
  /\ UNCHANGED <<holder, pc, request, snapshot, toLock>>

\* Mutant: no lock on the active admins.
BeginUnlocked(t) ==
  /\ pc[t] = "idle"
  /\ target[t] \in created
  /\ snapshot' = [snapshot EXCEPT ![t] = ActiveAdmins]
  /\ pc' = [pc EXCEPT ![t] = "admins"]
  /\ UNCHANGED <<rows, holder, request, toLock>>

\* A request for a row the caller has seen begins its transaction and
\* lockActiveAdminsForGuard its SELECT.
Begin(t) ==
  /\ pc[t] = "idle"
  /\ target[t] \in created
  /\ snapshot' = [snapshot EXCEPT ![t] = ActiveAdmins]
  /\ toLock' = [toLock EXCEPT ![t] = ActiveAdmins]
  /\ pc' = [pc EXCEPT ![t] = "admins"]
  /\ UNCHANGED <<rows, holder, request>>

Lockable(u, t) == holder[u] \in {Nobody, t}

\* lockActiveAdminsForGuard reaches one more row of its result.
LockAdmin(t, u) ==
  /\ pc[t] = "admins"
  /\ u \in toLock[t]
  /\ \/ u \notin live /\ UNCHANGED holder
     \/ u \in live /\ Lockable(u, t) /\ holder' = [holder EXCEPT ![u] = t]
  /\ toLock' = [toLock EXCEPT ![t] = @ \ {u}]
  /\ UNCHANGED <<rows, pc, request, snapshot>>

LockedAdmins(t) ==
  /\ pc[t] = "admins"
  /\ toLock[t] = {}
  /\ pc' = [pc EXCEPT ![t] = "target"]
  /\ UNCHANGED <<rows, holder, request, snapshot, toLock>>

\* Mutant: an early return leaves the transaction open.
EndLeaked(t) ==
  /\ pc' = [pc EXCEPT ![t] = "done"]
  /\ snapshot' = [snapshot EXCEPT ![t] = {}]
  /\ toLock' = [toLock EXCEPT ![t] = {}]
  /\ UNCHANGED holder

\* withTx: commit, or the deferred rollback, drops the transaction's locks.
End(t) ==
  /\ pc' = [pc EXCEPT ![t] = "done"]
  /\ snapshot' = [snapshot EXCEPT ![t] = {}]
  /\ toLock' = [toLock EXCEPT ![t] = {}]
  /\ holder' = [u \in Users |-> IF holder[u] = t THEN Nobody ELSE holder[u]]

\* The request takes an active admin away.
Removes(p) == p.delete \/ p.role \in {"viewer", "bogus"} \/ p.disabled = "yes"

\* SELECT role, disabled_at ... FOR UPDATE on the target.
LockTarget(t) ==
  LET u == target[t] IN
  /\ pc[t] = "target"
  /\ u \in live
  /\ Lockable(u, t)
  /\ holder' = [holder EXCEPT ![u] = t]
  /\ pc' = [pc EXCEPT ![t] =
        IF Removes(patch[t]) /\ u \in ActiveAdmins THEN "count" ELSE "write"]
  /\ UNCHANGED <<rows, request, snapshot, toLock>>

\* ErrNotFound: no such row, or deleted while the SELECT waited for it.
TargetMissing(t) ==
  /\ pc[t] = "target"
  /\ target[t] \notin live
  /\ End(t)
  /\ UNCHANGED <<rows, request>>

\* SELECT COUNT(*) of the other active admins.
CountOthers(t) ==
  /\ pc[t] = "count"
  /\ IF ActiveAdmins \ {target[t]} = {}
     THEN End(t)  \* ErrLastAdmin
     ELSE /\ pc' = [pc EXCEPT ![t] = "write"]
          /\ UNCHANGED <<holder, snapshot, toLock>>
  /\ UNCHANGED <<rows, request>>

\* applyUserPatchTx, or nothing when the role is not valid.
Apply(u, p) ==
  IF p.role = "bogus" THEN UNCHANGED <<role, disabled>>
  ELSE /\ role' = [role EXCEPT ![u] = IF p.role = "keep" THEN @ ELSE p.role]
       /\ disabled' = [disabled EXCEPT ![u] =
             IF p.disabled = "keep" THEN @ ELSE p.disabled = "yes"]

\* The UPDATE and its commit.
WriteUpdate(t) ==
  /\ pc[t] = "write"
  /\ ~patch[t].delete
  /\ Apply(target[t], patch[t])
  /\ End(t)
  /\ UNCHANGED <<created, live, request>>

\* The DELETE and its commit.  The foreign key of a user's API tokens makes
\* it fail; that is Abort.
WriteDelete(t) ==
  /\ pc[t] = "write"
  /\ patch[t].delete
  /\ live' = live \ {target[t]}
  /\ End(t)
  /\ UNCHANGED <<created, role, disabled, request>>

\* A statement fails, the request's context ends, or PostgreSQL breaks a
\* lock cycle at this transaction's cost.
Abort(t) ==
  /\ Open(t)
  /\ End(t)
  /\ UNCHANGED <<rows, request>>

AllServed ==
  /\ \A t \in Txs : pc[t] = "done"
  /\ UNCHANGED vars

TxStep(t) ==
  \/ Begin(t)
  \/ \E u \in Users : LockAdmin(t, u)
  \/ LockedAdmins(t)
  \/ LockTarget(t)
  \/ TargetMissing(t)
  \/ CountOthers(t)
  \/ WriteUpdate(t)
  \/ WriteDelete(t)

Next ==
  \/ \E u \in Users : CreateUser(u)
  \/ \E t \in Txs : TxStep(t) \/ Abort(t)
  \/ AllServed

Spec == Init /\ [][Next]_vars

\* The requests that hold a row which t still has to lock.
Waits(t) ==
  LET wanted == CASE pc[t] = "admins" -> toLock[t] \cap live
                  [] pc[t] = "target" -> {target[t]} \cap live
                  [] OTHER -> {}
  IN  {holder[u] : u \in wanted} \ {Nobody, t}

\* t waits, directly or through others, for itself.
Deadlocked(t) ==
  \A S \in SUBSET Txs :
     Waits(t) \subseteq S /\ (\A s \in S : Waits(s) \subseteq S) => t \in S

\* The server runs every request that waits for no row, and PostgreSQL fails
\* a transaction of a lock cycle.  A scan may meet a held row before the free
\* ones, so a request with one held row ahead need not move.
FairSpec ==
  /\ Spec
  /\ \A t \in Txs : WF_vars(Waits(t) = {} /\ TxStep(t))
  /\ WF_vars(\E t \in Txs : Deadlocked(t) /\ Abort(t))

-----------------------------------------------------------------------------
\* Every variable has its declared shape; no stored role is outside
\* ValidRoles.
TypeOK ==
  /\ created \subseteq Users
  /\ live \subseteq created
  /\ role \in [Users -> ValidRoles]
  /\ disabled \in [Users -> BOOLEAN]
  /\ holder \in [Users -> Txs \cup {Nobody}]
  /\ pc \in [Txs -> {"idle", "admins", "target", "count", "write", "done"}]
  /\ target \in [Txs -> Users]
  /\ patch \in [Txs -> Patches]
  /\ snapshot \in [Txs -> SUBSET created]
  /\ toLock \in [Txs -> SUBSET Users]

\* The last-admin invariant (pg_auth.go:456-460): concurrent demotions,
\* disablings and deletions never leave the deployment without an active
\* admin.
AdminRemains == ActiveAdmins # {}

\* Requests that wait for each other do not wait for ever: a time comes after
\* which no guarded request is open, whichever admins each locking SELECT met
\* first and whichever request the database failed to break a cycle
\* (pg_auth.go:441-445 locks without an ORDER BY; pg.go:122 rolls back on
\* every early return).
EveryGuardedRequestEnds == <>[](\A t \in Txs : ~Open(t))

\* No request restores a row to active admin.
NoPromotion == \A p \in Patches : p.role # "admin" /\ p.disabled # "no"
=============================================================================
