-------------------------- MODULE AdminGuardProofs --------------------------
(***************************************************************************)
(* The last-admin invariant of AdminGuard, for any number of users and     *)
(* concurrent requests, as long as no request turns an existing row into   *)
(* an active admin.                                                        *)
(*                                                                         *)
(* Two requests that are both about to remove an active admin cannot       *)
(* exist: of the active admins, one of the two snapshots contains what the *)
(* other contains (Nested), so both requests would hold the lock of the    *)
(* same target (Locked).                                                   *)
(***************************************************************************)
EXTENDS AdminGuard, TLAPS

LEMMA TypeInit == Init => TypeOK
  BY GuardAssumption, Zenon DEF Init, TypeOK, ValidRoles

LEMMA EndType ==
  ASSUME TypeOK, NEW t \in Txs, End(t)
  PROVE  /\ holder' \in [Users -> Txs \cup {Nobody}]
         /\ pc' \in [Txs -> {"idle", "admins", "target", "count", "write", "done"}]
         /\ snapshot' \in [Txs -> SUBSET created]
         /\ toLock' \in [Txs -> SUBSET Users]
  BY Zenon DEF TypeOK, End

LEMMA TypeStep == TypeOK /\ [Next]_vars => TypeOK'
<1> SUFFICES ASSUME TypeOK, [Next]_vars PROVE TypeOK'
  BY Zenon
<1>1. ASSUME NEW u \in Users, CreateUser(u) PROVE TypeOK'
  BY <1>1 DEF CreateUser, TypeOK, request
<1>2. ASSUME NEW t \in Txs, Begin(t) PROVE TypeOK'
  <2>1. ActiveAdmins \in SUBSET created /\ ActiveAdmins \in SUBSET Users
    BY Zenon DEF ActiveAdmins, TypeOK
  <2> QED BY <1>2, <2>1, Zenon DEF Begin, TypeOK, rows, request
<1>3. ASSUME NEW t \in Txs, NEW u \in Users, LockAdmin(t, u) PROVE TypeOK'
  BY <1>3 DEF LockAdmin, TypeOK, rows, request
<1>4. ASSUME NEW t \in Txs, LockedAdmins(t) PROVE TypeOK'
  BY <1>4, Zenon DEF LockedAdmins, TypeOK, rows, request
<1>5. ASSUME NEW t \in Txs, LockTarget(t) PROVE TypeOK'
  BY <1>5, Zenon DEF LockTarget, TypeOK, rows, request
<1>6. ASSUME NEW t \in Txs, TargetMissing(t) \/ Abort(t) PROVE TypeOK'
  <2>1. End(t) /\ UNCHANGED <<rows, request>>
    BY <1>6, Zenon DEF TargetMissing, Abort
  <2> QED BY <2>1, EndType, Zenon DEF TypeOK, rows, request
<1>7. ASSUME NEW t \in Txs, CountOthers(t) PROVE TypeOK'
  <2>1. CASE End(t) /\ UNCHANGED <<rows, request>>
    BY <2>1, EndType, Zenon DEF TypeOK, rows, request
  <2>2. CASE /\ pc' = [pc EXCEPT ![t] = "write"]
             /\ UNCHANGED <<rows, request, holder, snapshot, toLock>>
    BY <2>2, Zenon DEF TypeOK, rows, request
  <2> QED BY <2>1, <2>2, <1>7, Zenon DEF CountOthers
<1>8. ASSUME NEW t \in Txs, WriteUpdate(t) PROVE TypeOK'
  <2>1. patch[t] \in Patch /\ target[t] \in Users
    BY GuardAssumption, Zenon DEF TypeOK
  <2> DEFINE u == target[t]
             p == patch[t]
             r == IF p.role = "keep" THEN role[u] ELSE p.role
             d == IF p.disabled = "keep" THEN disabled[u]
                  ELSE p.disabled = "yes"
  <2>a. Apply(u, p)
    BY <1>8, Zenon DEF WriteUpdate
  <2>2. ASSUME p.role = "bogus"
        PROVE  role' \in [Users -> ValidRoles] /\ disabled' \in [Users -> BOOLEAN]
    BY <2>2, <2>a, Zenon DEF Apply, TypeOK
  <2>3. ASSUME p.role # "bogus"
        PROVE  role' \in [Users -> ValidRoles] /\ disabled' \in [Users -> BOOLEAN]
    <3>1. r \in ValidRoles
      BY <2>1, <2>3, Zenon DEF Patch, TypeOK
    <3>2. d \in BOOLEAN
      BY <2>1, Zenon DEF TypeOK
    <3>3. role' = [role EXCEPT ![u] = r] /\ disabled' = [disabled EXCEPT ![u] = d]
      BY <2>3, <2>a, Zenon DEF Apply
    <3> HIDE DEF r, d
    <3> QED BY <3>1, <3>2, <3>3, Zenon DEF TypeOK
  <2>4. role' \in [Users -> ValidRoles] /\ disabled' \in [Users -> BOOLEAN]
    BY <2>2, <2>3, Zenon
  <2> QED BY <1>8, <2>4, EndType, Zenon DEF WriteUpdate, TypeOK, request
<1>9. ASSUME NEW t \in Txs, WriteDelete(t) PROVE TypeOK'
  BY <1>9, EndType, Zenon DEF WriteDelete, TypeOK, request
<1>10. CASE UNCHANGED vars
  BY <1>10, Zenon DEF vars, rows, request, TypeOK
<1> QED
  BY <1>1, <1>2, <1>3, <1>4, <1>5, <1>6, <1>7, <1>8, <1>9, <1>10, Zenon
     DEF Next, TxStep, AllServed

\* Every reachable state of the guarded user store is well typed, and no
\* role outside ValidRoles is ever stored.
THEOREM TypeCorrect == Spec => []TypeOK
  BY TypeInit, TypeStep, PTL DEF Spec

-----------------------------------------------------------------------------
\* A request past its locking SELECT, whose target is an active admin.
Threatens(t) == pc[t] \in {"count", "write"} /\ target[t] \in ActiveAdmins

\* The snapshot of an open request contains its target while that is an
\* active admin: nobody was promoted since.
Targeted ==
  \A t \in Txs : Open(t) /\ target[t] \in ActiveAdmins => target[t] \in snapshot[t]

\* The locking SELECT has locked what it has reached and is still there.
Locked ==
  \A t \in Txs : Open(t) =>
     /\ \A u \in snapshot[t] \cap live : holder[u] = t \/ u \in toLock[t]
     /\ pc[t] # "admins" => toLock[t] = {}

\* Of two open requests, the later snapshot has every active admin that the
\* earlier one has.
Nested ==
  \A s, t \in Txs : Open(s) /\ Open(t) =>
     \/ snapshot[s] \cap ActiveAdmins \subseteq snapshot[t]
     \/ snapshot[t] \cap ActiveAdmins \subseteq snapshot[s]

\* A request that may write has seen another active admin, and it is there.
Counted ==
  \A t \in Txs :
     pc[t] = "write" /\ Removes(patch[t]) /\ target[t] \in ActiveAdmins
        => ActiveAdmins \ {target[t]} # {}

\* A request's target has been created before it began.
Known == \A t \in Txs : Open(t) => target[t] \in created

GuardInv ==
  TypeOK /\ Targeted /\ Locked /\ Nested /\ Counted /\ Known /\ AdminRemains

\* Two requests never threaten the admins at the same time.
LEMMA OneThreat ==
  ASSUME GuardInv, NEW s \in Txs, NEW t \in Txs, Threatens(s), Threatens(t)
  PROVE  s = t
<1>1. /\ Open(s) /\ Open(t)
      /\ toLock[s] = {} /\ toLock[t] = {}
      /\ target[s] \in ActiveAdmins /\ target[t] \in ActiveAdmins
  BY Zenon DEF Threatens, Open, GuardInv, Locked
<1>2. target[s] \in snapshot[s] \cap live /\ target[t] \in snapshot[t] \cap live
  BY <1>1, Zenon DEF GuardInv, Targeted, ActiveAdmins
<1>3. holder[target[s]] = s /\ holder[target[t]] = t
  BY <1>1, <1>2, Zenon DEF GuardInv, Locked
<1>4. \/ target[s] \in snapshot[t]
      \/ target[t] \in snapshot[s]
  BY <1>1, <1>2, Zenon DEF GuardInv, Nested
<1>5. target[s] \in snapshot[t] => holder[target[s]] = t
  BY <1>1, <1>2, Zenon DEF GuardInv, Locked
<1>6. target[t] \in snapshot[s] => holder[target[t]] = s
  BY <1>1, <1>2, Zenon DEF GuardInv, Locked
<1> QED BY <1>3, <1>4, <1>5, <1>6, Zenon

LEMMA GuardInit == Init => GuardInv
<1> SUFFICES ASSUME Init PROVE GuardInv
  BY Zenon
<1>1. \A t \in Txs : pc[t] = "idle"
  BY Zenon DEF Init
<1>2. ActiveAdmins = InitialUsers
  BY GuardAssumption, Zenon DEF Init, ActiveAdmins
<1> QED
  BY <1>1, <1>2, TypeInit, GuardAssumption, Zenon
     DEF GuardInv, Targeted, Locked, Nested, Counted, Known, AdminRemains, Open

LEMMA GuardStep ==
  ASSUME NoPromotion PROVE GuardInv /\ [Next]_vars => GuardInv'
<1> SUFFICES ASSUME GuardInv, [Next]_vars PROVE GuardInv'
  BY Zenon
<1>t. TypeOK /\ TypeOK'
  BY TypeStep, Zenon DEF GuardInv
\* The end of a transaction.
<1>1. ASSUME NEW t \in Txs, End(t), UNCHANGED <<created, request>>,
             live' \subseteq live, ActiveAdmins' \subseteq ActiveAdmins,
             AdminRemains',
             \A s \in Txs \ {t} :
                pc[s] = "write" /\ Removes(patch[s])
                   /\ target[s] \in ActiveAdmins' => ActiveAdmins' = ActiveAdmins
      PROVE  GuardInv'
  <2>1. /\ \A s \in Txs \ {t} : /\ pc'[s] = pc[s]
                                /\ snapshot'[s] = snapshot[s]
                                /\ toLock'[s] = toLock[s]
        /\ pc'[t] = "done"
        /\ \A u \in Users : \A s \in Txs \ {t} : holder[u] = s => holder'[u] = s
        /\ target' = target /\ patch' = patch /\ created' = created
    BY <1>1, <1>t, Zenon DEF End, TypeOK, request
  <2>2. Targeted'
    BY <2>1, <1>1, Zenon DEF GuardInv, Targeted, Open
  <2>3. Locked'
    BY <2>1, <1>1, <1>t DEF GuardInv, Locked, Open, TypeOK
  <2>4. Nested'
    BY <2>1, <1>1, Zenon DEF GuardInv, Nested, Open
  <2>5. Counted'
    BY <2>1, <1>1, Zenon DEF GuardInv, Counted
  <2>6. Known'
    BY <2>1, Zenon DEF GuardInv, Known, Open
  <2> QED BY <2>2, <2>3, <2>4, <2>5, <2>6, <1>1, <1>t, Zenon DEF GuardInv
<1>2. ASSUME NEW u \in Users, CreateUser(u) PROVE GuardInv'
  <2>1. /\ u \notin created /\ u \notin live
        /\ created' = created \cup {u} /\ live' = live \cup {u}
        /\ UNCHANGED <<holder, pc, target, patch, snapshot, toLock>>
        /\ ActiveAdmins \subseteq ActiveAdmins'
        /\ ActiveAdmins' \subseteq ActiveAdmins \cup {u}
    BY <1>2, <1>t DEF CreateUser, request, ActiveAdmins, TypeOK
  <2>2. \A t \in Txs : u \notin snapshot[t]
    BY <2>1, <1>t, Zenon DEF TypeOK
  <2>3. \A t \in Txs : Open(t) => target[t] # u
    BY <2>1, Zenon DEF GuardInv, Known
  <2>4. Targeted'
    BY <2>1, <2>3, Zenon DEF GuardInv, Targeted, Open
  <2>5. Locked'
    BY <2>1, <2>2, Zenon DEF GuardInv, Locked, Open
  <2>6. Nested'
    BY <2>1, <2>2, Zenon DEF GuardInv, Nested, Open
  <2>7. Counted'
    BY <2>1, <2>3, Zenon DEF GuardInv, Counted, Open
  <2>8. Known' /\ AdminRemains'
    BY <2>1, Zenon DEF GuardInv, Known, Open, AdminRemains
  <2> QED BY <2>4, <2>5, <2>6, <2>7, <2>8, <1>t, Zenon DEF GuardInv
<1>3. ASSUME NEW t \in Txs, Begin(t) PROVE GuardInv'
  <2>1. /\ UNCHANGED <<created, live, holder, target, patch>>
        /\ ActiveAdmins' = ActiveAdmins
        /\ \A s \in Txs \ {t} : /\ pc'[s] = pc[s]
                                /\ snapshot'[s] = snapshot[s]
                                /\ toLock'[s] = toLock[s]
        /\ pc'[t] = "admins"
        /\ snapshot'[t] = ActiveAdmins /\ toLock'[t] = ActiveAdmins
        /\ target[t] \in created
    BY <1>3, <1>t, Zenon DEF Begin, rows, request, ActiveAdmins, TypeOK
  <2>2. Targeted' /\ Locked' /\ Counted' /\ Known' /\ AdminRemains'
    BY <2>1, Zenon
       DEF GuardInv, Targeted, Locked, Counted, Known, AdminRemains, Open
  <2>3. Nested'
    BY <2>1, Zenon DEF GuardInv, Nested, Open
  <2> QED BY <2>2, <2>3, <1>t, Zenon DEF GuardInv
\* A step of an open transaction that leaves the rows alone.
<1>4. ASSUME NEW t \in Txs, Open(t), Open(t)', UNCHANGED <<rows, request, snapshot>>,
             \A s \in Txs \ {t} : pc'[s] = pc[s] /\ toLock'[s] = toLock[s],
             \A u \in Users : \/ holder'[u] = holder[u]
                              \/ holder[u] \in {Nobody, t} /\ holder'[u] = t,
             \A u \in snapshot[t] \cap live :
                holder'[u] = t \/ u \in toLock'[t],
             pc'[t] # "admins" => toLock'[t] = {},
             pc'[t] = "write" /\ Removes(patch[t])
                /\ target[t] \in ActiveAdmins => ActiveAdmins \ {target[t]} # {}
      PROVE  GuardInv'
  <2>1. UNCHANGED <<created, live, target, patch, snapshot>> /\ ActiveAdmins' = ActiveAdmins
    BY <1>4, Zenon DEF rows, request, ActiveAdmins
  <2>2. \A s \in Txs \ {t} : \A u \in Users : holder[u] = s => holder'[u] = s
    BY <1>4, GuardAssumption, Zenon
  <2>3. \A s \in Txs : Open(s)' => Open(s)
    BY <1>4, Zenon DEF Open
  <2>4. Locked'
    BY <1>4, <2>1, <2>2, <1>t, Zenon DEF GuardInv, Locked, Open, TypeOK
  <2>5. Targeted' /\ Nested' /\ Known' /\ AdminRemains'
    BY <2>1, <2>3, Zenon
       DEF GuardInv, Targeted, Nested, Known, AdminRemains
  <2>6. Counted'
    BY <1>4, <2>1, Zenon DEF GuardInv, Counted
  <2> QED BY <2>4, <2>5, <2>6, <1>t, Zenon DEF GuardInv
<1>5. ASSUME NEW t \in Txs, NEW u \in Users, LockAdmin(t, u) PROVE GuardInv'
  <2>1. \A v \in snapshot[t] \cap live : holder'[v] = t \/ v \in toLock'[t]
    BY <1>5, <1>t, Zenon DEF LockAdmin, GuardInv, Locked, Open, TypeOK
  <2> QED
    BY <1>4, <1>5, <2>1, <1>t, Zenon DEF LockAdmin, Lockable, Open, TypeOK
<1>6. ASSUME NEW t \in Txs, LockedAdmins(t) PROVE GuardInv'
  <2>1. \A v \in snapshot[t] \cap live : holder'[v] = t \/ v \in toLock'[t]
    BY <1>6, Zenon DEF LockedAdmins, GuardInv, Locked, Open
  <2> QED BY <1>4, <1>6, <2>1, <1>t, Zenon DEF LockedAdmins, Open, TypeOK
<1>7. ASSUME NEW t \in Txs, LockTarget(t) PROVE GuardInv'
  <2>1. \A v \in snapshot[t] \cap live : holder'[v] = t \/ v \in toLock'[t]
    BY <1>7, <1>t, Zenon DEF LockTarget, GuardInv, Locked, Open, TypeOK
  <2>2. toLock'[t] = {} /\ Open(t)
    BY <1>7, Zenon DEF LockTarget, GuardInv, Locked, Open
  <2>3. Open(t)'
    BY <1>7, <1>t, Zenon DEF LockTarget, Open, TypeOK
  <2> QED BY <1>4, <1>7, <2>1, <2>2, <2>3, <1>t, Zenon DEF LockTarget, Lockable, TypeOK
<1>8. ASSUME NEW t \in Txs, CountOthers(t), ~End(t) PROVE GuardInv'
  <2>1. /\ pc[t] = "count" /\ pc' = [pc EXCEPT ![t] = "write"]
        /\ ActiveAdmins \ {target[t]} # {}
        /\ UNCHANGED <<rows, request, holder, snapshot, toLock>>
    BY <1>8, Zenon DEF CountOthers
  <2>2. /\ \A v \in snapshot[t] \cap live : holder'[v] = t \/ v \in toLock'[t]
        /\ toLock'[t] = {}
    BY <2>1, Zenon DEF GuardInv, Locked, Open
  <2> QED BY <1>4, <2>1, <2>2, <1>t, Zenon DEF Open, TypeOK
<1>9. ASSUME NEW t \in Txs, End(t), UNCHANGED <<rows, request>> PROVE GuardInv'
  <2>1. ActiveAdmins' = ActiveAdmins
    BY <1>9, Zenon DEF rows, ActiveAdmins
  <2> QED BY <1>1, <1>9, <2>1, Zenon DEF rows, GuardInv, AdminRemains
\* The write of a request that may take its target away.
<1>10. ASSUME NEW t \in Txs, pc[t] = "write", End(t),
              UNCHANGED <<created, request>>, live' \subseteq live,
              ActiveAdmins' \subseteq ActiveAdmins,
              ActiveAdmins \ {target[t]} \subseteq ActiveAdmins',
              ActiveAdmins' # ActiveAdmins => Removes(patch[t])
       PROVE  GuardInv'
  <2>1. CASE ActiveAdmins' = ActiveAdmins
    BY <1>1, <1>10, <2>1, Zenon DEF GuardInv, AdminRemains
  <2>2. CASE ActiveAdmins' # ActiveAdmins
    <3>1. Threatens(t) /\ Removes(patch[t])
      BY <1>10, <2>2, Zenon DEF Threatens
    <3>2. AdminRemains'
      BY <3>1, <1>10, Zenon DEF Threatens, GuardInv, Counted, AdminRemains
    <3>3. \A s \in Txs \ {t} : ~Threatens(s)
      BY <3>1, OneThreat, Zenon
    <3> QED BY <1>1, <1>10, <3>2, <3>3, Zenon DEF Threatens
  <2> QED BY <2>1, <2>2, Zenon
<1>11. ASSUME NEW t \in Txs, WriteDelete(t) PROVE GuardInv'
  BY <1>10, <1>11, Zenon
     DEF WriteDelete, ActiveAdmins, Removes, TypeOK
<1>12. ASSUME NEW t \in Txs, WriteUpdate(t) PROVE GuardInv'
  <2> DEFINE u == target[t]
             p == patch[t]
  <2>1. /\ u \in Users /\ p \in Patches /\ p \in Patch
        /\ p.role # "admin" /\ p.disabled # "no"
    BY <1>t, GuardAssumption, Zenon DEF GuardAssumption, TypeOK, NoPromotion
  <2>2. /\ \A v \in Users \ {u} : role'[v] = role[v] /\ disabled'[v] = disabled[v]
        /\ role'[u] = "admin" => role[u] = "admin"
        /\ ~disabled'[u] => ~disabled[u]
        /\ ~Removes(p) => role'[u] = role[u] /\ disabled'[u] = disabled[u]
    <3> DEFINE r == IF p.role = "keep" THEN role[u] ELSE p.role
               d == IF p.disabled = "keep" THEN disabled[u]
                    ELSE p.disabled = "yes"
    <3>1. CASE p.role = "bogus"
      BY <1>12, <3>1, Zenon DEF WriteUpdate, Apply
    <3>2. CASE p.role # "bogus"
      <4>1. /\ role' = [role EXCEPT ![u] = r]
            /\ disabled' = [disabled EXCEPT ![u] = d]
        BY <1>12, <3>2, Zenon DEF WriteUpdate, Apply
      <4>2. /\ r = "admin" => role[u] = "admin"
            /\ ~Removes(p) => r = role[u]
        BY <2>1, Zenon DEF Patch, Removes, ValidRoles
      <4>3. p.disabled \in {"keep", "yes"}
        BY <2>1, Zenon DEF Patch
      <4>4. CASE p.disabled = "keep"
        BY <4>1, <4>2, <4>4, <2>1, <1>t, Zenon DEF TypeOK
      <4>5. CASE p.disabled = "yes"
        <5>1. disabled' = [disabled EXCEPT ![u] = TRUE] /\ Removes(p)
          BY <4>1, <4>5, Zenon DEF Removes
        <5> QED BY <4>1, <4>2, <5>1, <2>1, <1>t, ZenonT(60) DEF TypeOK
      <4> QED BY <4>3, <4>4, <4>5, Zenon
    <3> QED BY <3>1, <3>2, Zenon
  <2>3. live' = live
    BY <1>12, Zenon DEF WriteUpdate
  <2>4. /\ ActiveAdmins' \subseteq ActiveAdmins
        /\ ActiveAdmins \ {u} \subseteq ActiveAdmins'
        /\ ~Removes(p) => ActiveAdmins' = ActiveAdmins
    BY <2>2, <2>3, <1>t, SMTT(30) DEF ActiveAdmins, TypeOK
  <2> QED BY <1>10, <1>12, <2>3, <2>4, SMTT(30) DEF WriteUpdate
<1>13. CASE UNCHANGED vars
  BY <1>13, <1>t
     DEF vars, rows, request, GuardInv, Targeted, Locked, Nested, Counted,
         Known, AdminRemains, ActiveAdmins, Open
<1> QED
  BY <1>2, <1>3, <1>5, <1>6, <1>7, <1>8, <1>9, <1>11, <1>12, <1>13, Zenon
     DEF Next, TxStep, AllServed, TargetMissing, CountOthers, Abort

\* UpdateUserGuarded and DeleteUserGuarded keep an active admin, for any
\* number of users and of concurrent requests and next to any CreateUser,
\* when no concurrent request promotes or re-enables a user.
THEOREM LastAdminKept == NoPromotion => (Spec => []AdminRemains)
<1> SUFFICES ASSUME NoPromotion PROVE Spec => []AdminRemains
  BY Zenon
<1>1. Init => GuardInv
  BY GuardInit, Zenon
<1>2. GuardInv /\ [Next]_vars => GuardInv'
  BY GuardStep, Zenon
<1>3. GuardInv => AdminRemains
  BY Zenon DEF GuardInv
<1> QED
  BY <1>1, <1>2, <1>3, PTL DEF Spec
=============================================================================
