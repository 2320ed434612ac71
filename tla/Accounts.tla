------------------------------ MODULE Accounts ------------------------------
(***************************************************************************)
(* Accounts of the daemon: password and OIDC login, the lockout, session   *)
(* cookies, the handlers that change a user, and what runs at every start  *)
(* (internal/api/auth_handlers.go, internal/auth,                          *)
(* internal/store/pg_auth.go, cmd/longue-vue/main.go).                     *)
(*                                                                         *)
(* Concurrent requests interleave statement by statement: one step is one  *)
(* call of the store, and a transaction that locks the row it reads is one *)
(* step.  A guarded transaction is two: the count of the other admins, and *)
(* the write.  The row locks between them, which AdminGuard models, are    *)
(* left out, so that every order of the two that the locks allow, and more,*)
(* happens here; the last admins may go.  A password is a version number,  *)
(* zero for the hash of a shadow user that never verifies.  last_login_at  *)
(* and the other timestamps that nothing here reads are left out; the      *)
(* expiry of a row is a flag that time sets at any moment.  The login rate *)
(* limiter refuses attempts before they start and is left out.             *)
(***************************************************************************)
EXTENDS Integers, FiniteSets

CONSTANTS UserIds,          \* ids of rows of users, each used once
          Names,            \* usernames
          AdminName,        \* the name bootstrapAdminIfNeeded gives
          Subjects,         \* (issuer, subject) pairs of the identity provider
          BaseName,         \* deriveUsername of a subject's claims
          SessionIds,       \* cookie values, each used once
          AuthStates,       \* OIDC state parameters, each used once
          Requests,         \* requests in flight
          Databases,        \* contents of users the first start may find
          NewRoles,         \* roles that CreateUser is called with
          Patches,          \* bodies of PATCH /v1/admin/users/{id}
          Threshold,        \* failedLoginLockoutThreshold
          Attempts,         \* rounds of findOrCreateOidcUser
          RescuePassword,   \* LONGUE_VUE_ADMIN_RESCUE_PASSWORD is set
          MaxPassword, MaxCalls, MaxFaults,
          None, Unborn, Gone  \* no value, a row not yet made, a deleted row

Shadow == 0

\* UserPatch with the password that UpdateUser splits off; "keep" is nil.
Patch == [role : {"admin", "viewer", "keep"}, disabled : {"yes", "no", "keep"},
          must : {"yes", "no", "keep"}, unlock : BOOLEAN, password : BOOLEAN]

User == [name : Names, role : {"admin", "viewer"}, pw : 0..MaxPassword,
         must : BOOLEAN, disabled : BOOLEAN, failed : 0..Threshold,
         locked : BOOLEAN]

Session == [user : UserIds, expired : BOOLEAN,
            proof : 0..MaxPassword, late : BOOLEAN]

ASSUME AccountsAssumption ==
  /\ AdminName \in Names
  /\ BaseName \in [Subjects -> Names]
  /\ NewRoles \subseteq {"admin", "viewer"}
  /\ Patches \subseteq Patch
  /\ IsFiniteSet(Requests)
  /\ None \notin UserIds \cup SessionIds \cup AuthStates \cup Subjects
  /\ Unborn # Gone
  /\ {Unborn, Gone} \cap (User \cup Session) = {}
  /\ Threshold \in Nat \ {0}
  /\ Attempts \in Nat \ {0}
  /\ RescuePassword \in BOOLEAN
  /\ MaxPassword \in Nat \ {0} /\ MaxCalls \in Nat /\ MaxFaults \in Nat

\* The first start finds users that chose a password, whose lock agrees with
\* their counter.
ASSUME DatabasesAssumption ==
  \A db \in Databases :
    /\ db \in [UserIds -> User \cup {Unborn, Gone}]
    /\ \A u \in UserIds : db[u] \notin {Unborn, Gone} =>
         db[u].pw # Shadow /\ db[u].locked = (db[u].failed >= Threshold)

VARIABLES users,     \* row of each id
          identity,  \* user_identities: the user of each subject
          sessions,  \* row of each cookie value, Unborn or Gone
          states,    \* oidc_auth_states: phase of each
          req,       \* what each request in flight does next, and what it knows
          boot,      \* phase of the daemon
          guesses,   \* wrong passwords tried on each user since its last reset
          swept,     \* the last new password of each user ended its sessions
          nextPw, calls, faults

store == <<users, identity, sessions, states>>
vars == <<store, req, boot, guesses, swept, nextPw, calls, faults>>

Idle == [pc |-> "idle", user |-> None, sid |-> None, pw |-> Shadow,
         admin |-> FALSE, target |-> None, patch |-> None, sub |-> None,
         round |-> 0, barred |-> FALSE]

Exists(u) == users[u] \notin {Unborn, Gone}
Live(s) == sessions[s] \notin {Unborn, Gone}
\* The next id that a random identifier stands for; no two are equal.
Fresh(table, u) ==
  /\ table[u] = Unborn
  /\ u = CHOOSE v \in DOMAIN table : table[v] = Unborn

Taken(n) == \E u \in UserIds : Exists(u) /\ users[u].name = n

\* CountActiveAdmins and CountActiveUnlockedAdmins, as sets.
ActiveAdmins ==
  {u \in UserIds : Exists(u) /\ users[u].role = "admin" /\ ~users[u].disabled}
UsableAdmins == {u \in ActiveAdmins : ~users[u].locked}

\* ScopesForRole; only two of the four roles occur below.
ScopesForRole(role) ==
  CASE role = "admin" -> {"read", "write", "delete", "admin", "audit"}
    [] role = "editor" -> {"read", "write"}
    [] role = "auditor" -> {"read", "audit"}
    [] role = "viewer" -> {"read"}

\* HasScope: admin stands for every scope but the VM collector's.
HasScope(scopes, want) ==
  want \in scopes \/ ("admin" \in scopes /\ want # "vm-collector")

NewUser(name, role, pw, must) ==
  [name |-> name, role |-> role, pw |-> pw, must |-> must,
   disabled |-> FALSE, failed |-> 0, locked |-> FALSE]

Goto(r, next) == req' = [req EXCEPT ![r] = next]
Done(r) == Goto(r, Idle)
At(r, pc) == boot = "up" /\ req[r].pc = pc
\* A new request, of which there are MaxCalls.
Arrives(r) == At(r, "idle") /\ calls < MaxCalls /\ calls' = calls + 1

-----------------------------------------------------------------------------
\* The sliding expiry of a session passes.
ExpireSession(s) ==
  /\ Live(s)
  /\ ~sessions[s].expired
  /\ sessions' = [sessions EXCEPT ![s].expired = TRUE]
  /\ UNCHANGED <<users, identity, states, req, boot, guesses, swept, nextPw,
                 faults, calls>>

\* The lifetime of an OIDC state passes.
ExpireState(q) ==
  /\ states[q] = "live"
  /\ states' = [states EXCEPT ![q] = "expired"]
  /\ UNCHANGED <<users, identity, sessions, req, boot, guesses, swept, nextPw,
                 faults, calls>>

-----------------------------------------------------------------------------
(* POST /v1/auth/login.                                                    *)

Login(r) ==
  /\ Arrives(r)
  /\ Goto(r, [Idle EXCEPT !.pc = "lookup"])
  /\ UNCHANGED <<store, boot, guesses, swept, nextPw, faults>>

\* Mutant: the lock is not looked at.
LoginLookupBlind(r, u) ==
  /\ At(r, "lookup")
  /\ Exists(u)
  /\ ~users[u].disabled
  /\ Goto(r, [Idle EXCEPT !.pc = "verify", !.user = u, !.pw = users[u].pw])
  /\ UNCHANGED <<store, boot, guesses, swept, nextPw, faults, calls>>

\* GetUserByUsername sees enabled users only; a locked account is refused
\* without looking at the password.
LoginLookup(r, u) ==
  /\ At(r, "lookup")
  /\ Exists(u)
  /\ ~users[u].disabled
  /\ IF users[u].locked THEN Done(r)
     ELSE Goto(r, [Idle EXCEPT !.pc = "verify", !.user = u, !.pw = users[u].pw])
  /\ UNCHANGED <<store, boot, guesses, swept, nextPw, faults, calls>>

\* No such enabled user: 401.
LoginUnknown(r) ==
  /\ At(r, "lookup")
  /\ Done(r)
  /\ UNCHANGED <<store, boot, guesses, swept, nextPw, faults, calls>>

\* Mutant: an attempt on a locked account counts again.
IncrementFailedLoginAlways(u) ==
  users' = [users EXCEPT ![u].failed = @ + 1,
                         ![u].locked = users[u].failed + 1 >= Threshold]

\* IncrementFailedLogin on an existing row, which it locks.
IncrementFailedLogin(u) ==
  users' = IF users[u].locked THEN users
           ELSE [users EXCEPT ![u].failed = @ + 1,
                              ![u].locked = users[u].failed + 1 >= Threshold]

\* A wrong password.  An error of IncrementFailedLogin is logged only.
LoginMismatch(r) ==
  LET u == req[r].user IN
  /\ At(r, "verify")
  /\ \/ Exists(u) /\ IncrementFailedLogin(u) /\ UNCHANGED faults
     \/ ~Exists(u) /\ UNCHANGED <<users, faults>>
     \/ Exists(u) /\ faults < MaxFaults /\ faults' = faults + 1 /\ UNCHANGED users
  /\ guesses' = [guesses EXCEPT ![u] = @ + 1]
  /\ Done(r)
  /\ UNCHANGED <<identity, sessions, states, boot, swept, nextPw, calls>>

\* The password matches the hash that was read, which a shadow user's never
\* does, or the identity provider vouched for the user: CreateSession under a
\* fresh cookie value; the foreign key refuses a user that is gone.  A
\* password login goes on to ResetFailedLogin, an OIDC one only writes
\* timestamps.
CreateSession(r) ==
  LET u == req[r].user IN
  /\ At(r, "session") \/ (At(r, "verify") /\ req[r].pw # Shadow)
  /\ \/ /\ ~Exists(u)
        /\ Done(r)
        /\ UNCHANGED sessions
     \/ /\ Exists(u)
        /\ \E s \in SessionIds :
             /\ Fresh(sessions, s)
             /\ sessions' = [sessions EXCEPT ![s] =
                  [user |-> u, expired |-> FALSE,
                   proof |-> req[r].pw, late |-> users[u].pw # req[r].pw]]
        /\ IF req[r].sub = None THEN Goto(r, [req[r] EXCEPT !.pc = "reset"])
           ELSE Done(r)
  /\ UNCHANGED <<users, identity, states, boot, guesses, swept,
                 nextPw, faults, calls>>

\* Mutant: only the counter is cleared.
UnlockedHalf(u) == [users EXCEPT ![u].failed = 0]

Unlocked(u) == [users EXCEPT ![u].failed = 0, ![u].locked = FALSE]

\* ResetFailedLogin; its error is logged only.
ResetFailedLogin(r) ==
  LET u == req[r].user IN
  /\ At(r, "reset")
  /\ users' = IF Exists(u) THEN Unlocked(u) ELSE users
  /\ guesses' = [guesses EXCEPT ![u] = 0]
  /\ Done(r)
  /\ UNCHANGED <<identity, sessions, states, boot, swept, nextPw,
                 faults, calls>>

-----------------------------------------------------------------------------
(* The OIDC flow.                                                          *)

OidcAuthorize(q) ==
  /\ boot = "up"
  /\ states[q] = "unborn"
  /\ states' = [states EXCEPT ![q] = "live"]
  /\ UNCHANGED <<users, identity, sessions, req, boot, guesses,
                 swept, nextPw, faults, calls>>

\* ConsumeOidcAuthState: the row is deleted with every expired one; Exchange
\* then yields the claims of some subject.
OidcCallback(r, q, sub) ==
  /\ Arrives(r)
  /\ states[q] = "live"
  /\ states' = [p \in AuthStates |->
       IF p = q \/ states[p] = "expired" THEN "gone"
       ELSE states[p]]
  /\ Goto(r, [Idle EXCEPT !.pc = "find", !.sub = sub, !.round = 1])
  /\ UNCHANGED <<users, identity, sessions, boot, guesses, swept,
                 nextPw, faults>>

\* GetUserByIdentity sees enabled users only.
Known(sub) == identity[sub] # None /\ ~users[identity[sub]].disabled

Resolve(r, u) ==
  Goto(r, [req[r] EXCEPT !.pc = "session", !.user = u, !.pw = users[u].pw])

OidcFind(r) ==
  LET sub == req[r].sub IN
  /\ At(r, "find")
  /\ IF Known(sub) THEN Resolve(r, identity[sub])
     ELSE Goto(r, [req[r] EXCEPT !.pc = "create"])
  /\ UNCHANGED <<store, boot, guesses, swept, nextPw, faults, calls>>

\* Mutant: the user is committed before the identity is inserted.
CreateUserWithIdentitySplit(u, n, sub) ==
  /\ ~Taken(n)
  /\ users' = [users EXCEPT ![u] = NewUser(n, "viewer", Shadow, FALSE)]
  /\ identity' = IF identity[sub] = None THEN [identity EXCEPT ![sub] = u]
                 ELSE identity

\* CreateUserWithIdentity: both rows or neither.
CreateUserWithIdentity(u, n, sub) ==
  /\ ~Taken(n)
  /\ identity[sub] = None
  /\ users' = [users EXCEPT ![u] = NewUser(n, "viewer", Shadow, FALSE)]
  /\ identity' = [identity EXCEPT ![sub] = u]

\* One round of the loop of findOrCreateOidcUser: the derived name first,
\* then that name with a random suffix.
OidcCreate(r, n) ==
  LET sub == req[r].sub IN
  /\ At(r, "create")
  /\ req[r].round = 1 => n = BaseName[sub]
  /\ req[r].round > 1 => n # BaseName[sub]
  /\ \/ \E u \in UserIds :
          /\ Fresh(users, u)
          /\ CreateUserWithIdentity(u, n, sub)
          /\ Goto(r, [req[r] EXCEPT !.pc = "session", !.user = u, !.pw = Shadow])
     \/ /\ Taken(n) \/ identity[sub] # None
        /\ Goto(r, [req[r] EXCEPT !.pc = "reread"])
        /\ UNCHANGED <<users, identity>>
  /\ UNCHANGED <<sessions, states, boot, guesses, swept, nextPw,
                 faults, calls>>

\* After a conflict: the identity is there by now, or the next name is tried,
\* until the rounds are used up.
OidcReread(r) ==
  LET sub == req[r].sub IN
  /\ At(r, "reread")
  /\ IF Known(sub) THEN Resolve(r, identity[sub])
     ELSE IF req[r].round < Attempts
     THEN Goto(r, [req[r] EXCEPT !.pc = "create", !.round = @ + 1])
     ELSE Done(r)
  /\ UNCHANGED <<store, boot, guesses, swept, nextPw, faults, calls>>

-----------------------------------------------------------------------------
(* The middleware on a request with a session cookie.                      *)

\* GetActiveSession.
Cookie(r, s) ==
  /\ Arrives(r)
  /\ Live(s)
  /\ ~sessions[s].expired
  /\ Goto(r, [Idle EXCEPT !.pc = "user", !.sid = s, !.user = sessions[s].user,
                          !.barred = users[sessions[s].user].disabled])
  /\ UNCHANGED <<store, boot, guesses, swept, nextPw, faults>>

\* Mutant: the middleware trusts the session row alone.
GetUserForAuthAny(u) == Exists(u)

\* GetUserForAuth, and the refusal of a disabled user in tryCookie.
GetUserForAuth(u) == Exists(u) /\ ~users[u].disabled

CookieUser(r) ==
  LET u == req[r].user IN
  /\ At(r, "user")
  /\ IF GetUserForAuth(u)
     THEN Goto(r, [req[r] EXCEPT !.pc = IF users[u].must THEN "touchmust"
                                        ELSE "touch",
                                 !.admin = HasScope(ScopesForRole(users[u].role),
                                                    "admin")])
     ELSE Done(r)
  /\ UNCHANGED <<store, boot, guesses, swept, nextPw, faults, calls>>

\* Mutant: a refresh writes the row again although it was deleted.
TouchSessionUpsert(r) ==
  LET s == req[r].sid IN
  sessions' = IF Live(s)
              THEN [sessions EXCEPT ![s].expired = FALSE]
              ELSE [sessions EXCEPT ![s] =
                     [user |-> req[r].user, expired |-> FALSE,
                      proof |-> Shadow, late |-> TRUE]]

\* TouchSession slides the expiry of a row that is still there.
TouchSession(r) ==
  sessions' = IF Live(req[r].sid)
              THEN [sessions EXCEPT ![req[r].sid].expired = FALSE]
              ELSE sessions

\* The refresh is best effort.  With must_change_password only the endpoints
\* of isPasswordChangeAllowed stay open.
CookieTouch(r) ==
  /\ req[r].pc \in {"touch", "touchmust"} /\ boot = "up"
  /\ \/ TouchSession(r) /\ UNCHANGED faults
     \/ faults < MaxFaults /\ faults' = faults + 1 /\ UNCHANGED sessions
  /\ Goto(r, [req[r] EXCEPT !.pc = IF @ = "touch" THEN "handler"
                                   ELSE "password page"])
  /\ UNCHANGED <<users, identity, states, boot, guesses, swept,
                 nextPw, calls>>

\* A handler that changes nothing here, or a refusal; that of a DELETE when
\* the row is gone or API tokens refer to it.
Serve(r) ==
  /\ boot = "up"
  /\ req[r].pc \in {"handler", "password page", "erase"}
  /\ Done(r)
  /\ UNCHANGED <<store, boot, guesses, swept, nextPw, faults, calls>>

EndSession(s) == IF Live(s) THEN [sessions EXCEPT ![s] = Gone] ELSE sessions

\* Logout: DeleteSession.
Logout(r) ==
  /\ boot = "up"
  /\ req[r].pc \in {"handler", "password page"}
  /\ sessions' = EndSession(req[r].sid)
  /\ Done(r)
  /\ UNCHANGED <<users, identity, states, boot, guesses, swept,
                 nextPw, faults, calls>>

\* ChangePassword up to the check of the current password, against the row
\* of the caller as it is now.
ChangePassword(r) ==
  LET u == req[r].user IN
  /\ boot = "up"
  /\ req[r].pc \in {"handler", "password page"}
  /\ Exists(u) /\ ~users[u].disabled /\ users[u].pw # Shadow
  /\ Goto(r, [req[r] EXCEPT !.pc = "setpw", !.target = u])
  /\ UNCHANGED <<store, boot, guesses, swept, nextPw, faults, calls>>

-----------------------------------------------------------------------------
(* The handlers of /v1/admin, behind the admin scope.                      *)

AdminCall(r) == At(r, "handler") /\ req[r].admin

CreateUser(r, n) ==
  /\ AdminCall(r)
  /\ ~Taken(n)
  /\ nextPw <= MaxPassword
  /\ \E u \in UserIds, role \in NewRoles, must \in BOOLEAN :
       /\ Fresh(users, u)
       /\ users' = [users EXCEPT ![u] = NewUser(n, role, nextPw, must)]
  /\ nextPw' = nextPw + 1
  /\ Done(r)
  /\ UNCHANGED <<identity, sessions, states, boot, guesses, swept,
                 faults, calls>>

\* SetUserPassword, first statement.
SetUserPassword(r, u, must, patch) ==
  /\ IF ~Exists(u) THEN Done(r) /\ UNCHANGED <<users, swept, nextPw>>
     ELSE /\ nextPw <= MaxPassword
          /\ users' = [users EXCEPT ![u].pw = nextPw, ![u].must = must]
          /\ swept' = [swept EXCEPT ![u] = FALSE]
          /\ nextPw' = nextPw + 1
          /\ Goto(r, [req[r] EXCEPT !.pc = "sweep", !.target = u, !.patch = patch])
  /\ UNCHANGED <<identity, sessions, states, boot, guesses, faults, calls>>

\* ChangePassword after its check of the current password.
SetOwnPassword(r) ==
  At(r, "setpw") /\ SetUserPassword(r, req[r].target, FALSE, None)

\* Mutant: only expired sessions are deleted.
WithoutSessionsOfExpired(u) ==
  [s \in SessionIds |->
     IF Live(s) /\ sessions[s].user = u /\ sessions[s].expired
     THEN Gone ELSE sessions[s]]

\* DeleteSessionsForUser.
WithoutSessionsOf(u) ==
  [s \in SessionIds |->
     IF Live(s) /\ sessions[s].user = u THEN Gone ELSE sessions[s]]

\* SetUserPassword, second statement; UpdateUser goes on to the other fields.
SweepSessions(r) ==
  LET u == req[r].target IN
  /\ At(r, "sweep")
  /\ sessions' = WithoutSessionsOf(u)
  /\ swept' = [swept EXCEPT ![u] = TRUE]
  /\ IF req[r].patch = None THEN Done(r)
     ELSE Goto(r, [req[r] EXCEPT !.pc = "guarded"])
  /\ UNCHANGED <<users, identity, states, boot, guesses, nextPw,
                 faults, calls>>

Flag(old, choice) == IF choice = "keep" THEN old ELSE choice = "yes"

\* ErrLastAdmin: u is the only active admin.
LastAdmin(u) == ActiveAdmins = {u}

\* UpdateUserGuarded up to the count of the other active admins.
GuardUpdate(r, u, p) ==
  /\ IF ~Exists(u) \/ ((p.role = "viewer" \/ p.disabled = "yes") /\ LastAdmin(u))
     THEN Done(r)
     ELSE Goto(r, [req[r] EXCEPT !.pc = "patch", !.target = u, !.patch = p])
  /\ UNCHANGED <<store, boot, guesses, swept, nextPw, faults, calls>>

\* UpdateUserGuarded from there: applyUserPatchTx and the commit.
UpdateUserGuarded(r, u, p) ==
  /\ IF ~Exists(u)
     THEN Done(r) /\ UNCHANGED <<users, guesses>>
     ELSE /\ users' = [users EXCEPT
               ![u].role = IF p.role = "keep" THEN @ ELSE p.role,
               ![u].must = Flag(@, p.must),
               ![u].disabled = Flag(@, p.disabled),
               ![u].failed = IF p.unlock THEN 0 ELSE @,
               ![u].locked = IF p.unlock THEN FALSE ELSE @]
          /\ guesses' = [guesses EXCEPT ![u] = IF p.unlock THEN 0 ELSE @]
          /\ req' = [q \in Requests |->
               IF q = r
               THEN IF p.disabled = "yes"
                    THEN [req[r] EXCEPT !.pc = "cutoff", !.target = u]
                    ELSE Idle
               ELSE [req[q] EXCEPT !.barred =
                       @ /\ ~(req[q].user = u /\ p.disabled = "no")]]
  /\ UNCHANGED <<identity, sessions, states, boot, swept, nextPw,
                 faults, calls>>

\* UpdateUser sets the password first, if the body has one; it must then be
\* changed at the next login.
UpdateUser(r, u, p) ==
  \/ /\ AdminCall(r)
     /\ IF p.password THEN SetUserPassword(r, u, TRUE, p)
        ELSE GuardUpdate(r, u, p)
  \/ /\ u = req[r].target /\ p = req[r].patch
     /\ \/ At(r, "guarded") /\ GuardUpdate(r, u, p)
        \/ At(r, "patch") /\ UpdateUserGuarded(r, u, p)

\* Disabling ends the user's sessions, after the commit.
CutOff(r) ==
  /\ At(r, "cutoff")
  /\ sessions' = WithoutSessionsOf(req[r].target)
  /\ Done(r)
  /\ UNCHANGED <<users, identity, states, boot, guesses, swept,
                 nextPw, faults, calls>>

\* DeleteUser, not of oneself, and DeleteUserGuarded up to its count: not of
\* the last active admin.  A refusal is Serve.
GuardDelete(r, u) ==
  /\ AdminCall(r)
  /\ Exists(u) /\ u # req[r].user /\ ~LastAdmin(u)
  /\ Goto(r, [req[r] EXCEPT !.pc = "erase", !.target = u])
  /\ UNCHANGED <<store, boot, guesses, swept, nextPw, faults, calls>>

\* DeleteUserGuarded from there: sessions and identities go with the row.
DeleteUser(r, u) ==
  /\ At(r, "erase")
  /\ u = req[r].target
  /\ Exists(u)
  /\ users' = [users EXCEPT ![u] = Gone]
  /\ sessions' = WithoutSessionsOf(u)
  /\ identity' = [s \in Subjects |-> IF identity[s] = u THEN None ELSE identity[s]]
  /\ Done(r)
  /\ UNCHANGED <<states, boot, guesses, swept, nextPw, faults, calls>>

\* RevokeSession: DeleteSessionByPublicID.
RevokeSession(r, s) ==
  /\ AdminCall(r)
  /\ sessions' = EndSession(s)
  /\ Done(r)
  /\ UNCHANGED <<users, identity, states, boot, guesses, swept,
                 nextPw, faults, calls>>

-----------------------------------------------------------------------------
(* Failures, and what runs at every start.                                 *)

\* A call of the store fails or the client goes away: the request ends where
\* it is.
Abort(r) ==
  /\ boot = "up"
  /\ req[r].pc # "idle"
  /\ faults < MaxFaults
  /\ faults' = faults + 1
  /\ Done(r)
  /\ UNCHANGED <<store, boot, guesses, swept, nextPw, calls>>

Crash ==
  /\ boot # "down"
  /\ faults < MaxFaults
  /\ faults' = faults + 1
  /\ boot' = "down"
  /\ req' = [r \in Requests |-> Idle]
  /\ UNCHANGED <<store, guesses, swept, nextPw, calls>>

\* bootstrapAdminIfNeeded: nothing to do, or the first user.  With no active
\* admin and the name taken the start fails, and the daemon stays down.
Bootstrap ==
  /\ boot = "down"
  /\ \/ ActiveAdmins # {} /\ UNCHANGED <<users, nextPw>>
     \/ /\ ActiveAdmins = {}
        /\ ~Taken(AdminName)
        /\ nextPw <= MaxPassword
        /\ \E u \in UserIds :
             /\ Fresh(users, u)
             /\ users' = [users EXCEPT ![u] =
                            NewUser(AdminName, "admin", nextPw, TRUE)]
        /\ nextPw' = nextPw + 1
  /\ boot' = "bootstrapped"
  /\ UNCHANGED <<identity, sessions, states, req, guesses, swept,
                 faults, calls>>

\* PickRescueTarget, up to the order by the last login: some admin.
RescueTargets == {u \in UserIds : Exists(u) /\ users[u].role = "admin"}

\* Mutant: the rescue leaves the lock in place.
RescueAdminLocked(u) ==
  users' = [users EXCEPT ![u].pw = nextPw, ![u].disabled = FALSE,
                         ![u].must = TRUE]

\* RescueAdmin's update of the row.
RescueAdmin(u) ==
  users' = [users EXCEPT ![u].pw = nextPw, ![u].failed = 0, ![u].locked = FALSE,
                         ![u].disabled = FALSE, ![u].must = TRUE]

\* rescueLockedAdminIfNeeded, then the listeners start.
Rescue ==
  /\ boot = "bootstrapped"
  /\ \/ /\ ~RescuePassword \/ UsableAdmins # {}
        /\ UNCHANGED <<users, sessions, guesses, swept, nextPw>>
     \/ /\ RescuePassword /\ UsableAdmins = {}
        /\ nextPw <= MaxPassword
        /\ \E u \in RescueTargets :
             /\ RescueAdmin(u)
             /\ sessions' = WithoutSessionsOf(u)
             /\ guesses' = [guesses EXCEPT ![u] = 0]
             /\ swept' = [swept EXCEPT ![u] = TRUE]
        /\ nextPw' = nextPw + 1
  /\ boot' = "up"
  /\ UNCHANGED <<identity, states, req, faults, calls>>

-----------------------------------------------------------------------------
Init ==
  /\ users \in Databases
  /\ identity = [s \in Subjects |-> None]
  /\ sessions = [s \in SessionIds |-> Unborn]
  /\ states = [q \in AuthStates |-> "unborn"]
  /\ req = [r \in Requests |-> Idle]
  /\ boot = "down"
  /\ guesses = [u \in UserIds |-> 0]
  /\ swept = [u \in UserIds |-> TRUE]
  /\ nextPw = IF ActiveAdmins = {} THEN 1 ELSE 2
  /\ calls = 0
  /\ faults = 0

LoginStep(r) ==
  \/ Login(r)
  \/ \E u \in UserIds : LoginLookup(r, u)
  \/ LoginUnknown(r)
  \/ LoginMismatch(r)
  \/ CreateSession(r)
  \/ ResetFailedLogin(r)

OidcStep(r) ==
  \/ \E q \in AuthStates, sub \in Subjects : OidcCallback(r, q, sub)
  \/ OidcFind(r)
  \/ \E n \in Names : OidcCreate(r, n)
  \/ OidcReread(r)

CookieStep(r) ==
  \/ \E s \in SessionIds : Cookie(r, s)
  \/ CookieUser(r)
  \/ CookieTouch(r)
  \/ Serve(r)
  \/ Logout(r)
  \/ ChangePassword(r)

AdminStep(r) ==
  \/ \E n \in Names : CreateUser(r, n)
  \/ \E u \in UserIds, p \in Patches : UpdateUser(r, u, p)
  \/ SetOwnPassword(r)
  \/ SweepSessions(r)
  \/ CutOff(r)
  \/ \E u \in UserIds : GuardDelete(r, u) \/ DeleteUser(r, u)
  \/ \E s \in SessionIds : RevokeSession(r, s)

Next ==
  \/ \E r \in Requests :
       LoginStep(r) \/ OidcStep(r) \/ CookieStep(r) \/ AdminStep(r) \/ Abort(r)
  \/ \E q \in AuthStates : OidcAuthorize(q)
  \/ \E s \in SessionIds : ExpireSession(s)
  \/ \E q \in AuthStates : ExpireState(q)
  \/ Crash
  \/ Bootstrap
  \/ Rescue

Spec == Init /\ [][Next]_vars

-----------------------------------------------------------------------------
\* Rows and requests have their declared shape.
TypeOK ==
  /\ users \in [UserIds -> User \cup {Unborn, Gone}]
  /\ identity \in [Subjects -> UserIds \cup {None}]
  /\ sessions \in [SessionIds -> Session \cup {Unborn, Gone}]
  /\ states \in [AuthStates -> {"unborn", "live", "expired", "gone"}]
  /\ DOMAIN req = Requests
  /\ boot \in {"down", "bootstrapped", "up"}
  /\ guesses \in [UserIds -> Nat]
  /\ swept \in [UserIds -> BOOLEAN]
  /\ nextPw \in 1..(MaxPassword + 1)
  /\ calls \in 0..MaxCalls
  /\ faults \in 0..MaxFaults

\* failed_login_count and locked_at never disagree, whatever login, unlock
\* and rescue requests overlap (pg_auth.go:337-409).
LockoutConsistent ==
  \A u \in UserIds : Exists(u) =>
    users[u].locked = (users[u].failed >= Threshold)

\* Between two resets of the counter no more than Threshold wrong passwords
\* are tried on a user, but for the requests that had passed the check when
\* the lock fell and the increments that failed (auth_handlers.go:400-421).
GuessesBounded ==
  \A u \in UserIds :
    guesses[u] <= Threshold - 1 + Cardinality(Requests) + faults

\* A request that begins while its user is disabled does nothing, even with
\* a session that a login in flight created after the sessions were ended
\* (middleware.go:340-350).
DisabledUserNotServed ==
  \A r \in Requests : req[r].pc \in {"touch", "touchmust", "handler",
                                     "password page"} => ~req[r].barred

\* A session that was ended stays ended, and its cookie value is not used
\* again, whatever refreshes are in flight (pg_auth.go:712-757).
EndedSessionsStayEnded ==
  [][\A s \in SessionIds : sessions[s] = Gone => sessions'[s] = Gone]_vars

\* Once SetUserPassword has ended the user's sessions, a session that was
\* obtained with an older password can only come from a login that overlapped
\* the change (pg_auth.go:310-326).
RotationEndsSessions ==
  \A s \in SessionIds : Live(s) =>
    LET u == sessions[s].user IN
    sessions[s].proof # users[u].pw => sessions[s].late \/ ~swept[u]

\* Every shadow user belongs to an identity: parallel first logins and name
\* collisions leave no user behind that nobody can log in as
\* (auth_handlers.go:246-298).
NoStrayShadowUser ==
  \A u \in UserIds : Exists(u) /\ users[u].pw = Shadow =>
    \E s \in Subjects : identity[s] = u

\* With the rescue password set, a start ends with an admin that is neither
\* disabled nor locked (main.go:1297-1359).
RestartLeavesUsableAdmin ==
  [][boot = "bootstrapped" /\ boot' = "up" /\ RescuePassword
       => UsableAdmins' # {}]_vars
=============================================================================
