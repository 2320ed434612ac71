--------------------------- MODULE AccountsProofs ---------------------------
(***************************************************************************)
(* What every step of Accounts keeps, for any users, requests and bounds.  *)
(*                                                                         *)
(* The invariant Typed holds types, the parameters that the phases of a    *)
(* request read, the references between rows, and lockouts; each part of   *)
(* it needs the others.  Steps come in four classes, by what they write: a *)
(* request that reads, a request that writes sessions, a request that      *)
(* writes users, and the rest.                                             *)
(*                                                                         *)
(* The safety properties follow, each by an invariant of its own on top of *)
(* Typed.                                                                  *)
(***************************************************************************)
EXTENDS Accounts, TLAPS

USE AccountsAssumption

-----------------------------------------------------------------------------
(* What a request in flight knows.                                         *)

Served == {"touch", "touchmust", "handler", "password page"}
Phase == {"idle", "lookup", "verify", "session", "reset", "find", "create", "reread",
          "user", "setpw", "sweep", "guarded", "patch", "erase", "cutoff"} \cup Served

Request ==
  [pc : Phase, user : UserIds \cup {None}, sid : SessionIds \cup {None},
   pw : 0..MaxPassword, admin : BOOLEAN, target : UserIds \cup {None},
   patch : Patches \cup {None}, sub : Subjects \cup {None}, round : Nat,
   barred : BOOLEAN]

\* A phase has the parameters that its steps read.
Phased(q) ==
  /\ q.pc \in {"verify", "session", "reset", "user"} \cup Served => q.user \in UserIds
  /\ q.pc \in {"user"} \cup Served => q.sid \in SessionIds
  /\ q.pc \in {"setpw", "sweep", "guarded", "patch", "erase", "cutoff"} => q.target \in UserIds
  /\ q.pc \in {"find", "create", "reread"} => q.sub \in Subjects

RequestsOK ==
  /\ req \in [Requests -> Request]
  /\ \A r \in Requests : Phased(req[r])
  /\ boot # "up" => \A r \in Requests : req[r] = Idle

\* Rows refer to rows: a session and an identity to a user that is there, a
\* request to a user that was there once.
Linked ==
  /\ \A s \in SessionIds : Live(s) => Exists(sessions[s].user)
  /\ \A s \in Subjects : identity[s] # None => Exists(identity[s])
  /\ \A r \in Requests : req[r].user # None => users[req[r].user] # Unborn

Typed == TypeOK /\ RequestsOK /\ Linked /\ LockoutConsistent

LEMMA IdleTyped == Idle \in Request /\ Phased(Idle)
  BY DEF Idle, Request, Phase, Phased, Served, Shadow

LEMMA GotoTyped ==
  ASSUME RequestsOK, NEW r \in Requests, NEW q \in Request, Phased(q), Goto(r, q),
         boot' = "up"
  PROVE  RequestsOK'
  BY DEF RequestsOK, Goto

LEMMA DoneTyped ==
  ASSUME RequestsOK, NEW r \in Requests, Done(r), boot' = boot
  PROVE  RequestsOK'
  BY IdleTyped DEF RequestsOK, Goto, Done

LEMMA Rows ==
  ASSUME TypeOK, NEW u \in UserIds
  PROVE  /\ Exists(u) => users[u] \in User
         /\ ~Exists(u) => users[u] = Unborn \/ users[u] = Gone
  BY DEF TypeOK, Exists

-----------------------------------------------------------------------------
(* What the statements do to the rows of users.                            *)

Table == [UserIds -> User \cup {Unborn, Gone}]

\* The statement writes the row of u and no other.
Writes(u) ==
  /\ users' \in Table
  /\ \A v \in UserIds \ {u} : users'[v] = users[v]

\* Name, role and disabled stay.
SamePerson(u) ==
  /\ users'[u].name = users[u].name
  /\ users'[u].role = users[u].role
  /\ users'[u].disabled = users[u].disabled

LEMMA RowTyped ==
  ASSUME TypeOK, NEW u \in UserIds, Exists(u)
  PROVE  /\ users[u].name \in Names /\ users[u].role \in {"admin", "viewer"}
         /\ users[u].pw \in 0..MaxPassword /\ users[u].must \in BOOLEAN
         /\ users[u].disabled \in BOOLEAN /\ users[u].failed \in 0..Threshold
         /\ users[u].locked \in BOOLEAN
  BY Rows DEF User

\* A row put in the place of another.
LEMMA PutRow ==
  ASSUME users \in Table, NEW u \in UserIds, NEW row \in User,
         users' = [users EXCEPT ![u] = row]
  PROVE  Writes(u) /\ users'[u] = row
  BY DEF Writes, Table

LEMMA IncrementEffect ==
  ASSUME TypeOK, LockoutConsistent, NEW u \in UserIds, Exists(u), IncrementFailedLogin(u)
  PROVE  /\ Writes(u) /\ users'[u] \in User
         /\ SamePerson(u) /\ users'[u].pw = users[u].pw
         /\ users[u].locked => users'[u] = users[u]
         /\ ~users[u].locked => /\ users'[u].failed = users[u].failed + 1
                                /\ users'[u].locked = (users[u].failed + 1 >= Threshold)
<1> DEFINE f == users[u].failed + 1
           l == (users[u].failed + 1 >= Threshold)
<1>0. users \in Table /\ users[u] \in User
  BY Rows DEF TypeOK, Table
<1>1. CASE users[u].locked
  <2>1. users' = users
    BY <1>1 DEF IncrementFailedLogin
  <2> QED BY <1>0, <1>1, <2>1 DEF Writes, SamePerson
<1>2. CASE ~users[u].locked
  <2>1. f \in 0..Threshold
    BY <1>2, RowTyped DEF LockoutConsistent
  <2>2. users' = [users EXCEPT ![u].failed = f, ![u].locked = l]
    BY <1>2 DEF IncrementFailedLogin
  <2>3. l \in BOOLEAN
    OBVIOUS
  <2> HIDE DEF f, l
  <2>4. /\ Writes(u) /\ users'[u] \in User /\ SamePerson(u) /\ users'[u].pw = users[u].pw
        /\ users'[u].failed = f /\ users'[u].locked = l
    BY <1>0, <2>1, <2>2, <2>3, ZenonT(60) DEF Writes, Table, User, SamePerson
  <2> QED BY <1>2, <2>4 DEF f, l
<1> QED BY <1>1, <1>2, RowTyped

LEMMA UnlockEffect ==
  ASSUME TypeOK, NEW u \in UserIds, Exists(u), users' = Unlocked(u)
  PROVE  /\ Writes(u) /\ users'[u] \in User
         /\ SamePerson(u) /\ users'[u].pw = users[u].pw
         /\ users'[u].failed = 0 /\ users'[u].locked = FALSE
<1>0. users \in Table /\ users[u] \in User
  BY Rows DEF TypeOK, Table
<1> DEFINE row == [users[u] EXCEPT !.failed = 0, !.locked = FALSE]
<1>1. users' = [users EXCEPT ![u] = row]
  BY <1>0, ZenonT(60) DEF Unlocked, Table, User
<1>2. 0 \in 0..Threshold
  OBVIOUS
<1>3. /\ row \in User /\ row.failed = 0 /\ row.locked = FALSE /\ row.pw = users[u].pw
      /\ row.name = users[u].name /\ row.role = users[u].role
      /\ row.disabled = users[u].disabled
  BY <1>0, <1>2, Zenon DEF User
<1> HIDE DEF row
<1>4. Writes(u) /\ users'[u] = row
  BY <1>0, <1>1, <1>3, PutRow, ZenonT(60)
<1> QED BY <1>3, <1>4 DEF SamePerson

LEMMA PasswordEffect ==
  ASSUME TypeOK, NEW u \in UserIds, Exists(u), NEW pw \in 0..MaxPassword, NEW must \in BOOLEAN,
         users' = [users EXCEPT ![u].pw = pw, ![u].must = must]
  PROVE  /\ Writes(u) /\ users'[u] \in User /\ SamePerson(u)
         /\ users'[u].pw = pw /\ users'[u].must = must
         /\ users'[u].failed = users[u].failed /\ users'[u].locked = users[u].locked
<1>0. users \in Table /\ users[u] \in User
  BY Rows, Zenon DEF TypeOK, Table
<1> QED BY <1>0, Zenon DEF Writes, Table, User, SamePerson

LEMMA RescueEffect ==
  ASSUME TypeOK, NEW u \in UserIds, Exists(u), nextPw <= MaxPassword, RescueAdmin(u)
  PROVE  /\ Writes(u) /\ users'[u] \in User
         /\ users'[u].name = users[u].name /\ users'[u].role = users[u].role
         /\ users'[u].pw = nextPw /\ users'[u].disabled = FALSE
         /\ users'[u].failed = 0 /\ users'[u].locked = FALSE
<1>0. users \in Table /\ users[u] \in User /\ nextPw \in 0..MaxPassword
  BY Rows DEF TypeOK, Table
<1> DEFINE row == [users[u] EXCEPT !.pw = nextPw, !.failed = 0, !.locked = FALSE,
                                   !.disabled = FALSE, !.must = TRUE]
<1>1. users' = [users EXCEPT ![u] = row]
  BY <1>0, Zenon DEF RescueAdmin, Table, User
<1>2. 0 \in 0..Threshold
  OBVIOUS
<1>3. /\ row \in User /\ row.failed = 0 /\ row.locked = FALSE /\ row.pw = nextPw
      /\ row.name = users[u].name /\ row.role = users[u].role /\ row.disabled = FALSE
  BY <1>0, <1>2, Zenon DEF User
<1> HIDE DEF row
<1> QED BY <1>0, <1>1, <1>3, PutRow, ZenonT(60)

LEMMA BirthEffect ==
  ASSUME TypeOK, NEW u \in UserIds, NEW n \in Names, NEW role \in {"admin", "viewer"},
         NEW pw \in 0..MaxPassword, NEW must \in BOOLEAN,
         users' = [users EXCEPT ![u] = NewUser(n, role, pw, must)]
  PROVE  /\ Writes(u) /\ users'[u] \in User
         /\ users'[u].name = n /\ users'[u].role = role /\ users'[u].pw = pw
         /\ users'[u].disabled = FALSE
         /\ users'[u].failed = 0 /\ users'[u].locked = FALSE
<1>0. users \in Table
  BY Zenon DEF TypeOK, Table
<1>1. NewUser(n, role, pw, must) \in User
  BY DEF NewUser, User
<1> QED BY <1>0, <1>1, Zenon DEF Writes, Table, NewUser

\* The same for a user with the next password.
LEMMA PasswordBirthEffect ==
  ASSUME TypeOK, NEW u \in UserIds, NEW n \in Names, NEW role \in {"admin", "viewer"},
         nextPw <= MaxPassword, NEW must \in BOOLEAN,
         users' = [users EXCEPT ![u] = NewUser(n, role, nextPw, must)]
  PROVE  /\ Writes(u) /\ users'[u] \in User
         /\ users'[u].name = n /\ users'[u].role = role /\ users'[u].pw = nextPw
         /\ users'[u].disabled = FALSE
         /\ users'[u].failed = 0 /\ users'[u].locked = FALSE
<1> DEFINE row == NewUser(n, role, nextPw, must)
<1>0. users \in Table /\ nextPw \in 0..MaxPassword
  BY DEF TypeOK, Table
<1>1. row \in User
  BY <1>0 DEF NewUser, User
<1>2. /\ row.name = n /\ row.role = role /\ row.pw = nextPw /\ row.disabled = FALSE
      /\ row.failed = 0 /\ row.locked = FALSE
  BY Zenon DEF NewUser
<1> HIDE DEF row
<1>3. users' = [users EXCEPT ![u] = row]
  BY Zenon DEF row
<1> QED BY <1>0, <1>1, <1>2, <1>3, PutRow, ZenonT(60)

\* A patch as UpdateUserGuarded applies it.
Patched(u, p) ==
  users' = [users EXCEPT
               ![u].role = IF p.role = "keep" THEN @ ELSE p.role,
               ![u].must = Flag(@, p.must),
               ![u].disabled = Flag(@, p.disabled),
               ![u].failed = IF p.unlock THEN 0 ELSE @,
               ![u].locked = IF p.unlock THEN FALSE ELSE @]

LEMMA PatchEffect ==
  ASSUME TypeOK, NEW u \in UserIds, Exists(u), NEW p \in Patches, Patched(u, p)
  PROVE  /\ Writes(u) /\ users'[u] \in User
         /\ users'[u].name = users[u].name /\ users'[u].pw = users[u].pw
         /\ users'[u].role = (IF p.role = "keep" THEN users[u].role ELSE p.role)
         /\ users'[u].disabled = Flag(users[u].disabled, p.disabled)
         /\ users'[u].failed = (IF p.unlock THEN 0 ELSE users[u].failed)
         /\ users'[u].locked = (IF p.unlock THEN FALSE ELSE users[u].locked)
<1> DEFINE ro == IF p.role = "keep" THEN users[u].role ELSE p.role
           mu == Flag(users[u].must, p.must)
           di == Flag(users[u].disabled, p.disabled)
           fa == IF p.unlock THEN 0 ELSE users[u].failed
           lo == IF p.unlock THEN FALSE ELSE users[u].locked
<1>0. users \in Table /\ users[u] \in User
  BY Rows, Zenon DEF TypeOK, Table
<1>1. users' = [users EXCEPT ![u] = [users[u] EXCEPT !.role = ro, !.must = mu, !.disabled = di,
                                                     !.failed = fa, !.locked = lo]]
  BY <1>0, ZenonT(60) DEF Patched, Table, User
<1>2. p \in Patch
  BY Zenon
<1>3. /\ ro \in {"admin", "viewer"} /\ fa \in 0..Threshold
      /\ mu \in BOOLEAN /\ di \in BOOLEAN /\ lo \in BOOLEAN
  <2>1. 0 \in 0..Threshold
    OBVIOUS
  <2>2. /\ p.role \in {"admin", "viewer", "keep"} /\ p.disabled \in {"yes", "no", "keep"}
        /\ p.must \in {"yes", "no", "keep"} /\ p.unlock \in BOOLEAN
    BY <1>2, Zenon DEF Patch
  <2>3. ro \in {"admin", "viewer"} /\ fa \in 0..Threshold
    BY <2>1, <2>2, RowTyped, Zenon
  <2>4. mu \in BOOLEAN /\ di \in BOOLEAN /\ lo \in BOOLEAN
    BY <2>2, RowTyped, Zenon DEF Flag
  <2> QED BY <2>3, <2>4, Zenon
<1> HIDE DEF ro, mu, di, fa, lo
<1>4. /\ Writes(u) /\ users'[u] \in User
      /\ users'[u].name = users[u].name /\ users'[u].pw = users[u].pw
      /\ users'[u].role = ro /\ users'[u].disabled = di
      /\ users'[u].failed = fa /\ users'[u].locked = lo
  BY <1>0, <1>1, <1>3, ZenonT(60) DEF Writes, Table, User
<1> QED BY <1>4, Zenon DEF ro, di, fa, lo

-----------------------------------------------------------------------------
(* The steps, by what they write.                                          *)

\* Steps that leave the tables alone, but for oidc_auth_states.
ReadStep(r) ==
  \/ Login(r) \/ LoginUnknown(r) \/ \E u \in UserIds : LoginLookup(r, u)
  \/ \E q \in AuthStates, sub \in Subjects : OidcCallback(r, q, sub)
  \/ OidcFind(r) \/ OidcReread(r)
  \/ \E s \in SessionIds : Cookie(r, s)
  \/ CookieUser(r) \/ Serve(r) \/ ChangePassword(r) \/ Abort(r)
  \/ \E u \in UserIds, p \in Patches : boot = "up" /\ GuardUpdate(r, u, p)
  \/ \E u \in UserIds : GuardDelete(r, u)

\* Steps that write sessions and no user.
SessionStep(r) ==
  \/ CreateSession(r) \/ CookieTouch(r) \/ Logout(r) \/ SweepSessions(r) \/ CutOff(r)
  \/ \E s \in SessionIds : RevokeSession(r, s)

\* Steps that write a row of users.
UserStep(r) ==
  \/ LoginMismatch(r) \/ ResetFailedLogin(r)
  \/ \E n \in Names : OidcCreate(r, n) \/ CreateUser(r, n)
  \/ \E u \in UserIds, must \in BOOLEAN, patch \in Patches \cup {None} :
       boot = "up" /\ SetUserPassword(r, u, must, patch)
  \/ \E u \in UserIds, p \in Patches : boot = "up" /\ UpdateUserGuarded(r, u, p)
  \/ \E u \in UserIds : DeleteUser(r, u)

\* Steps of no request.
OtherStep ==
  \/ \E q \in AuthStates : OidcAuthorize(q) \/ ExpireState(q)
  \/ \E s \in SessionIds : ExpireSession(s)
  \/ Crash \/ Bootstrap \/ Rescue

LEMMA Cases ==
  ASSUME Typed, Next
  PROVE  (\E r \in Requests : ReadStep(r) \/ SessionStep(r) \/ UserStep(r)) \/ OtherStep
<1>1. ASSUME NEW r \in Requests, SetOwnPassword(r)
      PROVE  UserStep(r)
  <2>1. req[r].target \in UserIds /\ boot = "up"
    BY <1>1, Zenon DEF SetOwnPassword, At, Typed, RequestsOK, Phased
  <2>2. SetUserPassword(r, req[r].target, FALSE, None)
    BY <1>1, Zenon DEF SetOwnPassword
  <2> QED BY <2>1, <2>2, Zenon DEF UserStep
<1>2. ASSUME NEW r \in Requests, NEW u \in UserIds, NEW p \in Patches, UpdateUser(r, u, p)
      PROVE  ReadStep(r) \/ UserStep(r)
  <2>1. boot = "up" /\ (\/ SetUserPassword(r, u, TRUE, p)
                       \/ GuardUpdate(r, u, p) \/ UpdateUserGuarded(r, u, p))
    BY <1>2, Zenon DEF UpdateUser, AdminCall, At
  <2> QED BY <2>1, Zenon DEF ReadStep, UserStep
<1>3. ASSUME NEW r \in Requests, AdminStep(r)
      PROVE  ReadStep(r) \/ SessionStep(r) \/ UserStep(r)
  BY <1>1, <1>2, <1>3, Zenon DEF AdminStep, ReadStep, SessionStep, UserStep
<1>4. ASSUME NEW r \in Requests, LoginStep(r) \/ OidcStep(r) \/ CookieStep(r) \/ Abort(r)
      PROVE  ReadStep(r) \/ SessionStep(r) \/ UserStep(r)
  BY <1>4, Zenon DEF LoginStep, OidcStep, CookieStep, ReadStep, SessionStep, UserStep
<1> QED BY <1>3, <1>4, Zenon DEF Next, OtherStep

-----------------------------------------------------------------------------
(* Types.                                                                  *)

LEMMA TypeInit == Init => TypeOK
<1> SUFFICES ASSUME Init PROVE TypeOK
  BY Zenon
<1>1. users \in [UserIds -> User \cup {Unborn, Gone}]
  BY DatabasesAssumption, Zenon DEF Init
<1> QED BY <1>1 DEF Init, TypeOK

LEMMA ReadType ==
  ASSUME TypeOK, RequestsOK, NEW r \in Requests, ReadStep(r) PROVE TypeOK'
<1>0. req' = [req EXCEPT ![r] = req'[r]] /\ boot' = boot
      /\ UNCHANGED <<users, identity, sessions, guesses, swept, nextPw>>
  BY Zenon DEF ReadStep, Login, LoginUnknown, LoginLookup, OidcCallback, OidcFind, OidcReread, Resolve,
     Cookie, CookieUser, Serve, ChangePassword, Abort,
     GuardUpdate, GuardDelete, Goto, Done, store, RequestsOK
<1>1. states' \in [AuthStates -> {"unborn", "live", "expired", "gone"}]
  BY Zenon DEF TypeOK, ReadStep, Login, LoginUnknown, LoginLookup, OidcCallback, OidcFind, OidcReread,
     Cookie, CookieUser, Serve, ChangePassword, Abort,
     GuardUpdate, GuardDelete, store
<1>2. /\ calls' = calls \/ (calls < MaxCalls /\ calls' = calls + 1)
      /\ faults' = faults \/ (faults < MaxFaults /\ faults' = faults + 1)
  BY Zenon DEF ReadStep, Login, LoginUnknown, LoginLookup, OidcCallback, OidcFind, OidcReread,
     Cookie, CookieUser, Serve, ChangePassword, Abort,
     GuardUpdate, GuardDelete, Arrives
<1> QED BY <1>0, <1>1, <1>2 DEF TypeOK, RequestsOK

LEMMA SessionType ==
  ASSUME Typed, NEW r \in Requests, SessionStep(r) PROVE TypeOK'
<1>0. /\ UNCHANGED <<users, identity, states, boot, guesses, nextPw, calls>>
      /\ faults' = faults \/ (faults < MaxFaults /\ faults' = faults + 1)
      /\ req' = [req EXCEPT ![r] = req'[r]]
  BY Zenon DEF SessionStep, CreateSession, CookieTouch, Logout, SweepSessions, CutOff, RevokeSession,
     Goto, Done, Typed, RequestsOK
<1>1. swept' \in [UserIds -> BOOLEAN]
  BY Zenon DEF SessionStep, CreateSession, CookieTouch, Logout, SweepSessions, CutOff, RevokeSession,
     Typed, TypeOK
<1>2. sessions' \in [SessionIds -> Session \cup {Unborn, Gone}]
  <2>0. sessions \in [SessionIds -> Session \cup {Unborn, Gone}]
    BY Zenon DEF Typed, TypeOK
  <2>1. CASE CreateSession(r)
    <3>1. CASE sessions' = sessions
      BY <2>0, <3>1, Zenon
    <3>2. ASSUME NEW s \in SessionIds, Exists(req[r].user),
                 sessions' = [sessions EXCEPT ![s] =
                    [user |-> req[r].user, expired |-> FALSE, proof |-> req[r].pw,
                     late |-> users[req[r].user].pw # req[r].pw]]
          PROVE  sessions' \in [SessionIds -> Session \cup {Unborn, Gone}]
      <4>1. req[r].user \in UserIds /\ req[r].pw \in 0..MaxPassword
        BY <2>1, Zenon DEF CreateSession, At, Typed, RequestsOK, Phased, Request
      <4>2. [user |-> req[r].user, expired |-> FALSE, proof |-> req[r].pw,
             late |-> users[req[r].user].pw # req[r].pw] \in Session
        BY <4>1, Zenon DEF Session
      <4> QED BY <2>0, <3>2, <4>2, Zenon
    <3> QED BY <2>1, <3>1, <3>2, Zenon DEF CreateSession
  <2>2. CASE CookieTouch(r)
    <3> DEFINE s == req[r].sid
    <3>1. s \in SessionIds
      BY <2>2, Zenon DEF CookieTouch, Typed, RequestsOK, Phased, Served
    <3>2. \/ sessions' = sessions
          \/ Live(s) /\ sessions' = [sessions EXCEPT ![s].expired = FALSE]
      BY <2>2, Zenon DEF CookieTouch, TouchSession
    <3>3. CASE sessions' = sessions
      BY <2>0, <3>3, Zenon
    <3>4. CASE Live(s) /\ sessions' = [sessions EXCEPT ![s].expired = FALSE]
      <4>1. sessions[s] \in Session
        BY <2>0, <3>1, <3>4, Zenon DEF Live
      <4> HIDE DEF s
      <4> QED BY <2>0, <3>1, <3>4, <4>1, Zenon DEF Session
    <3> QED BY <3>2, <3>3, <3>4, Zenon
  <2>3. CASE Logout(r) \/ \E s \in SessionIds : RevokeSession(r, s)
    BY <2>0, <2>3, Zenon DEF Logout, RevokeSession, EndSession
  <2>4. CASE SweepSessions(r) \/ CutOff(r)
    BY <2>0, <2>4, Zenon DEF SweepSessions, CutOff, WithoutSessionsOf
  <2> QED BY <2>1, <2>2, <2>3, <2>4, Zenon DEF SessionStep
<1> QED BY <1>0, <1>1, <1>2 DEF Typed, TypeOK, RequestsOK

\* What the steps that write a row of users may do besides.
UserFrame ==
  /\ UNCHANGED <<states, boot, calls>>
  /\ faults' = faults \/ (faults < MaxFaults /\ faults' = faults + 1)
  /\ nextPw' = nextPw \/ (nextPw <= MaxPassword /\ nextPw' = nextPw + 1)
  /\ swept' = swept \/ \E u \in UserIds : swept' = [swept EXCEPT ![u] = FALSE]
  /\ sessions' = sessions \/ \E u \in UserIds : sessions' = WithoutSessionsOf(u)
  /\ \/ guesses' = guesses
     \/ \E u \in UserIds : guesses' = [guesses EXCEPT ![u] = 0]
     \/ \E u \in UserIds : guesses' = [guesses EXCEPT ![u] = @ + 1]
  /\ \/ identity' = identity
     \/ \E sub \in Subjects, u \in UserIds : identity' = [identity EXCEPT ![sub] = u]
     \/ \E u \in UserIds :
          identity' = [sub \in Subjects |-> IF identity[sub] = u THEN None ELSE identity[sub]]

LEMMA UserFrames ==
  ASSUME Typed, NEW r \in Requests, UserStep(r) PROVE UserFrame
<1>0. req[r].pc \in {"verify", "reset"} => req[r].user \in UserIds
  BY Zenon DEF Typed, RequestsOK, Phased
<1>1. CASE LoginMismatch(r) \/ ResetFailedLogin(r)
  BY <1>0, <1>1, Zenon DEF LoginMismatch, ResetFailedLogin, At, UserFrame
<1>2. ASSUME NEW n \in Names, OidcCreate(r, n) PROVE UserFrame
  <2>1. req[r].sub \in Subjects
    BY <1>2, Zenon DEF OidcCreate, At, Typed, RequestsOK, Phased
  <2> QED BY <1>2, <2>1, Zenon DEF OidcCreate, CreateUserWithIdentity, UserFrame
<1>3. ASSUME NEW n \in Names, CreateUser(r, n) PROVE UserFrame
  BY <1>3, Zenon DEF CreateUser, UserFrame
<1>4. ASSUME NEW u \in UserIds, NEW must \in BOOLEAN, NEW patch, SetUserPassword(r, u, must, patch)
      PROVE  UserFrame
  BY <1>4, Zenon DEF SetUserPassword, UserFrame
<1>5. ASSUME NEW u \in UserIds, NEW p \in Patches, UpdateUserGuarded(r, u, p) PROVE UserFrame
  <2>1. guesses' = guesses \/ guesses' = [guesses EXCEPT ![u] = IF p.unlock THEN 0 ELSE @]
    BY <1>5, Zenon DEF UpdateUserGuarded
  <2>2. guesses \in [UserIds -> Nat] /\ p.unlock \in BOOLEAN
    BY Zenon DEF Typed, TypeOK, Patch
  <2>3. guesses' = guesses \/ guesses' = [guesses EXCEPT ![u] = 0]
    BY <2>1, <2>2, Zenon
  <2> QED BY <1>5, <2>3, Zenon DEF UpdateUserGuarded, UserFrame
<1>6. ASSUME NEW u \in UserIds, DeleteUser(r, u) PROVE UserFrame
  BY <1>6, Zenon DEF DeleteUser, UserFrame
<1> QED BY <1>1, <1>2, <1>3, <1>4, <1>5, <1>6, Zenon DEF UserStep

LEMMA FrameTyped ==
  ASSUME Typed, UserFrame
  PROVE  /\ identity' \in [Subjects -> UserIds \cup {None}]
         /\ sessions' \in [SessionIds -> Session \cup {Unborn, Gone}]
         /\ states' \in [AuthStates -> {"unborn", "live", "expired", "gone"}]
         /\ boot' \in {"down", "bootstrapped", "up"}
         /\ guesses' \in [UserIds -> Nat] /\ swept' \in [UserIds -> BOOLEAN]
         /\ nextPw' \in 1..(MaxPassword + 1)
         /\ calls' \in 0..MaxCalls /\ faults' \in 0..MaxFaults
<1>1. identity' \in [Subjects -> UserIds \cup {None}]
  BY DEF UserFrame, Typed, TypeOK
<1>2. sessions' \in [SessionIds -> Session \cup {Unborn, Gone}]
  BY ZenonT(60) DEF UserFrame, Typed, TypeOK, WithoutSessionsOf
<1>3. guesses' \in [UserIds -> Nat]
  BY DEF UserFrame, Typed, TypeOK
<1>6. swept' \in [UserIds -> BOOLEAN]
  BY Zenon DEF UserFrame, Typed, TypeOK
<1>4. nextPw' \in 1..(MaxPassword + 1)
  BY DEF UserFrame, Typed, TypeOK
<1>5. calls' \in 0..MaxCalls /\ faults' \in 0..MaxFaults
  BY DEF UserFrame, Typed, TypeOK
<1> QED BY <1>1, <1>2, <1>3, <1>4, <1>5, <1>6, Zenon DEF UserFrame, Typed, TypeOK

\* A table of users after a step: typed, with its locks right, and no row unmade.
RowsKept ==
  /\ users' \in Table
  /\ LockoutConsistent'
  /\ \A u \in UserIds : users[u] # Unborn => users'[u] # Unborn

LEMMA SameRows == ASSUME Typed, UNCHANGED users PROVE RowsKept
  BY Zenon DEF Typed, TypeOK, LockoutConsistent, Exists, Table, RowsKept

LEMMA OneRow ==
  ASSUME Typed, NEW u \in UserIds, Writes(u), users'[u] \in User,
         users'[u].locked = (users'[u].failed >= Threshold)
  PROVE  RowsKept
<1>1. users'[u] # Unborn
  BY Zenon
<1>2. ASSUME NEW v \in UserIds, Exists(v)'
      PROVE  users'[v].locked = (users'[v].failed >= Threshold)
  <2>1. CASE v = u
    BY <2>1, Zenon
  <2>2. CASE v # u
    BY <1>2, <2>2, Zenon DEF Writes, Typed, LockoutConsistent, Exists
  <2> QED BY <2>1, <2>2, Zenon
<1> QED BY <1>1, <1>2, Zenon DEF Writes, RowsKept, LockoutConsistent, Exists

\* A counter of zero is an unlocked one.
LEMMA ZeroUnlocked ==
  ASSUME NEW f, f = 0, NEW l, l = FALSE PROVE l = (f >= Threshold)
<1>1. (f >= Threshold) = FALSE
  OBVIOUS
<1> QED BY <1>1, Zenon

LEMMA PatchRows ==
  ASSUME Typed, NEW u \in UserIds, Exists(u), NEW p \in Patches, Patched(u, p)
  PROVE  RowsKept
<1>1. /\ Writes(u) /\ users'[u] \in User
      /\ users'[u].failed = (IF p.unlock THEN 0 ELSE users[u].failed)
      /\ users'[u].locked = (IF p.unlock THEN FALSE ELSE users[u].locked)
  BY PatchEffect, Zenon DEF Typed
<1>2. users[u].locked = (users[u].failed >= Threshold)
  BY Zenon DEF Typed, LockoutConsistent
<1>3. users'[u].locked = (users'[u].failed >= Threshold)
  <2>1. CASE p.unlock
    BY <1>1, <2>1, ZeroUnlocked, Zenon
  <2>2. CASE ~p.unlock
    BY <1>1, <1>2, <2>2, Zenon
  <2> QED BY <2>1, <2>2, Zenon
<1> QED BY <1>1, <1>3, OneRow, Zenon

LEMMA UserRows ==
  ASSUME Typed, NEW r \in Requests, UserStep(r) PROVE RowsKept
<1>0. TypeOK /\ LockoutConsistent
  BY Zenon DEF Typed
<1>1. CASE LoginMismatch(r)
  <2> DEFINE u == req[r].user
  <2>1. u \in UserIds
    BY <1>1, Zenon DEF LoginMismatch, At, Typed, RequestsOK, Phased
  <2>2. UNCHANGED users \/ (Exists(u) /\ IncrementFailedLogin(u))
    BY <1>1, Zenon DEF LoginMismatch
  <2> HIDE DEF u
  <2>3. CASE UNCHANGED users
    BY <2>3, SameRows, Zenon
  <2>4. CASE Exists(u) /\ IncrementFailedLogin(u)
    <3>1. /\ Writes(u) /\ users'[u] \in User
          /\ users[u].locked => users'[u] = users[u]
          /\ ~users[u].locked => /\ users'[u].failed = users[u].failed + 1
                                 /\ users'[u].locked = (users[u].failed + 1 >= Threshold)
      BY <1>0, <2>1, <2>4, IncrementEffect, Zenon
    <3>2. users'[u].locked = (users'[u].failed >= Threshold)
      BY <1>0, <2>1, <2>4, <3>1, Zenon DEF LockoutConsistent
    <3> QED BY <2>1, <3>1, <3>2, OneRow, Zenon
  <2> QED BY <2>2, <2>3, <2>4, Zenon
<1>2. CASE ResetFailedLogin(r)
  <2> DEFINE u == req[r].user
  <2>1. u \in UserIds
    BY <1>2, Zenon DEF ResetFailedLogin, At, Typed, RequestsOK, Phased
  <2>2. UNCHANGED users \/ (Exists(u) /\ users' = Unlocked(u))
    BY <1>2, Zenon DEF ResetFailedLogin
  <2> HIDE DEF u
  <2>3. CASE UNCHANGED users
    BY <2>3, SameRows, Zenon
  <2>4. CASE Exists(u) /\ users' = Unlocked(u)
    <3>1. Writes(u) /\ users'[u] \in User /\ users'[u].failed = 0 /\ users'[u].locked = FALSE
      BY <1>0, <2>1, <2>4, UnlockEffect, Zenon
    <3>2. users'[u].locked = (users'[u].failed >= Threshold)
      BY <3>1, ZeroUnlocked, Zenon
    <3> QED BY <2>1, <3>1, <3>2, OneRow, Zenon
  <2> QED BY <2>2, <2>3, <2>4, Zenon
<1>3. ASSUME NEW u \in UserIds, NEW n \in Names, NEW role \in {"admin", "viewer"},
             NEW pw \in 0..MaxPassword, NEW must \in BOOLEAN,
             users' = [users EXCEPT ![u] = NewUser(n, role, pw, must)]
      PROVE  RowsKept
  <2>1. Writes(u) /\ users'[u] \in User /\ users'[u].failed = 0 /\ users'[u].locked = FALSE
    BY <1>0, <1>3, BirthEffect, Zenon
  <2>2. users'[u].locked = (users'[u].failed >= Threshold)
    BY <2>1, ZeroUnlocked, Zenon
  <2> QED BY <2>1, <2>2, OneRow, Zenon
<1>4. ASSUME NEW n \in Names, OidcCreate(r, n) PROVE RowsKept
  <2>1. 0 \in 0..MaxPassword
    OBVIOUS
  <2> QED BY <1>3, <1>4, <2>1, SameRows, Zenon DEF OidcCreate, CreateUserWithIdentity, Shadow
<1>5. ASSUME NEW n \in Names, CreateUser(r, n) PROVE RowsKept
  <2>1. nextPw \in 0..MaxPassword
    BY <1>0, <1>5 DEF CreateUser, TypeOK
  <2> QED BY <1>3, <1>5, <2>1, Zenon DEF CreateUser
<1>6. ASSUME NEW u \in UserIds, NEW must \in BOOLEAN, NEW patch, SetUserPassword(r, u, must, patch)
      PROVE  RowsKept
  <2>1. CASE ~Exists(u)
    BY <1>6, <2>1, SameRows, Zenon DEF SetUserPassword
  <2>2. CASE Exists(u)
    <3>1. nextPw \in 0..MaxPassword /\ users' = [users EXCEPT ![u].pw = nextPw, ![u].must = must]
      BY <1>0, <1>6, <2>2 DEF SetUserPassword, TypeOK
    <3>2. /\ Writes(u) /\ users'[u] \in User
          /\ users'[u].failed = users[u].failed /\ users'[u].locked = users[u].locked
      BY <1>0, <2>2, <3>1, PasswordEffect, Zenon
    <3>3. users'[u].locked = (users'[u].failed >= Threshold)
      BY <1>0, <2>2, <3>2, Zenon DEF LockoutConsistent
    <3> QED BY <3>2, <3>3, OneRow, Zenon
  <2> QED BY <2>1, <2>2, Zenon
<1>7. ASSUME NEW u \in UserIds, NEW p \in Patches, UpdateUserGuarded(r, u, p) PROVE RowsKept
  <2>1. UNCHANGED users \/ (Exists(u) /\ Patched(u, p))
    BY <1>7, Zenon DEF UpdateUserGuarded, Patched
  <2> QED BY <2>1, SameRows, PatchRows, Zenon
<1>8. ASSUME NEW u \in UserIds, DeleteUser(r, u) PROVE RowsKept
  <2>1. users' = [users EXCEPT ![u] = Gone]
    BY <1>8, Zenon DEF DeleteUser
  <2> QED BY <1>0, <2>1, Zenon DEF TypeOK, Table, LockoutConsistent, Exists, RowsKept
<1> QED BY <1>1, <1>2, <1>4, <1>5, <1>6, <1>7, <1>8, Zenon DEF UserStep

-----------------------------------------------------------------------------
(* Requests.                                                               *)

Referred == \A r \in Requests : req[r].user # None => users[req[r].user] # Unborn

\* A request with another phase and other parameters is a request.
LEMMA Moves ==
  ASSUME NEW q \in Request, NEW pc \in Phase
  PROVE  /\ [q EXCEPT !.pc = pc] \in Request
         /\ \A u \in UserIds, pw \in 0..MaxPassword :
              [q EXCEPT !.pc = pc, !.user = u, !.pw = pw] \in Request
         /\ \A n \in Nat : [q EXCEPT !.pc = pc, !.round = n] \in Request
         /\ \A b \in BOOLEAN : [q EXCEPT !.pc = pc, !.admin = b] \in Request
         /\ \A u \in UserIds : [q EXCEPT !.pc = pc, !.target = u] \in Request
         /\ \A u \in UserIds, p \in Patches \cup {None} :
              [q EXCEPT !.pc = pc, !.target = u, !.patch = p] \in Request
  BY ZenonT(60) DEF Request

\* What a request may become.
Onward(q) == q \in Request /\ Phased(q) /\ (q.user # None => users'[q.user] # Unborn)

LEMMA Onwards ==
  ASSUME Typed, RowsKept, NEW r \in Requests, NEW q, Onward(q), Goto(r, q),
         boot = "up", boot' = boot
  PROVE  RequestsOK' /\ Referred'
<1>1. RequestsOK'
  BY GotoTyped, Zenon DEF Typed, Onward
<1>2. ASSUME NEW o \in Requests, req'[o].user # None
      PROVE  users'[req'[o].user] # Unborn
  <2>1. req'[o] = (IF o = r THEN q ELSE req[o])
    BY Zenon DEF Goto, Typed, RequestsOK
  <2>2. req[o].user \in UserIds \cup {None}
    BY Zenon DEF Typed, RequestsOK, Request
  <2> QED BY <1>2, <2>1, <2>2, Zenon DEF Onward, Typed, Linked, RowsKept
<1> QED BY <1>1, <1>2, Zenon DEF Referred

LEMMA Finished ==
  ASSUME Typed, RowsKept, NEW r \in Requests, Done(r), boot = "up", boot' = boot
  PROVE  RequestsOK' /\ Referred'
<1>1. Onward(Idle)
  BY IdleTyped, Zenon DEF Onward, Idle
<1> QED BY <1>1, Onwards, Zenon DEF Done

LEMMA ReadRequests ==
  ASSUME Typed, NEW r \in Requests, ReadStep(r) PROVE RequestsOK' /\ Referred'
<1>0. /\ boot = "up" /\ boot' = boot /\ UNCHANGED users
  BY Zenon DEF ReadStep, Login, LoginUnknown, LoginLookup, OidcCallback, OidcFind, OidcReread,
     Cookie, CookieUser, Serve, ChangePassword, Abort,
     GuardUpdate, GuardDelete, AdminCall, Arrives, At, store
<1>1. RowsKept
  BY <1>0, SameRows, Zenon
<1>2. /\ req[r] \in Request /\ Phased(req[r])
      /\ req[r].user # None => users[req[r].user] # Unborn
  BY Zenon DEF Typed, RequestsOK, Linked
<1>3. CASE LoginUnknown(r) \/ Serve(r) \/ Abort(r)
  BY <1>0, <1>1, <1>3, Finished, Zenon DEF LoginUnknown, Serve, Abort
<1>4. CASE Login(r)
  <2>1. Onward([Idle EXCEPT !.pc = "lookup"])
    BY IdleTyped, ZenonT(60) DEF Onward, Idle, Request, Phase, Phased, Served
  <2> QED BY <1>0, <1>1, <1>4, <2>1, Onwards, Zenon DEF Login
<1>5. ASSUME NEW u \in UserIds, LoginLookup(r, u) PROVE RequestsOK' /\ Referred'
  <2>1. CASE Done(r)
    BY <1>0, <1>1, <2>1, Finished, Zenon
  <2>2. CASE ~users[u].locked
    <3>1. Exists(u) /\ users[u].pw \in 0..MaxPassword
      BY <1>5, RowTyped, Zenon DEF LoginLookup, Typed
    <3>2. Onward([Idle EXCEPT !.pc = "verify", !.user = u, !.pw = users[u].pw])
      BY <1>0, <3>1, IdleTyped, ZenonT(60) DEF Onward, Idle, Request, Phase, Phased, Served, Exists
    <3> QED BY <1>0, <1>1, <1>5, <2>2, <3>2, Onwards, Zenon DEF LoginLookup
  <2> QED BY <1>5, <2>1, <2>2, Zenon DEF LoginLookup
<1>6. ASSUME NEW q \in AuthStates, NEW sub \in Subjects, OidcCallback(r, q, sub)
      PROVE  RequestsOK' /\ Referred'
  <2>1. Onward([Idle EXCEPT !.pc = "find", !.sub = sub, !.round = 1])
    BY IdleTyped, ZenonT(60) DEF Onward, Idle, Request, Phase, Phased, Served
  <2> QED BY <1>0, <1>1, <1>6, <2>1, Onwards, Zenon DEF OidcCallback
<1>7. ASSUME req[r].sub \in Subjects, Known(req[r].sub), Resolve(r, identity[req[r].sub])
      PROVE  RequestsOK' /\ Referred'
  <2> DEFINE u == identity[req[r].sub]
  <2>1. u \in UserIds /\ Exists(u)
    BY <1>7, Zenon DEF Known, Typed, TypeOK, Linked
  <2>2. users[u].pw \in 0..MaxPassword
    BY <2>1, RowTyped, Zenon DEF Typed
  <2> HIDE DEF u
  <2>3. Onward([req[r] EXCEPT !.pc = "session", !.user = u, !.pw = users[u].pw])
    <3> DEFINE n == [req[r] EXCEPT !.pc = "session", !.user = u, !.pw = users[u].pw]
    <3>1. n \in Request
      BY <1>2, <2>1, <2>2, Moves, Zenon DEF Phase, Served
    <3>2. n.pc = "session" /\ n.user = u
      BY <1>2, Zenon DEF Request
    <3> HIDE DEF n
    <3>3. Onward(n)
      BY <1>0, <1>2, <2>1, <2>2, <3>1, <3>2, Zenon DEF Onward, Phased, Served, Exists
    <3> QED BY <3>3, Zenon DEF n
  <2> QED BY <1>0, <1>1, <1>7, <2>3, Onwards, Zenon DEF Resolve, u
<1>8. CASE OidcFind(r)
  <2>1. req[r].sub \in Subjects
    BY <1>2, <1>8, Zenon DEF OidcFind, At, Phased
  <2>2. Onward([req[r] EXCEPT !.pc = "create"])
    <3> DEFINE n == [req[r] EXCEPT !.pc = "create"]
    <3>1. n \in Request
      BY <1>2, <2>1, Moves, Zenon DEF Phase, Served
    <3>2. n.pc = "create" /\ n.user = req[r].user /\ n.sub = req[r].sub
      BY <1>2, Zenon DEF Request
    <3> HIDE DEF n
    <3>3. Onward(n)
      BY <1>0, <1>2, <2>1, <3>1, <3>2, Zenon DEF Onward, Phased, Served, Exists
    <3> QED BY <3>3, Zenon DEF n
  <2> QED BY <1>0, <1>1, <1>7, <1>8, <2>1, <2>2, Onwards, Zenon DEF OidcFind
<1>9. CASE OidcReread(r)
  <2>1. req[r].sub \in Subjects /\ req[r].round + 1 \in Nat
    BY <1>2, <1>9 DEF OidcReread, At, Phased, Request
  <2>2. Onward([req[r] EXCEPT !.pc = "create", !.round = req[r].round + 1])
    <3> DEFINE n == [req[r] EXCEPT !.pc = "create", !.round = req[r].round + 1]
    <3>1. n \in Request
      BY <1>2, <2>1, Moves, Zenon DEF Phase, Served
    <3>2. n.pc = "create" /\ n.user = req[r].user /\ n.sub = req[r].sub
      BY <1>2, Zenon DEF Request
    <3> HIDE DEF n
    <3>3. Onward(n)
      BY <1>0, <1>2, <2>1, <3>1, <3>2, Zenon DEF Onward, Phased, Served, Exists
    <3> QED BY <3>3, Zenon DEF n
  <2>3. \/ Known(req[r].sub) /\ Resolve(r, identity[req[r].sub])
        \/ Goto(r, [req[r] EXCEPT !.pc = "create", !.round = @ + 1])
        \/ Done(r)
    BY <1>9, Zenon DEF OidcReread
  <2>4. [req[r] EXCEPT !.pc = "create", !.round = @ + 1]
          = [req[r] EXCEPT !.pc = "create", !.round = req[r].round + 1]
    BY Zenon
  <2> QED BY <1>0, <1>1, <1>7, <2>1, <2>2, <2>3, <2>4, Onwards, Finished, ZenonT(60)
<1>10. ASSUME NEW s \in SessionIds, Cookie(r, s) PROVE RequestsOK' /\ Referred'
  <2>1. sessions[s] \in Session /\ Exists(sessions[s].user)
    BY <1>10, Zenon DEF Cookie, Live, Typed, TypeOK, Linked
  <2>2. sessions[s].user \in UserIds
    BY <2>1, Zenon DEF Session
  <2>3. users[sessions[s].user].disabled \in BOOLEAN
    BY <2>1, <2>2, RowTyped, Zenon DEF Typed
  <2>4. Onward([Idle EXCEPT !.pc = "user", !.sid = s, !.user = sessions[s].user,
                            !.barred = users[sessions[s].user].disabled])
    BY <1>0, <2>1, <2>2, <2>3, IdleTyped, ZenonT(60) DEF Onward, Idle, Request, Phase, Phased, Served, Exists
  <2> QED BY <1>0, <1>1, <1>10, <2>4, Onwards, Zenon DEF Cookie
<1>11. CASE CookieUser(r)
  <2> DEFINE u == req[r].user
             pc == IF users[u].must THEN "touchmust" ELSE "touch"
             ad == HasScope(ScopesForRole(users[u].role), "admin")
  <2>1. u \in UserIds /\ req[r].sid \in SessionIds
    BY <1>2, <1>11, Zenon DEF CookieUser, At, Phased
  <2>2. pc \in {"touch", "touchmust"} /\ ad \in BOOLEAN
    BY Zenon DEF HasScope
  <2>3. Done(r) \/ Goto(r, [req[r] EXCEPT !.pc = pc, !.admin = ad])
    BY <1>11, Zenon DEF CookieUser
  <2> HIDE DEF pc, ad
  <2>4. Onward([req[r] EXCEPT !.pc = pc, !.admin = ad])
    <3> DEFINE n == [req[r] EXCEPT !.pc = pc, !.admin = ad]
    <3>1. n \in Request
      BY <1>2, <2>1, <2>2, Moves, ZenonT(60) DEF Phase, Served
    <3>2. n.pc = pc /\ n.user = req[r].user /\ n.sid = req[r].sid
      BY <1>2, Zenon DEF Request
    <3> HIDE DEF n
    <3>3. Onward(n)
      BY <1>0, <1>2, <2>1, <2>2, <3>1, <3>2, Zenon DEF Onward, Phased, Served, Exists
    <3> QED BY <3>3, Zenon DEF n
  <2> QED BY <1>0, <1>1, <2>3, <2>4, Onwards, Finished, Zenon
<1>12. CASE ChangePassword(r)
  <2>1. req[r].user \in UserIds
    BY <1>2, <1>12, Zenon DEF ChangePassword, Phased, Served
  <2>2. Onward([req[r] EXCEPT !.pc = "setpw", !.target = req[r].user])
    <3> DEFINE n == [req[r] EXCEPT !.pc = "setpw", !.target = req[r].user]
    <3>1. n \in Request
      BY <1>2, <2>1, Moves, Zenon DEF Phase, Served
    <3>2. n.pc = "setpw" /\ n.user = req[r].user /\ n.target = req[r].user
      BY <1>2, Zenon DEF Request
    <3> HIDE DEF n
    <3>3. Onward(n)
      BY <1>0, <1>2, <2>1, <3>1, <3>2, Zenon DEF Onward, Phased, Served, Exists
    <3> QED BY <3>3, Zenon DEF n
  <2> QED BY <1>0, <1>1, <1>12, <2>2, Onwards, Zenon DEF ChangePassword
<1>13. ASSUME NEW u \in UserIds, NEW p \in Patches, GuardUpdate(r, u, p)
       PROVE  RequestsOK' /\ Referred'
  <2> DEFINE n == [req[r] EXCEPT !.pc = "patch", !.target = u, !.patch = p]
  <2>1. n \in Request
    BY <1>2, Moves, Zenon DEF Phase
  <2>2. n.pc = "patch" /\ n.user = req[r].user /\ n.target = u
    BY <1>2, Zenon DEF Request
  <2>3. Done(r) \/ Goto(r, n)
    BY <1>13, Zenon DEF GuardUpdate
  <2> HIDE DEF n
  <2>4. Onward(n)
    BY <1>0, <1>2, <2>1, <2>2, Zenon DEF Onward, Phased, Served
  <2> QED BY <1>0, <1>1, <2>3, <2>4, Onwards, Finished, Zenon
<1>14. ASSUME NEW u \in UserIds, GuardDelete(r, u) PROVE RequestsOK' /\ Referred'
  <2> DEFINE n == [req[r] EXCEPT !.pc = "erase", !.target = u]
  <2>1. n \in Request
    BY <1>2, Moves, Zenon DEF Phase
  <2>2. n.pc = "erase" /\ n.user = req[r].user /\ n.target = u
    BY <1>2, Zenon DEF Request
  <2>3. Goto(r, n)
    BY <1>14, Zenon DEF GuardDelete
  <2> HIDE DEF n
  <2>4. Onward(n)
    BY <1>0, <1>2, <2>1, <2>2, Zenon DEF Onward, Phased, Served
  <2> QED BY <1>0, <1>1, <2>3, <2>4, Onwards, Zenon
<1> QED
  BY <1>3, <1>4, <1>5, <1>6, <1>8, <1>9, <1>10, <1>11, <1>12, <1>13, <1>14, Zenon DEF ReadStep

LEMMA SessionRequests ==
  ASSUME Typed, NEW r \in Requests, SessionStep(r) PROVE RequestsOK' /\ Referred'
<1>0. /\ boot = "up" /\ boot' = boot /\ UNCHANGED users
  BY Zenon DEF SessionStep, CreateSession, CookieTouch, Logout, SweepSessions, CutOff, RevokeSession,
     AdminCall, At
<1>1. RowsKept
  BY <1>0, SameRows, Zenon
<1>2. /\ req[r] \in Request /\ Phased(req[r])
      /\ req[r].user # None => users[req[r].user] # Unborn
  BY Zenon DEF Typed, RequestsOK, Linked
<1>3. ASSUME NEW pc \in {"reset", "handler", "password page", "guarded"},
             Phased([req[r] EXCEPT !.pc = pc]), Goto(r, [req[r] EXCEPT !.pc = pc])
      PROVE  RequestsOK' /\ Referred'
  <2> DEFINE n == [req[r] EXCEPT !.pc = pc]
  <2>1. n \in Request
    BY <1>2, Moves, Zenon DEF Phase, Served
  <2>2. n.user = req[r].user
    BY <1>2, Zenon DEF Request
  <2> HIDE DEF n
  <2>3. Phased(n) /\ Goto(r, n)
    BY <1>3, Zenon DEF n
  <2>4. Onward(n)
    BY <1>0, <1>2, <2>1, <2>2, <2>3, Zenon DEF Onward
  <2> QED BY <1>0, <1>1, <2>3, <2>4, Onwards, Zenon
<1>4. CASE Done(r)
  BY <1>0, <1>1, <1>4, Finished, Zenon
<1>5. CASE Logout(r) \/ CutOff(r) \/ \E s \in SessionIds : RevokeSession(r, s)
  BY <1>4, <1>5, Zenon DEF Logout, CutOff, RevokeSession
<1>6. CASE CreateSession(r)
  <2>1. req[r].user \in UserIds
    BY <1>2, <1>6, Zenon DEF CreateSession, At, Phased
  <2>2. Phased([req[r] EXCEPT !.pc = "reset"])
    BY <1>2, <2>1, Zenon DEF Phased, Served, Request
  <2> QED BY <1>3, <1>4, <1>6, <2>2, Zenon DEF CreateSession
<1>7. CASE CookieTouch(r)
  <2>1. req[r].user \in UserIds /\ req[r].sid \in SessionIds
    BY <1>2, <1>7, Zenon DEF CookieTouch, Phased, Served
  <2>2. ASSUME NEW pc \in {"handler", "password page"} PROVE Phased([req[r] EXCEPT !.pc = pc])
    BY <1>2, <2>1, Zenon DEF Phased, Served, Request
  <2>3. \E pc \in {"handler", "password page"} : Goto(r, [req[r] EXCEPT !.pc = pc])
    <3>1. CASE req[r].pc = "touch"
      <4>1. Goto(r, [req[r] EXCEPT !.pc = "handler"])
        BY <1>7, <3>1, Zenon DEF CookieTouch
      <4> QED BY <4>1, Zenon
    <3>2. CASE req[r].pc # "touch"
      <4>1. Goto(r, [req[r] EXCEPT !.pc = "password page"])
        BY <1>7, <3>2, Zenon DEF CookieTouch
      <4> QED BY <4>1, Zenon
    <3> QED BY <3>1, <3>2, Zenon
  <2> QED BY <1>3, <2>2, <2>3, Zenon
<1>8. CASE SweepSessions(r)
  <2>1. req[r].target \in UserIds
    BY <1>2, <1>8, Zenon DEF SweepSessions, At, Phased
  <2>2. Phased([req[r] EXCEPT !.pc = "guarded"])
    BY <1>2, <2>1, Zenon DEF Phased, Served, Request
  <2> QED BY <1>3, <1>4, <1>8, <2>2, Zenon DEF SweepSessions
<1> QED BY <1>5, <1>6, <1>7, <1>8, Zenon DEF SessionStep

LEMMA UserRequests ==
  ASSUME Typed, NEW r \in Requests, UserStep(r) PROVE RequestsOK' /\ Referred'
<1>0. boot = "up" /\ boot' = boot /\ RowsKept
  BY UserFrames, UserRows, Zenon
     DEF UserFrame, UserStep, LoginMismatch, ResetFailedLogin, OidcCreate, CreateUser, DeleteUser,
         AdminCall, At
<1>2. /\ req[r] \in Request /\ Phased(req[r])
      /\ req[r].user # None => users[req[r].user] # Unborn
  BY Zenon DEF Typed, RequestsOK, Linked
<1>3. req[r].user # None => users'[req[r].user] # Unborn
  BY <1>0, <1>2, Zenon DEF RowsKept, Request
<1>4. CASE Done(r)
  BY <1>0, <1>4, Finished, Zenon
<1>5. CASE LoginMismatch(r) \/ ResetFailedLogin(r) \/ (\E n \in Names : CreateUser(r, n))
           \/ (\E u \in UserIds : DeleteUser(r, u))
  BY <1>4, <1>5, Zenon DEF LoginMismatch, ResetFailedLogin, CreateUser, DeleteUser
<1>6. ASSUME NEW n \in Names, OidcCreate(r, n) PROVE RequestsOK' /\ Referred'
  <2>0. req[r].sub \in Subjects
    BY <1>2, <1>6, Zenon DEF OidcCreate, At, Phased
  <2>1. CASE Goto(r, [req[r] EXCEPT !.pc = "reread"])
    <3> DEFINE q == [req[r] EXCEPT !.pc = "reread"]
    <3>1. q \in Request
      BY <1>2, Moves, Zenon DEF Phase
    <3>2. q.pc = "reread" /\ q.user = req[r].user /\ q.sub = req[r].sub
      BY <1>2, Zenon DEF Request
    <3> HIDE DEF q
    <3>3. Onward(q)
      BY <1>3, <2>0, <3>1, <3>2, Zenon DEF Onward, Phased, Served
    <3>4. Goto(r, q)
      BY <2>1, Zenon DEF q
    <3> QED BY <1>0, <3>3, <3>4, Onwards, Zenon
  <2>2. ASSUME NEW u \in UserIds, CreateUserWithIdentity(u, n, req[r].sub),
               Goto(r, [req[r] EXCEPT !.pc = "session", !.user = u, !.pw = Shadow])
        PROVE  RequestsOK' /\ Referred'
    <3> DEFINE q == [req[r] EXCEPT !.pc = "session", !.user = u, !.pw = Shadow]
    <3>0. Shadow \in 0..MaxPassword
      BY DEF Shadow
    <3>1. q \in Request
      BY <1>2, <3>0, Moves, Zenon DEF Phase
    <3>2. q.pc = "session" /\ q.user = u
      BY <1>2, Zenon DEF Request
    <3>4. Goto(r, q)
      BY <2>2, Zenon
    <3> HIDE DEF q
    <3>5. users'[u] \in User
      BY <2>2, <3>0, BirthEffect, Zenon DEF CreateUserWithIdentity, Typed
    <3>6. Onward(q)
      BY <3>1, <3>2, <3>5, Zenon DEF Onward, Phased, Served
    <3> QED BY <1>0, <3>4, <3>6, Onwards, Zenon
  <2> QED BY <1>6, <2>1, <2>2, Zenon DEF OidcCreate
<1>7. ASSUME NEW u \in UserIds, NEW must \in BOOLEAN, NEW patch \in Patches \cup {None},
             SetUserPassword(r, u, must, patch)
      PROVE  RequestsOK' /\ Referred'
  <2> DEFINE q == [req[r] EXCEPT !.pc = "sweep", !.target = u, !.patch = patch]
  <2>1. q \in Request
    BY <1>2, Moves, Zenon DEF Phase
  <2>2. q.pc = "sweep" /\ q.user = req[r].user /\ q.target = u
    BY <1>2, Zenon DEF Request
  <2>3. Done(r) \/ Goto(r, q)
    BY <1>7, Zenon DEF SetUserPassword
  <2> HIDE DEF q
  <2>4. Onward(q)
    BY <1>3, <2>1, <2>2, Zenon DEF Onward, Phased, Served
  <2> QED BY <1>0, <1>4, <2>3, <2>4, Onwards, Zenon
<1>8. ASSUME NEW u \in UserIds, NEW p \in Patches, UpdateUserGuarded(r, u, p)
      PROVE  RequestsOK' /\ Referred'
  <2> DEFINE c == [req[r] EXCEPT !.pc = "cutoff", !.target = u]
             m(q) == [req[q] EXCEPT !.barred = @ /\ ~(req[q].user = u /\ p.disabled = "no")]
  <2>1. c \in Request
    BY <1>2, Moves, Zenon DEF Phase
  <2>2. c.pc = "cutoff" /\ c.user = req[r].user /\ c.target = u
    BY <1>2, Zenon DEF Request
  <2>3. Onward(c)
    <3> HIDE DEF c
    <3> QED BY <1>3, <2>1, <2>2, Zenon DEF Onward, Phased, Served
  <2>4. ASSUME NEW q \in Requests PROVE Onward(m(q))
    <3>1. req[q] \in Request /\ Phased(req[q]) /\ (req[q].user # None => users[req[q].user] # Unborn)
      BY Zenon DEF Typed, RequestsOK, Linked
    <3> DEFINE b == req[q].barred /\ ~(req[q].user = u /\ p.disabled = "no")
    <3>2. m(q) = [req[q] EXCEPT !.barred = b] /\ b \in BOOLEAN
      BY <3>1, Zenon DEF Request
    <3> HIDE DEF m, b
    <3>3. m(q) \in Request
      BY <3>1, <3>2, Zenon DEF Request
    <3>4. /\ m(q).pc = req[q].pc /\ m(q).user = req[q].user /\ m(q).sid = req[q].sid
          /\ m(q).target = req[q].target /\ m(q).sub = req[q].sub
      BY <3>1, <3>2, Zenon DEF Request
    <3>5. req[q].user # None => users'[req[q].user] # Unborn
      BY <1>0, <3>1, Zenon DEF RowsKept, Request
    <3> QED BY <3>1, <3>3, <3>4, <3>5, Zenon DEF Onward, Phased
  <2>5. Done(r) \/ req' = [q \in Requests |-> IF q = r THEN IF p.disabled = "yes" THEN c ELSE Idle
                                              ELSE m(q)]
    BY <1>8, Zenon DEF UpdateUserGuarded
  <2>6. Onward(Idle)
    BY IdleTyped, Zenon DEF Onward, Idle
  <2> HIDE DEF c, m
  <2>7. CASE req' = [q \in Requests |-> IF q = r THEN IF p.disabled = "yes" THEN c ELSE Idle
                                        ELSE m(q)]
    <3>1. DOMAIN req' = Requests /\ \A q \in Requests : Onward(req'[q])
      BY <2>3, <2>4, <2>6, <2>7, Zenon
    <3>2. req' = [q \in Requests |-> req'[q]]
      BY <2>7, Zenon
    <3> QED BY <1>0, <3>1, <3>2, Zenon DEF Onward, RequestsOK, Referred
  <2> QED BY <1>4, <2>5, <2>7, Zenon
<1> QED BY <1>5, <1>6, <1>7, <1>8, Zenon DEF UserStep

LEMMA OtherRows == ASSUME Typed, OtherStep PROVE RowsKept
<1>0. TypeOK
  BY Zenon DEF Typed
<1>1. CASE Bootstrap
  <2>1. CASE UNCHANGED users
    BY <2>1, SameRows, Zenon
  <2>2. ASSUME NEW u \in UserIds, nextPw <= MaxPassword,
               users' = [users EXCEPT ![u] = NewUser(AdminName, "admin", nextPw, TRUE)]
        PROVE  RowsKept
    <3>0. nextPw \in 0..MaxPassword
      BY <1>0, <2>2 DEF TypeOK
    <3>1. Writes(u) /\ users'[u] \in User /\ users'[u].failed = 0 /\ users'[u].locked = FALSE
      BY <1>0, <2>2, <3>0, BirthEffect, Zenon
    <3> QED BY <3>1, ZeroUnlocked, OneRow, Zenon
  <2> QED BY <1>1, <2>1, <2>2, Zenon DEF Bootstrap
<1>2. CASE Rescue
  <2>1. CASE UNCHANGED users
    BY <2>1, SameRows, Zenon
  <2>2. ASSUME NEW u \in RescueTargets, nextPw <= MaxPassword, RescueAdmin(u)
        PROVE  RowsKept
    <3>0. u \in UserIds /\ Exists(u)
      BY Zenon DEF RescueTargets
    <3>1. Writes(u) /\ users'[u] \in User /\ users'[u].failed = 0 /\ users'[u].locked = FALSE
      BY <1>0, <2>2, <3>0, RescueEffect, Zenon
    <3> QED BY <3>0, <3>1, ZeroUnlocked, OneRow, Zenon
  <2> QED BY <1>2, <2>1, <2>2, Zenon DEF Rescue
<1> QED
  BY <1>1, <1>2, SameRows, Zenon DEF OtherStep, OidcAuthorize, ExpireState, ExpireSession, Crash, store

LEMMA OtherRequests == ASSUME Typed, OtherStep PROVE RequestsOK' /\ Referred'
<1>0. RowsKept
  BY OtherRows, Zenon
<1>1. CASE UNCHANGED req /\ (boot' = boot \/ boot # "up")
  <2>1. ASSUME NEW r \in Requests, req[r].user # None PROVE users'[req[r].user] # Unborn
    BY <1>0, <2>1, Zenon DEF Typed, RequestsOK, Request, Linked, RowsKept
  <2> QED BY <1>1, <2>1, Zenon DEF Typed, RequestsOK, Referred
<1>2. CASE Crash
  BY <1>2, IdleTyped, Zenon DEF Crash, RequestsOK, Referred, Idle
<1> QED
  BY <1>1, <1>2, Zenon DEF OtherStep, OidcAuthorize, ExpireState, ExpireSession, Bootstrap, Rescue

-----------------------------------------------------------------------------
(* Sessions.                                                               *)

\* A step on s other than its creation: it may expire, slide or end.
KeptSession(s) ==
  /\ Live(s)' => /\ Live(s)
                 /\ sessions'[s].user = sessions[s].user
                 /\ sessions'[s].proof = sessions[s].proof
                 /\ sessions'[s].late = sessions[s].late
  /\ sessions[s] = Gone => sessions'[s] = Gone

\* The creation of s by r.
NewSession(r, s) ==
  LET u == req[r].user IN
  /\ u \in UserIds /\ Exists(u) /\ UNCHANGED <<users, swept>>
  /\ sessions[s] = Unborn
  /\ sessions'[s] = [user |-> u, expired |-> FALSE,
                     proof |-> req[r].pw, late |-> users[u].pw # req[r].pw]

LEMMA SameSessions ==
  ASSUME UNCHANGED sessions PROVE \A s \in SessionIds : KeptSession(s)
  BY Zenon DEF KeptSession, Live

LEMMA EndedSessions ==
  ASSUME NEW u, sessions' = WithoutSessionsOf(u)
  PROVE  \A s \in SessionIds : KeptSession(s) /\ (Live(s)' => sessions'[s].user # u)
  BY Zenon DEF KeptSession, Live, WithoutSessionsOf

LEMMA FlaggedSession ==
  ASSUME Typed, NEW s \in SessionIds, NEW b \in BOOLEAN, Live(s),
         sessions' = [sessions EXCEPT ![s].expired = b]
  PROVE  /\ sessions' \in [SessionIds -> Session \cup {Unborn, Gone}]
         /\ \A o \in SessionIds : KeptSession(o)
<1>0. sessions \in [SessionIds -> Session \cup {Unborn, Gone}] /\ sessions[s] \in Session
  BY Zenon DEF Typed, TypeOK, Live
<1>1. /\ sessions' \in [SessionIds -> Session \cup {Unborn, Gone}]
      /\ \A o \in SessionIds \ {s} : sessions'[o] = sessions[o]
      /\ sessions'[s] \in Session
      /\ sessions'[s].user = sessions[s].user
      /\ sessions'[s].proof = sessions[s].proof
      /\ sessions'[s].late = sessions[s].late
  BY <1>0, Zenon DEF Session
<1>2. KeptSession(s)
  BY <1>0, <1>1, Zenon DEF KeptSession, Live
<1>3. ASSUME NEW o \in SessionIds, o # s PROVE KeptSession(o)
  BY <1>1, <1>3, Zenon DEF KeptSession, Live
<1> QED BY <1>1, <1>2, <1>3, Zenon

LEMMA RemovedSession ==
  ASSUME Typed, NEW s \in SessionIds, sessions' = EndSession(s)
  PROVE  \A o \in SessionIds : KeptSession(o)
  BY Zenon DEF Typed, TypeOK, EndSession, KeptSession, Live

LEMMA SessionSteps ==
  ASSUME Typed, NEW r \in Requests, SessionStep(r), NEW s \in SessionIds
  PROVE  KeptSession(s) \/ NewSession(r, s)
<1>1. CASE CreateSession(r)
  <2>0. req[r].user \in UserIds /\ UNCHANGED <<users, swept>>
    BY <1>1, Zenon DEF CreateSession, At, Typed, RequestsOK, Phased
  <2>1. CASE UNCHANGED sessions
    BY <2>1, SameSessions, Zenon
  <2>2. ASSUME Exists(req[r].user), NEW t \in SessionIds, Fresh(sessions, t),
               sessions' = [sessions EXCEPT ![t] =
                  [user |-> req[r].user, expired |-> FALSE, proof |-> req[r].pw,
                   late |-> users[req[r].user].pw # req[r].pw]]
        PROVE  KeptSession(s) \/ NewSession(r, s)
    <3>0. DOMAIN sessions = SessionIds /\ sessions[t] = Unborn
      BY <2>2, Zenon DEF Typed, TypeOK, Fresh
    <3>1. CASE s = t
      BY <2>0, <2>2, <3>0, <3>1, Zenon DEF NewSession
    <3>2. CASE s # t
      BY <2>2, <3>0, <3>2, Zenon DEF KeptSession, Live
    <3> QED BY <3>1, <3>2, Zenon
  <2> QED BY <1>1, <2>1, <2>2, Zenon DEF CreateSession
<1>2. CASE CookieTouch(r)
  <2>1. req[r].sid \in SessionIds
    BY <1>2, Zenon DEF CookieTouch, Typed, RequestsOK, Phased, Served
  <2>2. \/ UNCHANGED sessions
        \/ Live(req[r].sid) /\ sessions' = [sessions EXCEPT ![req[r].sid].expired = FALSE]
    BY <1>2, Zenon DEF CookieTouch, TouchSession
  <2> QED BY <2>1, <2>2, SameSessions, FlaggedSession, Zenon
<1>3. CASE Logout(r) \/ \E t \in SessionIds : RevokeSession(r, t)
  <2>1. req[r].pc \in Served => req[r].sid \in SessionIds
    BY Zenon DEF Typed, RequestsOK, Phased, Served
  <2>2. \E t \in SessionIds : sessions' = EndSession(t)
    BY <1>3, <2>1, Zenon DEF Logout, RevokeSession, Served
  <2> QED BY <2>2, RemovedSession, Zenon
<1>4. CASE SweepSessions(r) \/ CutOff(r)
  BY <1>4, EndedSessions, Zenon DEF SweepSessions, CutOff
<1> QED BY <1>1, <1>2, <1>3, <1>4, Zenon DEF SessionStep

LEMMA UserSessions ==
  ASSUME Typed, NEW r \in Requests, UserStep(r) PROVE \A s \in SessionIds : KeptSession(s)
  BY UserFrames, SameSessions, EndedSessions, Zenon DEF UserFrame

LEMMA OtherSessions ==
  ASSUME Typed, OtherStep PROVE \A s \in SessionIds : KeptSession(s)
<1>1. ASSUME NEW s \in SessionIds, ExpireSession(s) PROVE \A o \in SessionIds : KeptSession(o)
  BY <1>1, FlaggedSession, Zenon DEF ExpireSession
<1>2. CASE Rescue
  BY <1>2, SameSessions, EndedSessions, Zenon DEF Rescue
<1> QED
  BY <1>1, <1>2, SameSessions, Zenon
     DEF OtherStep, OidcAuthorize, ExpireState, Crash, Bootstrap, store

LEMMA OtherType == ASSUME Typed, OtherStep PROVE TypeOK'
<1>0. users' \in Table /\ DOMAIN req' = Requests
  BY OtherRows, OtherRequests, Zenon DEF RowsKept, RequestsOK
<1>1. sessions' \in [SessionIds -> Session \cup {Unborn, Gone}]
  <2>0. sessions \in [SessionIds -> Session \cup {Unborn, Gone}]
    BY Zenon DEF Typed, TypeOK
  <2>1. ASSUME NEW s \in SessionIds, ExpireSession(s)
        PROVE  sessions' \in [SessionIds -> Session \cup {Unborn, Gone}]
    BY <2>1, FlaggedSession, Zenon DEF ExpireSession
  <2>2. CASE Rescue
    BY <2>0, <2>2, Zenon DEF Rescue, WithoutSessionsOf
  <2> QED BY <2>0, <2>1, <2>2, Zenon DEF OtherStep, OidcAuthorize, ExpireState, Crash, Bootstrap, store
<1>2. /\ identity' = identity /\ calls' = calls
      /\ faults' = faults \/ (faults < MaxFaults /\ faults' = faults + 1)
      /\ nextPw' = nextPw \/ (nextPw <= MaxPassword /\ nextPw' = nextPw + 1)
      /\ boot' = boot \/ boot' \in {"down", "bootstrapped", "up"}
      /\ states' = states \/ \E q \in AuthStates, x \in {"live", "expired"} :
                               states' = [states EXCEPT ![q] = x]
      /\ swept' = swept \/ \E u \in UserIds : swept' = [swept EXCEPT ![u] = TRUE]
      /\ guesses' = guesses \/ \E u \in UserIds : guesses' = [guesses EXCEPT ![u] = 0]
  <2>1. ASSUME NEW q \in AuthStates, OidcAuthorize(q) \/ ExpireState(q)
        PROVE  \E x \in {"live", "expired"} : states' = [states EXCEPT ![q] = x]
    BY <2>1, Zenon DEF OidcAuthorize, ExpireState
  <2> QED BY <2>1, Zenon DEF OtherStep, OidcAuthorize, ExpireState, ExpireSession, Crash, Bootstrap, Rescue,
                      RescueTargets, store
<1>3. calls' \in 0..MaxCalls /\ faults' \in 0..MaxFaults /\ nextPw' \in 1..(MaxPassword + 1)
  BY <1>2 DEF Typed, TypeOK
<1>4. /\ states' \in [AuthStates -> {"unborn", "live", "expired", "gone"}]
      /\ swept' \in [UserIds -> BOOLEAN] /\ guesses' \in [UserIds -> Nat]
  <2>1. states' \in [AuthStates -> {"unborn", "live", "expired", "gone"}]
    BY <1>2, Zenon DEF Typed, TypeOK
  <2>2. swept' \in [UserIds -> BOOLEAN]
    BY <1>2, Zenon DEF Typed, TypeOK
  <2>3. guesses' \in [UserIds -> Nat]
    BY <1>2 DEF Typed, TypeOK
  <2> QED BY <2>1, <2>2, <2>3, Zenon
<1> QED BY <1>0, <1>1, <1>2, <1>3, <1>4, Zenon DEF Typed, TypeOK, Table

LEMMA UserType == ASSUME Typed, NEW r \in Requests, UserStep(r) PROVE TypeOK'
<1>1. users' \in Table /\ DOMAIN req' = Requests
  BY UserRows, UserRequests, Zenon DEF RowsKept, RequestsOK
<1> QED BY <1>1, UserFrames, FrameTyped, Zenon DEF TypeOK, Table

-----------------------------------------------------------------------------
(* Rows refer to rows.                                                     *)

\* No row of users is deleted.
NoneDeleted == \A u \in UserIds : Exists(u) => Exists(u)'

LEMMA Survivors ==
  ASSUME Typed, NEW r \in Requests, UserStep(r)
  PROVE  NoneDeleted \/ \E u \in UserIds : DeleteUser(r, u)
<1>0. TypeOK /\ LockoutConsistent
  BY Zenon DEF Typed
<1>1. ASSUME NEW u \in UserIds, Writes(u), users'[u] \in User PROVE NoneDeleted
  BY <1>1, Zenon DEF Writes, NoneDeleted, Exists
<1>2. ASSUME UNCHANGED users PROVE NoneDeleted
  BY <1>2, Zenon DEF NoneDeleted, Exists
<1>3. CASE LoginMismatch(r)
  <2>1. req[r].user \in UserIds
    BY <1>3, Zenon DEF LoginMismatch, At, Typed, RequestsOK, Phased
  <2>2. UNCHANGED users \/ (Exists(req[r].user) /\ IncrementFailedLogin(req[r].user))
    BY <1>3, Zenon DEF LoginMismatch
  <2> QED BY <1>0, <1>1, <1>2, <2>1, <2>2, IncrementEffect, Zenon
<1>4. CASE ResetFailedLogin(r)
  <2>1. req[r].user \in UserIds
    BY <1>4, Zenon DEF ResetFailedLogin, At, Typed, RequestsOK, Phased
  <2>2. UNCHANGED users \/ (Exists(req[r].user) /\ users' = Unlocked(req[r].user))
    BY <1>4, Zenon DEF ResetFailedLogin
  <2> QED BY <1>0, <1>1, <1>2, <2>1, <2>2, UnlockEffect, Zenon
<1>5. ASSUME NEW u \in UserIds, NEW row, users[u] = Unborn, users' = [users EXCEPT ![u] = row]
      PROVE  NoneDeleted
  BY <1>0, <1>5, Zenon DEF TypeOK, NoneDeleted, Exists
<1>6. ASSUME NEW n \in Names, OidcCreate(r, n) \/ CreateUser(r, n) PROVE NoneDeleted
  BY <1>2, <1>5, <1>6, Zenon DEF OidcCreate, CreateUser, CreateUserWithIdentity, Fresh
<1>7. ASSUME NEW u \in UserIds, NEW must \in BOOLEAN, NEW patch, SetUserPassword(r, u, must, patch)
      PROVE  NoneDeleted
  <2>1. CASE ~Exists(u)
    BY <1>2, <1>7, <2>1, Zenon DEF SetUserPassword
  <2>2. CASE Exists(u)
    <3>1. nextPw \in 0..MaxPassword /\ users' = [users EXCEPT ![u].pw = nextPw, ![u].must = must]
      BY <1>0, <1>7, <2>2 DEF SetUserPassword, TypeOK
    <3> QED BY <1>0, <1>1, <2>2, <3>1, PasswordEffect, ZenonT(60)
  <2> QED BY <2>1, <2>2, Zenon
<1>8. ASSUME NEW u \in UserIds, NEW p \in Patches, UpdateUserGuarded(r, u, p) PROVE NoneDeleted
  <2>1. UNCHANGED users \/ (Exists(u) /\ Patched(u, p))
    BY <1>8, Zenon DEF UpdateUserGuarded, Patched
  <2> QED BY <1>0, <1>1, <1>2, <2>1, PatchEffect, ZenonT(60)
<1> QED BY <1>3, <1>4, <1>6, <1>7, <1>8, Zenon DEF UserStep

LEMMA OtherSurvivors == ASSUME Typed, OtherStep PROVE NoneDeleted
<1>0. TypeOK
  BY Zenon DEF Typed
<1>1. CASE UNCHANGED users
  BY <1>1, Zenon DEF NoneDeleted, Exists
<1>2. CASE Bootstrap
  <2>1. ASSUME NEW u \in UserIds, NEW row, users[u] = Unborn, users' = [users EXCEPT ![u] = row]
        PROVE  NoneDeleted
    BY <1>0, <2>1, Zenon DEF TypeOK, NoneDeleted, Exists
  <2> QED BY <1>1, <1>2, <2>1, Zenon DEF Bootstrap, Fresh
<1>3. CASE Rescue
  <2>1. ASSUME NEW u \in RescueTargets, nextPw <= MaxPassword, RescueAdmin(u) PROVE NoneDeleted
    <3>1. u \in UserIds /\ Exists(u)
      BY Zenon DEF RescueTargets
    <3>2. Writes(u) /\ users'[u] \in User
      BY <1>0, <2>1, <3>1, RescueEffect, Zenon
    <3> QED BY <3>1, <3>2, Zenon DEF Writes, NoneDeleted, Exists
  <2> QED BY <1>1, <1>3, <2>1, Zenon DEF Rescue
<1> QED
  BY <1>1, <1>2, <1>3, Zenon DEF OtherStep, OidcAuthorize, ExpireState, ExpireSession, Crash, store

LEMMA LinkedStep == ASSUME Typed, Next PROVE Linked'
<1>0. Linked /\ identity \in [Subjects -> UserIds \cup {None}]
      /\ \A s \in SessionIds : Live(s) => sessions[s].user \in UserIds
  BY Zenon DEF Typed, TypeOK, Live, Session
<1>1. ASSUME NoneDeleted, Referred', \A s \in SessionIds : KeptSession(s), UNCHANGED identity
      PROVE  Linked'
  <2>1. ASSUME NEW s \in SessionIds, Live(s)' PROVE Exists(sessions[s].user)'
    BY <1>0, <1>1, <2>1, Zenon DEF KeptSession, Linked, NoneDeleted
  <2>2. ASSUME NEW s \in Subjects, identity'[s] # None PROVE Exists(identity[s])'
    BY <1>0, <1>1, <2>2, Zenon DEF Linked, NoneDeleted
  <2> QED BY <1>1, <2>1, <2>2, Zenon DEF Linked, Referred
<1>2. ASSUME NEW r \in Requests, ReadStep(r) PROVE Linked'
  <2>1. UNCHANGED <<users, sessions, identity>>
    BY <1>2, Zenon DEF ReadStep, Login, LoginUnknown, LoginLookup, OidcCallback, OidcFind, OidcReread,
       Cookie, CookieUser, Serve, ChangePassword, Abort,
       GuardUpdate, GuardDelete, store
  <2> QED BY <1>1, <1>2, <2>1, SameSessions, ReadRequests, Zenon DEF NoneDeleted, Exists
<1>3. ASSUME NEW r \in Requests, SessionStep(r) PROVE Linked'
  <2>0. UNCHANGED <<users, identity>> /\ Referred'
    BY <1>3, SessionRequests, Zenon DEF SessionStep, CreateSession, CookieTouch, Logout, SweepSessions,
       CutOff, RevokeSession
  <2>1. ASSUME NEW s \in SessionIds, Live(s)' PROVE Exists(sessions[s].user)'
    <3>1. CASE KeptSession(s)
      BY <1>0, <2>0, <2>1, <3>1, Zenon DEF KeptSession, Linked, Exists
    <3>2. CASE NewSession(r, s)
      BY <2>0, <3>2 DEF NewSession, Exists
    <3> QED BY <1>3, <3>1, <3>2, SessionSteps, Zenon
  <2>2. \A s \in Subjects : identity'[s] # None => Exists(identity[s])'
    BY <1>0, <2>0, Zenon DEF Linked, Exists
  <2> QED BY <2>0, <2>1, <2>2, Zenon DEF Linked, Referred
<1>4. ASSUME NEW r \in Requests, UserStep(r) PROVE Linked'
  <2>0. Referred' /\ \A s \in SessionIds : KeptSession(s)
    BY <1>4, UserRequests, UserSessions, Zenon
  <2>1. ASSUME NEW u \in UserIds, DeleteUser(r, u) PROVE Linked'
    <3>1. /\ users' = [users EXCEPT ![u] = Gone] /\ sessions' = WithoutSessionsOf(u)
          /\ identity' = [s \in Subjects |-> IF identity[s] = u THEN None ELSE identity[s]]
      BY <2>1, Zenon DEF DeleteUser
    <3>2. \A v \in UserIds : v # u /\ Exists(v) => Exists(v)'
      BY <3>1, Zenon DEF Exists, Typed, TypeOK
    <3>3. ASSUME NEW s \in SessionIds, Live(s)' PROVE Exists(sessions[s].user)'
      BY <1>0, <2>0, <3>1, <3>2, <3>3, EndedSessions, Zenon DEF KeptSession, Linked
    <3>4. ASSUME NEW s \in Subjects, identity'[s] # None PROVE Exists(identity[s])'
      BY <1>0, <3>1, <3>2, <3>4, Zenon DEF Linked
    <3> QED BY <2>0, <3>3, <3>4, Zenon DEF Linked, Referred
  <2>2. ASSUME NEW n \in Names, OidcCreate(r, n) PROVE Linked'
    <3>0. NoneDeleted /\ req[r].sub \in Subjects
      BY <1>4, <2>2, Survivors, Zenon DEF OidcCreate, DeleteUser, At, AdminCall, Typed, RequestsOK, Phased
    <3>1. ASSUME NEW u \in UserIds, CreateUserWithIdentity(u, n, req[r].sub) PROVE Linked'
      <4>1. Shadow \in 0..MaxPassword
        BY DEF Shadow
      <4>2. Exists(u)' /\ identity' = [identity EXCEPT ![req[r].sub] = u]
        BY <3>1, <4>1, BirthEffect, Zenon DEF CreateUserWithIdentity, Typed, Exists
      <4>3. ASSUME NEW s \in SessionIds, Live(s)' PROVE Exists(sessions[s].user)'
        BY <1>0, <2>0, <3>0, <4>3, Zenon DEF KeptSession, Linked, NoneDeleted
      <4>4. ASSUME NEW s \in Subjects, identity'[s] # None PROVE Exists(identity[s])'
        BY <1>0, <3>0, <4>2, <4>4, Zenon DEF Linked, NoneDeleted
      <4> QED BY <2>0, <4>3, <4>4, Zenon DEF Linked, Referred
    <3> QED BY <1>1, <2>0, <2>2, <3>0, <3>1, Zenon DEF OidcCreate
  <2>3. CASE UNCHANGED identity /\ NoneDeleted
    BY <1>1, <2>0, <2>3, Zenon
  <2>4. \/ \E u \in UserIds : DeleteUser(r, u)
        \/ \E n \in Names : OidcCreate(r, n)
        \/ UNCHANGED identity
    <3>1. LoginMismatch(r) \/ ResetFailedLogin(r) => UNCHANGED identity
      BY Zenon DEF LoginMismatch, ResetFailedLogin
    <3>2. \A n \in Names : CreateUser(r, n) => UNCHANGED identity
      BY Zenon DEF CreateUser
    <3>3. ASSUME NEW u, NEW must, NEW p, SetUserPassword(r, u, must, p) PROVE UNCHANGED identity
      BY <3>3, Zenon DEF SetUserPassword
    <3>4. ASSUME NEW u, NEW p, UpdateUserGuarded(r, u, p) PROVE UNCHANGED identity
      BY <3>4, Zenon DEF UpdateUserGuarded
    <3> QED BY <1>4, <3>1, <3>2, <3>3, <3>4, Zenon DEF UserStep
  <2> QED BY <1>4, <2>1, <2>2, <2>3, <2>4, Survivors, Zenon
<1>5. CASE OtherStep
  <2>1. UNCHANGED identity
    BY <1>5, Zenon DEF OtherStep, OidcAuthorize, ExpireState, ExpireSession, Crash, Bootstrap, Rescue, store
  <2> QED BY <1>1, <1>5, <2>1, OtherSurvivors, OtherRequests, OtherSessions, Zenon
<1> QED BY <1>2, <1>3, <1>4, <1>5, Cases, Zenon

LEMMA TypedInit == Init => Typed
<1> SUFFICES ASSUME Init PROVE Typed
  BY Zenon
<1>1. TypeOK
  BY TypeInit, Zenon
<1>2. RequestsOK
  BY IdleTyped, Zenon DEF Init, RequestsOK
<1>3. Linked
  BY Zenon DEF Init, Linked, Live, Idle
<1>4. LockoutConsistent
  BY DatabasesAssumption, Zenon DEF Init, LockoutConsistent, Exists
<1> QED BY <1>1, <1>2, <1>3, <1>4, Zenon DEF Typed

LEMMA TypedStep == ASSUME Typed, [Next]_vars PROVE Typed'
<1>1. CASE UNCHANGED vars
  BY <1>1, Zenon DEF vars, store, Typed, TypeOK, RequestsOK, Linked, LockoutConsistent, Exists, Live
<1>2. CASE Next
  <2>1. ASSUME NEW r \in Requests, ReadStep(r) PROVE TypeOK' /\ RequestsOK' /\ RowsKept
    <3>1. UNCHANGED users
      BY <2>1, Zenon DEF ReadStep, Login, LoginUnknown, LoginLookup, OidcCallback, OidcFind, OidcReread,
         Cookie, CookieUser, Serve, ChangePassword, Abort,
         GuardUpdate, GuardDelete, store
    <3> QED BY <2>1, <3>1, ReadType, ReadRequests, SameRows, Zenon DEF Typed
  <2>2. ASSUME NEW r \in Requests, SessionStep(r) PROVE TypeOK' /\ RequestsOK' /\ RowsKept
    <3>1. UNCHANGED users
      BY <2>2, Zenon DEF SessionStep, CreateSession, CookieTouch, Logout, SweepSessions, CutOff,
         RevokeSession
    <3> QED BY <2>2, <3>1, SessionType, SessionRequests, SameRows, Zenon
  <2>3. ASSUME NEW r \in Requests, UserStep(r) PROVE TypeOK' /\ RequestsOK' /\ RowsKept
    BY <2>3, UserType, UserRequests, UserRows, Zenon
  <2>4. ASSUME OtherStep PROVE TypeOK' /\ RequestsOK' /\ RowsKept
    BY <2>4, OtherType, OtherRequests, OtherRows, Zenon
  <2>5. TypeOK' /\ RequestsOK' /\ RowsKept
    BY <1>2, <2>1, <2>2, <2>3, <2>4, Cases, Zenon
  <2> QED BY <1>2, <2>5, LinkedStep, Zenon DEF Typed, RowsKept
<1> QED BY <1>1, <1>2, Zenon

\* The inductive invariant: types, the parameters of every phase, references
\* between rows, and lockouts that agree with their counters.
THEOREM TypedAlways == Spec => []Typed
  BY TypedInit, TypedStep, PTL DEF Spec

\* Rows, requests and counters keep their declared shape.
THEOREM TypeCorrect == Spec => []TypeOK
<1>1. Typed => TypeOK
  BY Zenon DEF Typed
<1> QED BY <1>1, TypedAlways, PTL

\* failed_login_count and locked_at agree in every reachable state, for any
\* number of requests in flight (pg_auth.go:337-409).
THEOREM LockoutAlwaysConsistent == Spec => []LockoutConsistent
<1>1. Typed => LockoutConsistent
  BY Zenon DEF Typed
<1> QED BY <1>1, TypedAlways, PTL

-----------------------------------------------------------------------------
(* Passwords, roles and the flag disabled of one user.                     *)

\* The patch p is applied to u.
Applies(r, u, p) ==
  /\ UpdateUserGuarded(r, u, p)
  /\ Patched(u, p)

\* A user that is there before and after: who it is changes with a patch only,
\* its password with a note that the sessions are not swept yet.
SamePassword(u) == users'[u].pw = users[u].pw /\ swept'[u] = swept[u]
NewPassword(u) == users'[u].pw # Shadow /\ swept'[u] = FALSE
Remains(r, u) ==
  /\ SamePerson(u) \/ \E p \in Patches : Applies(r, u, p)
  /\ SamePassword(u) \/ NewPassword(u)

\* A user that was not there before.
Born(u) ==
  /\ users[u] = Unborn /\ users'[u].disabled = FALSE
  /\ users'[u].pw # Shadow \/ \E s \in Subjects : identity'[s] = u

\* A step on the row of u, seen from any row.
LEMMA OthersRemain ==
  ASSUME NEW r, NEW u \in UserIds, NEW v \in UserIds, v # u, Writes(u), swept'[v] = swept[v]
  PROVE  Exists(v)' = Exists(v) /\ Remains(r, v)
  BY Zenon DEF Writes, Exists, Remains, SamePerson, SamePassword

LEMMA SameRemain ==
  ASSUME NEW r, NEW v \in UserIds, UNCHANGED <<users, swept>>
  PROVE  Exists(v)' = Exists(v) /\ Remains(r, v)
  BY Zenon DEF Exists, Remains, SamePerson, SamePassword

LEMMA PersonSteps ==
  ASSUME Typed, NEW r \in Requests, UserStep(r), NEW v \in UserIds, Exists(v)'
  PROVE  (Exists(v) /\ Remains(r, v)) \/ (~Exists(v) /\ Born(v))
<1> DEFINE Goal == (Exists(v) /\ Remains(r, v)) \/ (~Exists(v) /\ Born(v))
<1>0. /\ TypeOK /\ LockoutConsistent /\ DOMAIN swept = UserIds
      /\ nextPw <= MaxPassword => nextPw \in 0..MaxPassword /\ nextPw # Shadow
  BY DEF Typed, TypeOK, Shadow
<1>1. CASE LoginMismatch(r)
  <2>1. req[r].user \in UserIds
    BY <1>1, Zenon DEF LoginMismatch, At, Typed, RequestsOK, Phased
  <2>2. UNCHANGED users \/ (Exists(req[r].user) /\ IncrementFailedLogin(req[r].user))
    BY <1>1, Zenon DEF LoginMismatch
  <2>3. UNCHANGED swept
    BY <1>1, Zenon DEF LoginMismatch
  <2>4. CASE Exists(req[r].user) /\ IncrementFailedLogin(req[r].user)
    <3>1. /\ Writes(req[r].user) /\ SamePerson(req[r].user)
          /\ users'[req[r].user].pw = users[req[r].user].pw
      BY <1>0, <2>1, <2>4, IncrementEffect, Zenon
    <3> QED BY <2>1, <2>3, <2>4, <3>1, OthersRemain, Zenon DEF Remains, SamePassword
  <2> QED BY <2>2, <2>3, <2>4, SameRemain, Zenon
<1>2. CASE ResetFailedLogin(r)
  <2>1. req[r].user \in UserIds
    BY <1>2, Zenon DEF ResetFailedLogin, At, Typed, RequestsOK, Phased
  <2>2. UNCHANGED users \/ (Exists(req[r].user) /\ users' = Unlocked(req[r].user))
    BY <1>2, Zenon DEF ResetFailedLogin
  <2>3. UNCHANGED swept
    BY <1>2, Zenon DEF ResetFailedLogin
  <2>4. CASE Exists(req[r].user) /\ users' = Unlocked(req[r].user)
    <3>1. /\ Writes(req[r].user) /\ SamePerson(req[r].user)
          /\ users'[req[r].user].pw = users[req[r].user].pw
      BY <1>0, <2>1, <2>4, UnlockEffect, Zenon
    <3> QED BY <2>1, <2>3, <2>4, <3>1, OthersRemain, Zenon DEF Remains, SamePassword
  <2> QED BY <2>2, <2>3, <2>4, SameRemain, Zenon
<1>3. ASSUME NEW n \in Names, OidcCreate(r, n) PROVE Goal
  <2>0. req[r].sub \in Subjects /\ UNCHANGED swept /\ Shadow \in 0..MaxPassword
        /\ DOMAIN identity = Subjects
    <3>1. req[r].sub \in Subjects /\ UNCHANGED swept
      BY <1>3, Zenon DEF OidcCreate, At, Typed, RequestsOK, Phased
    <3>2. Shadow \in 0..MaxPassword /\ DOMAIN identity = Subjects
      BY DEF Typed, TypeOK, Shadow
    <3> QED BY <3>1, <3>2, Zenon
  <2>1. ASSUME NEW u \in UserIds, Fresh(users, u), CreateUserWithIdentity(u, n, req[r].sub)
        PROVE  Goal
    <3>1. Writes(u) /\ users'[u].disabled = FALSE /\ users[u] = Unborn
      BY <1>0, <2>0, <2>1, BirthEffect, Zenon DEF CreateUserWithIdentity, Fresh
    <3>2. identity'[req[r].sub] = u
      BY <2>0, <2>1, Zenon DEF CreateUserWithIdentity
    <3> QED BY <2>0, <3>1, <3>2, OthersRemain, Zenon DEF Born, Exists
  <2> QED BY <1>3, <2>0, <2>1, SameRemain, Zenon DEF OidcCreate
<1>4. ASSUME NEW n \in Names, CreateUser(r, n) PROVE Goal
  <2>1. PICK u \in UserIds, role \in NewRoles, must \in BOOLEAN :
          /\ Fresh(users, u)
          /\ users' = [users EXCEPT ![u] = NewUser(n, role, nextPw, must)]
    BY <1>4, Zenon DEF CreateUser
  <2>2. nextPw <= MaxPassword /\ UNCHANGED swept /\ role \in {"admin", "viewer"}
    BY <1>4, Zenon DEF CreateUser
  <2>3. Writes(u) /\ users'[u].disabled = FALSE /\ users'[u].pw = nextPw
    BY <1>0, <2>1, <2>2, PasswordBirthEffect, Zenon
  <2> QED BY <1>0, <2>1, <2>2, <2>3, OthersRemain, Zenon DEF Born, Exists, Fresh
<1>5. ASSUME NEW u \in UserIds, NEW must \in BOOLEAN, NEW patch, SetUserPassword(r, u, must, patch)
      PROVE  Goal
  <2>1. CASE ~Exists(u)
    BY <1>5, <2>1, SameRemain, Zenon DEF SetUserPassword
  <2>2. CASE Exists(u)
    <3>1. /\ nextPw <= MaxPassword
          /\ users' = [users EXCEPT ![u].pw = nextPw, ![u].must = must]
          /\ swept' = [swept EXCEPT ![u] = FALSE]
      BY <1>5, <2>2, Zenon DEF SetUserPassword
    <3>2. Writes(u) /\ SamePerson(u) /\ users'[u].pw = nextPw
      BY <1>0, <2>2, <3>1, PasswordEffect, ZenonT(60)
    <3> QED BY <1>0, <2>2, <3>1, <3>2, OthersRemain, Zenon DEF Remains, NewPassword
  <2> QED BY <2>1, <2>2, Zenon
<1>6. ASSUME NEW u \in UserIds, NEW p \in Patches, UpdateUserGuarded(r, u, p) PROVE Goal
  <2>0. UNCHANGED swept
    BY <1>6, Zenon DEF UpdateUserGuarded
  <2>1. UNCHANGED users \/ (Exists(u) /\ Applies(r, u, p))
    BY <1>6, Zenon DEF UpdateUserGuarded, Patched, Applies
  <2>2. CASE Exists(u) /\ Applies(r, u, p)
    <3>1. Writes(u) /\ users'[u].pw = users[u].pw
      BY <1>0, <2>2, PatchEffect, Zenon DEF Applies
    <3> QED BY <2>0, <2>2, <3>1, OthersRemain, Zenon DEF Remains, SamePassword
  <2> QED BY <2>0, <2>1, <2>2, SameRemain, Zenon
<1>7. ASSUME NEW u \in UserIds, DeleteUser(r, u) PROVE Goal
  <2>1. users' = [users EXCEPT ![u] = Gone] /\ UNCHANGED swept
    BY <1>7, Zenon DEF DeleteUser
  <2>2. v # u /\ Writes(u)
    BY <1>0, <2>1, Zenon DEF TypeOK, Writes, Table, Exists
  <2> QED BY <2>1, <2>2, OthersRemain, Zenon
<1> QED BY <1>1, <1>2, <1>3, <1>4, <1>5, <1>6, <1>7, ZenonT(60) DEF UserStep

-----------------------------------------------------------------------------
(* Sessions that ended, and sessions with an older password.               *)

LEMMA ReadFrame ==
  ASSUME NEW r, ReadStep(r)
  PROVE  boot = "up" /\ UNCHANGED <<users, identity, sessions, boot, guesses, swept, nextPw>>
  BY Zenon DEF ReadStep, Login, LoginUnknown, LoginLookup, OidcCallback, OidcFind, OidcReread,
     Cookie, CookieUser, Serve, ChangePassword, Abort,
     GuardUpdate, GuardDelete, AdminCall, Arrives, At, store

LEMMA SessionFrame ==
  ASSUME NEW r, SessionStep(r)
  PROVE  boot = "up" /\ UNCHANGED <<users, identity, boot, guesses, nextPw>>
  BY Zenon DEF SessionStep, CreateSession, CookieTouch, Logout, SweepSessions, CutOff, RevokeSession,
     AdminCall, At

\* A session that logout, revocation, a password change or the deletion of
\* its user ended stays ended, for any number of refreshes in flight
\* (pg_auth.go:712-757).
THEOREM EndedSessions_StayEnded == Spec => EndedSessionsStayEnded
<1> DEFINE A == \A s \in SessionIds : sessions[s] = Gone => sessions'[s] = Gone
<1>1. ASSUME Typed, Next PROVE A
  <2>1. ASSUME NEW r \in Requests, ReadStep(r) PROVE A
    BY <2>1, ReadFrame, Zenon
  <2>2. ASSUME NEW r \in Requests, SessionStep(r) PROVE A
    BY <1>1, <2>2, SessionSteps, Zenon DEF KeptSession, NewSession
  <2>3. ASSUME NEW r \in Requests, UserStep(r) PROVE A
    BY <1>1, <2>3, UserSessions, Zenon DEF KeptSession
  <2>4. ASSUME OtherStep PROVE A
    BY <1>1, <2>4, OtherSessions, Zenon DEF KeptSession
  <2> QED BY <1>1, <2>1, <2>2, <2>3, <2>4, Cases, Zenon
<1>2. Typed /\ [Next]_vars => [A]_vars
  BY <1>1, Zenon
<1> QED BY <1>2, TypedAlways, PTL DEF Spec, EndedSessionsStayEnded

LEMMA RotationStep ==
  ASSUME Typed, RotationEndsSessions, [Next]_vars PROVE RotationEndsSessions'
<1> DEFINE Fine(s) == Live(s)' => LET u == sessions'[s].user IN
             sessions'[s].proof # users'[u].pw => sessions'[s].late \/ ~swept'[u]
<1>0. \A s \in SessionIds : Live(s) => Exists(sessions[s].user) /\ sessions[s].user \in UserIds
  BY Zenon DEF Typed, TypeOK, Linked, Live, Session
<1>1. ASSUME NEW s \in SessionIds, KeptSession(s), UNCHANGED <<users, swept>> PROVE Fine(s)
  BY <1>1, Zenon DEF KeptSession, RotationEndsSessions
<1>2. ASSUME Next, NEW s \in SessionIds PROVE Fine(s)
  <2>1. ASSUME NEW r \in Requests, ReadStep(r) PROVE Fine(s)
    BY <1>1, <2>1, ReadFrame, SameSessions, Zenon
  <2>2. ASSUME NEW r \in Requests, SessionStep(r) PROVE Fine(s)
    <3>1. CASE SweepSessions(r)
      <4>1. /\ sessions' = WithoutSessionsOf(req[r].target) /\ UNCHANGED users
            /\ swept' = [swept EXCEPT ![req[r].target] = TRUE]
        BY <3>1, Zenon DEF SweepSessions
      <4>2. KeptSession(s) /\ (Live(s)' => sessions'[s].user # req[r].target)
        BY <4>1, EndedSessions, Zenon
      <4>3. DOMAIN swept = UserIds
        BY Zenon DEF Typed, TypeOK
      <4> QED BY <1>0, <4>1, <4>2, <4>3, Zenon DEF KeptSession, RotationEndsSessions
    <3>2. CASE ~SweepSessions(r)
      <4>1. UNCHANGED <<users, swept>>
        BY <2>2, <3>2, Zenon DEF SessionStep, CreateSession, CookieTouch, Logout, CutOff, RevokeSession
      <4>2. CASE NewSession(r, s)
        <5>1. /\ sessions'[s].user = req[r].user /\ sessions'[s].proof = req[r].pw
              /\ sessions'[s].late = (users[req[r].user].pw # req[r].pw)
          BY <4>2 DEF NewSession
        <5> QED BY <4>1, <5>1, Zenon
      <4> QED BY <1>1, <2>2, <4>1, <4>2, SessionSteps, Zenon
    <3> QED BY <3>1, <3>2, Zenon
  <2>3. ASSUME NEW r \in Requests, UserStep(r) PROVE Fine(s)
    <3>0. KeptSession(s) /\ Linked'
      BY <1>2, <2>3, UserSessions, LinkedStep, Zenon
    <3>1. SUFFICES ASSUME Live(s)'
                   PROVE  LET u == sessions'[s].user IN
                          sessions'[s].proof # users'[u].pw => sessions'[s].late \/ ~swept'[u]
      BY Zenon
    <3>2. PICK u \in UserIds :
          /\ Live(s) /\ Exists(u) /\ sessions[s].user = u /\ sessions'[s].user = u
          /\ sessions'[s].proof = sessions[s].proof /\ sessions'[s].late = sessions[s].late
      BY <1>0, <3>0, <3>1, Zenon DEF KeptSession
    <3>3. sessions[s].proof # users[u].pw => sessions[s].late \/ ~swept[u]
      BY <3>2, Zenon DEF RotationEndsSessions
    <3>4. Exists(u)'
      BY <3>0, <3>1, <3>2, Zenon DEF Linked, Exists
    <3>5. SamePassword(u) \/ NewPassword(u)
      BY <2>3, <3>2, <3>4, PersonSteps, Zenon DEF Remains
    <3> QED BY <3>2, <3>3, <3>5, Zenon DEF SamePassword, NewPassword
  <2>4. ASSUME OtherStep PROVE Fine(s)
    <3>0. KeptSession(s)
      BY <2>4, OtherSessions, Zenon
    <3>1. CASE UNCHANGED <<users, swept>>
      BY <1>1, <3>0, <3>1, Zenon
    <3>2. ASSUME NEW u \in UserIds, \A v \in UserIds \ {u} : users'[v] = users[v] /\ swept'[v] = swept[v],
                 ~Exists(u) \/ sessions' = WithoutSessionsOf(u)
          PROVE  Fine(s)
      <4>1. Live(s)' => sessions[s].user \in UserIds \ {u}
        BY <1>0, <3>0, <3>2, EndedSessions DEF KeptSession
      <4> QED BY <3>0, <3>2, <4>1, ZenonT(60) DEF KeptSession, RotationEndsSessions
    <3>3. CASE Bootstrap
      <4>1. DOMAIN users = UserIds
        BY Zenon DEF Typed, TypeOK
      <4>2. ASSUME NEW u \in UserIds, Fresh(users, u), UNCHANGED swept,
                   users' = [users EXCEPT ![u] = NewUser(AdminName, "admin", nextPw, TRUE)]
            PROVE  Fine(s)
        <5>1. \A v \in UserIds \ {u} : users'[v] = users[v] /\ swept'[v] = swept[v]
          BY <4>1, <4>2, Zenon
        <5>2. ~Exists(u)
          BY <4>2, Zenon DEF Fresh, Exists
        <5> QED BY <3>2, <5>1, <5>2, Zenon
      <4> QED BY <3>1, <3>3, <4>2, Zenon DEF Bootstrap
    <3>4. CASE Rescue
      <4>1. DOMAIN swept = UserIds /\ TypeOK
        BY Zenon DEF Typed, TypeOK
      <4>2. ASSUME NEW u \in RescueTargets, nextPw <= MaxPassword, RescueAdmin(u),
                   sessions' = WithoutSessionsOf(u), swept' = [swept EXCEPT ![u] = TRUE]
            PROVE  Fine(s)
        <5>1. u \in UserIds /\ Exists(u)
          BY Zenon DEF RescueTargets
        <5>2. Writes(u)
          BY <4>1, <4>2, <5>1, RescueEffect, Zenon
        <5> QED BY <3>2, <4>1, <4>2, <5>1, <5>2, Zenon DEF Writes
      <4> QED BY <3>1, <3>4, <4>2, Zenon DEF Rescue
    <3> QED
      BY <2>4, <3>1, <3>3, <3>4, ZenonT(60)
         DEF OtherStep, OidcAuthorize, ExpireState, ExpireSession, Crash, store
  <2> QED BY <1>2, <2>1, <2>2, <2>3, <2>4, Cases, Zenon
<1>3. CASE UNCHANGED vars
  BY <1>3, Zenon DEF vars, store, RotationEndsSessions, Live
<1> QED BY <1>2, <1>3, Zenon DEF RotationEndsSessions, Live

\* Once a new password has ended the sessions of its user, a session obtained
\* with an older one comes from a login that overlapped the change, for any
\* number of logins and changes at once (pg_auth.go:310-326).
THEOREM RotationAlwaysEndsSessions == Spec => []RotationEndsSessions
<1>1. Init => RotationEndsSessions
  BY ZenonT(60) DEF Init, RotationEndsSessions, Live
<1> QED BY <1>1, RotationStep, TypedAlways, PTL DEF Spec

-----------------------------------------------------------------------------
(* Shadow users.                                                           *)

LEMMA StrayStep ==
  ASSUME Typed, NoStrayShadowUser, [Next]_vars PROVE NoStrayShadowUser'
<1> DEFINE Fine(u) == Exists(u)' /\ users'[u].pw = Shadow => \E s \in Subjects : identity'[s] = u
<1>1. ASSUME NEW u \in UserIds, UNCHANGED <<users, identity>> PROVE Fine(u)
  BY <1>1, Zenon DEF NoStrayShadowUser, Exists
<1>2. ASSUME NEW r \in Requests, UserStep(r), NEW u \in UserIds PROVE Fine(u)
  <2>1. SUFFICES ASSUME Exists(u)', users'[u].pw = Shadow
                 PROVE  \E s \in Subjects : identity'[s] = u
    BY Zenon
  <2>2. CASE ~Exists(u)
    BY <1>2, <2>1, <2>2, PersonSteps, Zenon DEF Born
  <2>3. CASE Exists(u)
    <3>1. users[u].pw = Shadow
      BY <1>2, <2>1, <2>3, PersonSteps, Zenon DEF Remains, SamePassword, NewPassword
    <3>2. PICK s \in Subjects : identity[s] = u
      BY <2>3, <3>1, Zenon DEF NoStrayShadowUser
    <3>3. CASE UNCHANGED identity
      BY <3>2, <3>3, Zenon
    <3>4. ASSUME NEW v \in UserIds, DeleteUser(r, v) PROVE identity'[s] = u
      <4>1. v # u
        BY <2>1, <3>4, Zenon DEF DeleteUser, Exists, Typed, TypeOK
      <4> QED BY <3>2, <3>4, <4>1, Zenon DEF DeleteUser
    <3>5. ASSUME NEW n \in Names, OidcCreate(r, n) PROVE identity'[s] = u
      <4>1. DOMAIN identity = Subjects /\ u # None
        BY Zenon DEF Typed, TypeOK
      <4>2. UNCHANGED identity \/
              (identity[req[r].sub] = None /\ \E v \in UserIds :
                 identity' = [identity EXCEPT ![req[r].sub] = v])
        BY <3>5, Zenon DEF OidcCreate, CreateUserWithIdentity
      <4> QED BY <3>2, <4>1, <4>2, Zenon
    <3>6. \/ \E v \in UserIds : DeleteUser(r, v)
          \/ \E n \in Names : OidcCreate(r, n)
          \/ UNCHANGED identity
      <4>1. LoginMismatch(r) \/ ResetFailedLogin(r) => UNCHANGED identity
        BY Zenon DEF LoginMismatch, ResetFailedLogin
      <4>2. \A n \in Names : CreateUser(r, n) => UNCHANGED identity
        BY Zenon DEF CreateUser
      <4>3. ASSUME NEW v, NEW must, NEW p, SetUserPassword(r, v, must, p) PROVE UNCHANGED identity
        BY <4>3, Zenon DEF SetUserPassword
      <4>4. ASSUME NEW v, NEW p, UpdateUserGuarded(r, v, p) PROVE UNCHANGED identity
        BY <4>4, Zenon DEF UpdateUserGuarded
      <4> QED BY <1>2, <4>1, <4>2, <4>3, <4>4, Zenon DEF UserStep
    <3> QED BY <3>2, <3>3, <3>4, <3>5, <3>6, Zenon
  <2> QED BY <2>2, <2>3, Zenon
<1>3. ASSUME OtherStep, NEW u \in UserIds PROVE Fine(u)
  <2>0. TypeOK /\ (nextPw <= MaxPassword => nextPw \in 0..MaxPassword /\ nextPw # Shadow)
    BY DEF Typed, TypeOK, Shadow
  <2>1. UNCHANGED identity
    BY <1>3, Zenon DEF OtherStep, OidcAuthorize, ExpireState, ExpireSession, Crash, Bootstrap, Rescue, store
  <2>2. ASSUME NEW v \in UserIds, Writes(v), users'[v].pw = nextPw, nextPw <= MaxPassword
        PROVE  Fine(u)
    BY <2>0, <2>1, <2>2, Zenon DEF Writes, NoStrayShadowUser, Exists
  <2>3. CASE UNCHANGED users
    BY <1>1, <2>1, <2>3, Zenon
  <2>4. CASE Bootstrap
    <3>1. ASSUME NEW v \in UserIds, nextPw <= MaxPassword,
                 users' = [users EXCEPT ![v] = NewUser(AdminName, "admin", nextPw, TRUE)]
          PROVE  Fine(u)
      BY <2>0, <2>2, <3>1, PasswordBirthEffect, Zenon
    <3> QED BY <2>3, <2>4, <3>1, Zenon DEF Bootstrap
  <2>5. CASE Rescue
    <3>1. ASSUME NEW v \in RescueTargets, nextPw <= MaxPassword, RescueAdmin(v) PROVE Fine(u)
      <4>1. v \in UserIds /\ Exists(v)
        BY Zenon DEF RescueTargets
      <4> QED BY <2>0, <2>2, <3>1, <4>1, RescueEffect, Zenon
    <3> QED BY <2>3, <2>5, <3>1, Zenon DEF Rescue
  <2> QED
    BY <1>3, <2>3, <2>4, <2>5, Zenon DEF OtherStep, OidcAuthorize, ExpireState, ExpireSession, Crash, store
<1>4. ASSUME Next, NEW u \in UserIds PROVE Fine(u)
  BY <1>1, <1>2, <1>3, <1>4, ReadFrame, SessionFrame, Cases, Zenon
<1>5. CASE UNCHANGED vars
  BY <1>1, <1>5, ZenonT(60) DEF vars, store, NoStrayShadowUser, Exists
<1> QED BY <1>4, <1>5, Zenon DEF NoStrayShadowUser

\* Parallel first logins and name collisions leave no shadow user without its
\* identity, for any number of rounds, names and logins
\* (auth_handlers.go:246-298).
THEOREM NeverStrayShadowUser == Spec => []NoStrayShadowUser
<1>1. Init => NoStrayShadowUser
  BY DatabasesAssumption, Zenon DEF Init, NoStrayShadowUser, Exists
<1> QED BY <1>1, StrayStep, TypedAlways, PTL DEF Spec

-----------------------------------------------------------------------------
(* Admins.                                                                 *)

\* With the rescue password set, every start ends with an admin that is
\* neither disabled nor locked, whatever the database was like
\* (main.go:1297-1359).
THEOREM RestartAlwaysLeavesUsableAdmin == Spec => RestartLeavesUsableAdmin
<1> DEFINE A == boot = "bootstrapped" /\ boot' = "up" /\ RescuePassword => UsableAdmins' # {}
<1>1. ASSUME Typed, Next, boot = "bootstrapped", boot' = "up", RescuePassword
      PROVE  UsableAdmins' # {}
  <2>0. TypeOK
    BY <1>1, Zenon DEF Typed
  <2>1. Rescue
    <3>1. ASSUME NEW r \in Requests, ReadStep(r) \/ SessionStep(r) PROVE FALSE
      BY <1>1, <3>1, ReadFrame, SessionFrame, Zenon
    <3>2. ASSUME NEW r \in Requests, UserStep(r) PROVE FALSE
      BY <1>1, <3>2, Zenon DEF UserStep, LoginMismatch, ResetFailedLogin, OidcCreate, CreateUser, DeleteUser,
         AdminCall, At
    <3>3. OtherStep
      BY <1>1, <3>1, <3>2, Cases, Zenon
    <3> QED BY <1>1, <3>3, Zenon
            DEF OtherStep, OidcAuthorize, ExpireState, ExpireSession, Crash, Bootstrap
  <2>2. CASE UsableAdmins # {} /\ UNCHANGED users
    BY <2>2, Zenon DEF UsableAdmins, ActiveAdmins, Exists
  <2>3. ASSUME NEW u \in RescueTargets, nextPw <= MaxPassword, RescueAdmin(u)
        PROVE  UsableAdmins' # {}
    <3>1. u \in UserIds /\ Exists(u) /\ users[u].role = "admin"
      BY Zenon DEF RescueTargets
    <3>2. /\ users'[u] \in User /\ users'[u].role = "admin"
          /\ users'[u].disabled = FALSE /\ users'[u].locked = FALSE
      BY <2>0, <2>3, <3>1, RescueEffect, Zenon
    <3>3. (u \in UsableAdmins)'
      BY <3>1, <3>2, Zenon DEF UsableAdmins, ActiveAdmins, Exists
    <3> QED BY <3>3, Zenon
  <2> QED BY <1>1, <2>1, <2>2, <2>3, Zenon DEF Rescue
<1>2. Typed /\ [Next]_vars => [A]_vars
  BY <1>1, Zenon
<1> QED BY <1>2, TypedAlways, PTL DEF Spec, RestartLeavesUsableAdmin

-----------------------------------------------------------------------------
(* Disabled users.                                                         *)

\* A request that began while its user was disabled is not served, since
\* GetUserForAuth, which comes next, still sees the user disabled: whoever
\* enables the user in between lifts the bar.
Barring ==
  \A r \in Requests :
    /\ req[r].pc \in Served => ~req[r].barred
    /\ req[r].pc = "user" /\ req[r].barred /\ Exists(req[r].user) => users[req[r].user].disabled

\* One request moves on, no user changes.
LEMMA BarringMove ==
  ASSUME Typed, Barring, NEW r \in Requests, NEW q, Goto(r, q), UNCHANGED users,
         q.pc \in Served => ~q.barred,
         q.pc = "user" /\ q.barred /\ Exists(q.user) => users[q.user].disabled
  PROVE  Barring'
<1>0. DOMAIN req = Requests
  BY Zenon DEF Typed, TypeOK
<1>1. ASSUME NEW o \in Requests
      PROVE  /\ req'[o].pc \in Served => ~req'[o].barred
             /\ req'[o].pc = "user" /\ req'[o].barred /\ Exists(req'[o].user)
                  => users[req'[o].user].disabled
  BY <1>0, Zenon DEF Goto, Barring
<1> QED BY <1>1, Zenon DEF Barring, Exists

LEMMA BarringPhase ==
  ASSUME Typed, Barring, NEW r \in Requests, NEW q, Goto(r, q), UNCHANGED users,
         q.pc \notin Served \cup {"user"}
  PROVE  Barring'
  BY BarringMove, Zenon

LEMMA BarringRead ==
  ASSUME Typed, Barring, NEW r \in Requests, ReadStep(r) PROVE Barring'
<1>0. UNCHANGED users /\ req[r] \in Request
  BY ReadFrame, Zenon DEF Typed, RequestsOK
<1>1. CASE Done(r)
  BY <1>0, <1>1, BarringPhase, Zenon DEF Done, Idle, Served
<1>2. CASE Login(r) \/ LoginUnknown(r) \/ Serve(r) \/ Abort(r)
  BY <1>0, <1>1, <1>2, BarringPhase, Zenon DEF Login, LoginUnknown, Serve, Abort, Idle, Served
<1>3. ASSUME NEW u \in UserIds, LoginLookup(r, u) PROVE Barring'
  BY <1>0, <1>1, <1>3, BarringPhase, Zenon DEF LoginLookup, Idle, Served
<1>4. ASSUME NEW q \in AuthStates, NEW sub \in Subjects, OidcCallback(r, q, sub) PROVE Barring'
  BY <1>0, <1>4, BarringPhase, Zenon DEF OidcCallback, Idle, Served
<1>5. ASSUME NEW u, Resolve(r, u) PROVE Barring'
  <2>1. [req[r] EXCEPT !.pc = "session", !.user = u, !.pw = users[u].pw].pc = "session"
    BY <1>0, Zenon DEF Request
  <2> QED BY <1>0, <1>5, <2>1, BarringPhase, Zenon DEF Resolve, Served
<1>6. CASE OidcFind(r) \/ OidcReread(r)
  <2>1. /\ [req[r] EXCEPT !.pc = "create"].pc = "create"
        /\ [req[r] EXCEPT !.pc = "create", !.round = @ + 1].pc = "create"
    BY <1>0, Zenon DEF Request
  <2>2. \/ Done(r) \/ \E u : Resolve(r, u)
        \/ Goto(r, [req[r] EXCEPT !.pc = "create"])
        \/ Goto(r, [req[r] EXCEPT !.pc = "create", !.round = @ + 1])
    BY <1>6, Zenon DEF OidcFind, OidcReread
  <2> QED BY <1>0, <1>1, <1>5, <2>1, <2>2, BarringPhase, Zenon DEF Served
<1>7. ASSUME NEW s \in SessionIds, Cookie(r, s) PROVE Barring'
  <2> DEFINE q == [Idle EXCEPT !.pc = "user", !.sid = s, !.user = sessions[s].user,
                               !.barred = users[sessions[s].user].disabled]
  <2>1. q.pc = "user" /\ q.user = sessions[s].user /\ q.barred = users[sessions[s].user].disabled
    BY Zenon DEF Idle
  <2>2. Goto(r, q)
    BY <1>7, Zenon DEF Cookie
  <2> HIDE DEF q
  <2> QED BY <1>0, <2>1, <2>2, BarringMove, Zenon DEF Served
<1>8. CASE CookieUser(r)
  <2> DEFINE u == req[r].user
             pc == IF users[u].must THEN "touchmust" ELSE "touch"
             ad == HasScope(ScopesForRole(users[u].role), "admin")
             q == [req[r] EXCEPT !.pc = pc, !.admin = ad]
  <2>1. req[r].pc = "user" /\ (Done(r) \/ (GetUserForAuth(u) /\ Goto(r, q)))
    BY <1>8, Zenon DEF CookieUser, At
  <2>2. GetUserForAuth(u) => ~req[r].barred
    BY <2>1, Zenon DEF GetUserForAuth, Barring
  <2>3. pc \in {"touch", "touchmust"}
    BY Zenon
  <2> HIDE DEF pc, ad
  <2>4. q.pc = pc /\ q.barred = req[r].barred
    BY <1>0, Zenon DEF Request
  <2> HIDE DEF q, u
  <2> QED BY <1>0, <1>1, <2>1, <2>2, <2>3, <2>4, BarringMove, Zenon DEF Served
<1>9. CASE ChangePassword(r)
  <2>1. [req[r] EXCEPT !.pc = "setpw", !.target = req[r].user].pc = "setpw"
    BY <1>0, Zenon DEF Request
  <2> QED BY <1>0, <1>9, <2>1, BarringPhase, Zenon DEF ChangePassword, Served
<1>10. ASSUME NEW u \in UserIds, NEW p \in Patches, GuardUpdate(r, u, p) PROVE Barring'
  <2>1. [req[r] EXCEPT !.pc = "patch", !.target = u, !.patch = p].pc = "patch"
    BY <1>0, Zenon DEF Request
  <2> QED BY <1>0, <1>1, <1>10, <2>1, BarringPhase, Zenon DEF GuardUpdate, Served
<1>11. ASSUME NEW u \in UserIds, GuardDelete(r, u) PROVE Barring'
  <2>1. [req[r] EXCEPT !.pc = "erase", !.target = u].pc = "erase"
    BY <1>0, Zenon DEF Request
  <2> QED BY <1>0, <1>11, <2>1, BarringPhase, Zenon DEF GuardDelete, Served
<1> QED BY <1>2, <1>3, <1>4, <1>6, <1>7, <1>8, <1>9, <1>10, <1>11, Zenon DEF ReadStep

LEMMA BarringSession ==
  ASSUME Typed, Barring, NEW r \in Requests, SessionStep(r) PROVE Barring'
<1>0. UNCHANGED users /\ req[r] \in Request
  BY SessionFrame, Zenon DEF Typed, RequestsOK
<1>1. CASE Done(r)
  BY <1>0, <1>1, BarringPhase, Zenon DEF Done, Idle, Served
<1>2. ASSUME NEW pc \in {"reset", "guarded"}, Goto(r, [req[r] EXCEPT !.pc = pc]) PROVE Barring'
  <2>1. [req[r] EXCEPT !.pc = pc].pc = pc
    BY <1>0, Zenon DEF Request
  <2> QED BY <1>0, <1>2, <2>1, BarringPhase, Zenon DEF Served
<1>3. CASE CookieTouch(r)
  <2> DEFINE pc == IF req[r].pc = "touch" THEN "handler" ELSE "password page"
             q == [req[r] EXCEPT !.pc = pc]
  <2>1. ~req[r].barred
    BY <1>3, Zenon DEF CookieTouch, Barring, Served
  <2>2. Goto(r, q)
    BY <1>3, Zenon DEF CookieTouch
  <2>3. pc \in Served /\ pc # "user"
    BY Zenon DEF Served
  <2> HIDE DEF pc
  <2>4. q.pc = pc /\ q.barred = req[r].barred
    BY <1>0, Zenon DEF Request
  <2> HIDE DEF q
  <2> QED BY <1>0, <2>1, <2>2, <2>3, <2>4, BarringMove, Zenon
<1> QED BY <1>1, <1>2, <1>3, Zenon
        DEF SessionStep, CreateSession, Logout, SweepSessions, CutOff, RevokeSession

\* In a step that writes a user, the request that makes it goes on to one of
\* these phases, and the others keep their place.
After == {"idle", "reread", "session", "sweep", "cutoff"}
StaysBarred(o) ==
  \/ req'[o].pc \in After
  \/ /\ req'[o].pc = req[o].pc /\ req'[o].user = req[o].user
     /\ req'[o].barred => req[o].barred

LEMMA BarringGuarded ==
  ASSUME Typed, NEW r \in Requests, NEW u \in UserIds, NEW p \in Patches, UpdateUserGuarded(r, u, p)
  PROVE  /\ \A o \in Requests : StaysBarred(o)
         /\ Exists(u) /\ Applies(r, u, p) /\ p.disabled = "no" =>
              \A o \in Requests : req[o].user = u =>
                ~req'[o].barred \/ req'[o].pc \in After
<1> DEFINE c == [req[r] EXCEPT !.pc = "cutoff", !.target = u]
           b(o) == req[o].barred /\ ~(req[o].user = u /\ p.disabled = "no")
           m(o) == [req[o] EXCEPT !.barred = @ /\ ~(req[o].user = u /\ p.disabled = "no")]
           Other == req' = [o \in Requests |-> IF o = r THEN IF p.disabled = "yes" THEN c ELSE Idle
                                               ELSE m(o)]
<1>0. req \in [Requests -> Request]
  BY Zenon DEF Typed, RequestsOK
<1>1. Idle.pc \in After
  BY Zenon DEF Idle, After
<1>2. c.pc \in After
  BY <1>0, Zenon DEF Request, After
<1>3. ASSUME NEW o \in Requests
      PROVE  m(o).pc = req[o].pc /\ m(o).user = req[o].user /\ m(o).barred = b(o)
  BY <1>0 DEF Request
<1>4. Done(r) \/ Other
  BY Zenon DEF UpdateUserGuarded
<1>5. Exists(u) /\ Applies(r, u, p) => Other
  BY Zenon DEF UpdateUserGuarded, Applies
<1> HIDE DEF c, m
<1>6. ASSUME Other, NEW o \in Requests
      PROVE  req'[o].pc \in After \/ req'[o] = m(o)
  BY <1>1, <1>2, <1>6, Zenon
<1>7. ASSUME Done(r), NEW o \in Requests PROVE StaysBarred(o)
  BY <1>0, <1>1, <1>7, Zenon DEF Done, Goto, StaysBarred
<1>8. ASSUME Other, NEW o \in Requests PROVE StaysBarred(o)
  BY <1>3, <1>6, <1>8, Zenon DEF StaysBarred
<1>9. ASSUME Other, p.disabled = "no", NEW o \in Requests, req[o].user = u
      PROVE  ~req'[o].barred \/ req'[o].pc \in After
  BY <1>3, <1>6, <1>9, ZenonT(60)
<1> HIDE DEF Other
<1> QED BY <1>4, <1>5, <1>7, <1>8, <1>9, Zenon

LEMMA BarringPhases ==
  ASSUME Typed, NEW r \in Requests, UserStep(r) PROVE \A o \in Requests : StaysBarred(o)
<1>0. req \in [Requests -> Request]
  BY Zenon DEF Typed, RequestsOK
<1>1. ASSUME NEW q, q.pc \in After, Goto(r, q), NEW o \in Requests
      PROVE  StaysBarred(o)
  BY <1>0, <1>1, Zenon DEF Goto, StaysBarred
<1>2. ASSUME Done(r), NEW o \in Requests PROVE StaysBarred(o)
  <2>1. Idle.pc \in After
    BY Zenon DEF Idle, After
  <2> QED BY <1>1, <1>2, <2>1, Zenon DEF Done
<1>3. ASSUME NEW n \in Names, OidcCreate(r, n), NEW o \in Requests PROVE StaysBarred(o)
  <2>1. /\ [req[r] EXCEPT !.pc = "reread"].pc \in After
        /\ \A u : [req[r] EXCEPT !.pc = "session", !.user = u, !.pw = Shadow].pc
                    \in After
    BY <1>0, Zenon DEF Request, After
  <2> QED BY <1>1, <1>3, <2>1, Zenon DEF OidcCreate
<1>4. ASSUME NEW u, NEW must, NEW p, SetUserPassword(r, u, must, p), NEW o \in Requests
      PROVE  StaysBarred(o)
  <2>1. [req[r] EXCEPT !.pc = "sweep", !.target = u, !.patch = p].pc \in After
    BY <1>0, Zenon DEF Request, After
  <2> QED BY <1>1, <1>2, <1>4, <2>1, Zenon DEF SetUserPassword
<1>5. LoginMismatch(r) \/ ResetFailedLogin(r) => Done(r)
  BY Zenon DEF LoginMismatch, ResetFailedLogin
<1>6. (\A n \in Names : CreateUser(r, n) => Done(r)) /\ (\A u \in UserIds : DeleteUser(r, u) => Done(r))
  BY Zenon DEF CreateUser, DeleteUser
<1> QED BY <1>2, <1>3, <1>4, <1>5, <1>6, BarringGuarded, Zenon DEF UserStep

LEMMA BarringUser ==
  ASSUME Typed, Barring, NEW r \in Requests, UserStep(r) PROVE Barring'
<1>0. \A o \in Requests : StaysBarred(o)
  BY BarringPhases, Zenon
<1>1. ASSUME NEW o \in Requests, req'[o].pc \in Served PROVE ~req'[o].barred
  BY <1>0, <1>1, Zenon DEF StaysBarred, Barring, After, Served
<1>2. ASSUME NEW o \in Requests, req'[o].pc = "user", req'[o].barred,
             NEW u \in UserIds, req'[o].user = u, Exists(u)'
      PROVE  users'[u].disabled
  <2>1. req[o].pc = "user" /\ req[o].user = u /\ req[o].barred
    BY <1>0, <1>2, Zenon DEF StaysBarred, After
  <2>2. users[u] # Unborn
    BY <2>1, Zenon DEF Typed, Linked
  <2>3. Exists(u) /\ Remains(r, u)
    BY <1>2, <2>2, PersonSteps, Zenon DEF Born
  <2>4. users[u].disabled = TRUE
    BY <2>1, <2>3, RowTyped, Zenon DEF Barring, Typed
  <2>5. CASE SamePerson(u)
    BY <2>4, <2>5, Zenon DEF SamePerson
  <2>6. ASSUME NEW p \in Patches, Applies(r, u, p) PROVE users'[u].disabled
    <3>1. users'[u].disabled = Flag(users[u].disabled, p.disabled)
      BY <2>3, <2>6, PatchEffect, ZenonT(60) DEF Applies, Typed
    <3>2. p.disabled # "no"
      BY <1>2, <2>1, <2>3, <2>6, BarringGuarded, Zenon DEF Applies, After
    <3>3. p.disabled \in {"yes", "keep"}
      BY <3>2, Zenon DEF Patch
    <3> QED BY <2>4, <3>1, <3>3, Zenon DEF Flag
  <2> QED BY <2>3, <2>5, <2>6, Zenon DEF Remains
<1>3. RequestsOK'
  BY UserRequests, Zenon
<1>4. ASSUME NEW o \in Requests, req'[o].pc = "user" PROVE req'[o].user \in UserIds
  BY <1>3, <1>4, Zenon DEF RequestsOK, Phased
<1> QED BY <1>1, <1>2, <1>4, Zenon DEF Barring, Exists

LEMMA BarringStep ==
  ASSUME Typed, Barring, [Next]_vars PROVE Barring'
<1>1. CASE UNCHANGED <<users, req>>
  BY <1>1, Zenon DEF Barring, Exists
<1>2. CASE OtherStep
  <2>1. ASSUME \A r \in Requests : req'[r] = Idle PROVE Barring'
    <3>1. \A r \in Requests : req'[r].pc = "idle"
      BY <2>1 DEF Idle
    <3> QED BY <3>1, Zenon DEF Barring, Served
  <2>2. CASE Crash
    BY <2>1, <2>2, Zenon DEF Crash
  <2>3. CASE Bootstrap \/ Rescue
    <3>1. UNCHANGED req /\ boot # "up"
      BY <2>3, Zenon DEF Bootstrap, Rescue
    <3> QED BY <2>1, <3>1, Zenon DEF Typed, RequestsOK
  <2> QED BY <1>1, <1>2, <2>2, <2>3, Zenon DEF OtherStep, OidcAuthorize, ExpireState, ExpireSession
<1> QED BY <1>1, <1>2, BarringRead, BarringSession, BarringUser, Cases, Zenon DEF vars, store

\* A request that begins while its user is disabled is never served, even
\* with a session that a login in flight created after the sessions were
\* ended, for any number of both (middleware.go:340-350).
THEOREM DisabledUserNeverServed == Spec => []DisabledUserNotServed
<1>1. Init => Barring
  <2>1. Init => \A r \in Requests : req[r].pc = "idle"
    BY DEF Init, Idle
  <2> QED BY <2>1, Zenon DEF Barring, Served
<1>2. Barring => DisabledUserNotServed
  BY Zenon DEF Barring, DisabledUserNotServed, Served
<1> QED BY <1>1, <1>2, BarringStep, TypedAlways, PTL DEF Spec

-----------------------------------------------------------------------------
(* Wrong passwords.                                                        *)

\* Requests that passed the check of the lock of u and did not try yet.
Verifying(u) == {r \in Requests : req[r].pc = "verify" /\ req[r].user = u}

Open(u) == Exists(u) /\ ~users[u].locked

\* GuessesBounded is not inductive.  While u is open, the counter has seen
\* every guess but those whose increment failed.  Once it is locked or gone,
\* the guesses yet to come are those of the requests at the verification.
Tallied(u) ==
  /\ users[u] = Unborn => guesses[u] = 0
  /\ Open(u) => guesses[u] <= users[u].failed + faults
  /\ ~Open(u) =>
       guesses[u] + Cardinality(Verifying(u)) <= Threshold - 1 + Cardinality(Requests) + faults

\* What the lemmas use of the number of requests: it is finite, and so is the
\* number of those in one phase.  RequestCount below proves it.
Counting ==
  /\ Cardinality(Requests) \in Nat
  /\ \A R \in SUBSET Requests :
       /\ IsFiniteSet(R) /\ Cardinality(R) \in Nat
       /\ Cardinality(R) <= Cardinality(Requests)
       /\ \A Q \in SUBSET R : Cardinality(Q) <= Cardinality(R)
       /\ \A r \in R : Cardinality(R \ {r}) = Cardinality(R) - 1

\* The quantities that the steps below reckon with.
LEMMA Quantities ==
  ASSUME Counting, Typed, NEW u \in UserIds
  PROVE  /\ guesses[u] \in Nat /\ faults \in Nat
         /\ Verifying(u) \in SUBSET Requests /\ Cardinality(Verifying(u)) \in Nat
         /\ Cardinality(Verifying(u)) <= Cardinality(Requests)
         /\ Exists(u) => users[u].failed \in Nat
         /\ Open(u) => users[u].failed <= Threshold - 1
<1>1. guesses[u] \in Nat /\ faults \in Nat
  BY DEF Typed, TypeOK
<1>2. Verifying(u) \in SUBSET Requests
  BY Zenon DEF Verifying
<1>3. Exists(u) => users[u].failed \in 0..Threshold
  BY RowTyped, Zenon DEF Typed
<1>4. Open(u) => ~(users[u].failed >= Threshold)
  BY Zenon DEF Typed, LockoutConsistent, Open
<1>5. Exists(u) => users[u].failed \in Nat
  BY <1>3
<1>6. Open(u) => users[u].failed <= Threshold - 1
  BY <1>4, <1>5 DEF Open
<1> QED BY <1>1, <1>2, <1>5, <1>6, Zenon DEF Counting

LEMMA QuantitiesNext ==
  ASSUME Counting, Typed', NEW u \in UserIds
  PROVE  /\ guesses'[u] \in Nat /\ faults' \in Nat
         /\ Verifying(u)' \in SUBSET Requests /\ Cardinality(Verifying(u)') \in Nat
         /\ Cardinality(Verifying(u)') <= Cardinality(Requests)
         /\ Exists(u)' => users'[u].failed \in Nat
<1>1. guesses'[u] \in Nat /\ faults' \in Nat
  BY DEF Typed, TypeOK
<1>2. Verifying(u)' \in SUBSET Requests
  BY Zenon DEF Verifying
<1>3. Exists(u)' => users'[u].failed \in 0..Threshold
  BY Zenon DEF Typed, TypeOK, Exists, User
<1>4. Exists(u)' => users'[u].failed \in Nat
  BY <1>3
<1> QED BY <1>1, <1>2, <1>4, Zenon DEF Counting

\* The sums of the lemmas that follow.
LEMMA SumZero ==
  ASSUME NEW d \in Nat, NEW n \in Nat, NEW y \in Nat, d <= n
  PROVE  0 + d <= Threshold - 1 + n + y
  OBVIOUS

LEMMA SumOpen ==
  ASSUME NEW g \in Nat, NEW f \in Nat, NEW d \in Nat, NEW n \in Nat, NEW x \in Nat, NEW y \in Nat,
         x <= y, d <= n, f <= Threshold - 1, g <= f + x
  PROVE  g <= f + y /\ g + d <= Threshold - 1 + n + y
  OBVIOUS

LEMMA SumClosed ==
  ASSUME NEW g \in Nat, NEW c \in Nat, NEW d \in Nat, NEW n \in Nat, NEW x \in Nat, NEW y \in Nat,
         x <= y, d <= c, g + c <= Threshold - 1 + n + x
  PROVE  g + d <= Threshold - 1 + n + y
  OBVIOUS

\* The count starts again.
LEMMA TalliedZero ==
  ASSUME Counting, Typed', NEW u \in UserIds, guesses'[u] = 0 PROVE Tallied(u)'
<1> DEFINE c == Cardinality(Verifying(u)')
           n == Cardinality(Requests)
<1>1. /\ faults' \in Nat /\ c \in Nat /\ n \in Nat /\ c <= n
      /\ Exists(u)' => users'[u].failed \in Nat
  BY QuantitiesNext, Zenon DEF Counting
<1> HIDE DEF c, n
<1>2. Open(u)' => 0 <= users'[u].failed + faults'
  BY <1>1 DEF Open
<1>3. 0 + c <= Threshold - 1 + n + faults'
  BY <1>1, SumZero, Zenon
<1> QED BY <1>2, <1>3, Zenon DEF Tallied, c, n

\* No guess: an open user stays so with its counter or is closed, and a
\* closed one stays so while no request passes its check.
NoGuess(u) ==
  /\ guesses'[u] = guesses[u]
  /\ users'[u] = Unborn => users[u] = Unborn
  /\ Open(u)' => Open(u) /\ users'[u].failed = users[u].failed
  /\ ~Open(u) => Verifying(u)' \subseteq Verifying(u)

LEMMA TalliedSame ==
  ASSUME Counting, Typed, Typed', NEW u \in UserIds, Tallied(u), NoGuess(u), faults' >= faults
  PROVE  Tallied(u)'
<1> DEFINE c == Cardinality(Verifying(u))
           d == Cardinality(Verifying(u)')
           n == Cardinality(Requests)
           g == guesses[u]
           f == users[u].failed
<1>1. /\ faults \in Nat /\ faults' \in Nat /\ g \in Nat /\ c \in Nat /\ d \in Nat /\ n \in Nat
      /\ d <= n /\ (Open(u) => f \in Nat /\ f <= Threshold - 1)
  BY Quantities, QuantitiesNext, Zenon DEF Open, Counting
<1>2. ~Open(u) => d <= c
  BY Quantities, Zenon DEF NoGuess, Counting
<1>3. /\ Open(u) => g <= f + faults
      /\ ~Open(u) => g + c <= Threshold - 1 + n + faults
  BY Zenon DEF Tallied
<1>4. guesses'[u] = g
  BY Zenon DEF NoGuess
<1>5. Open(u)' => users'[u].failed = f /\ Open(u)
  BY Zenon DEF NoGuess
<1> HIDE DEF c, d, n, g, f
<1>6. Open(u) => g <= f + faults' /\ g + d <= Threshold - 1 + n + faults'
  BY <1>1, <1>3, SumOpen, Zenon
<1>7. ~Open(u) => g + d <= Threshold - 1 + n + faults'
  BY <1>1, <1>2, <1>3, SumClosed, Zenon
<1>8. users'[u] = Unborn => g = 0
  BY Zenon DEF NoGuess, Tallied, g
<1> QED BY <1>4, <1>5, <1>6, <1>7, <1>8, Zenon DEF Tallied, d, n

\* A guess on u.
LEMMA TalliedGuess ==
  ASSUME Counting, Typed, Typed', NEW r \in Requests, LoginMismatch(r), NEW u \in UserIds, u = req[r].user,
         Tallied(u)
  PROVE  Tallied(u)'
<1> DEFINE c == Cardinality(Verifying(u))
           d == Cardinality(Verifying(u)')
           n == Cardinality(Requests)
           g == guesses[u]
           f == users[u].failed
<1>0. /\ guesses'[u] = g + 1 /\ Verifying(u)' = Verifying(u) \ {r} /\ r \in Verifying(u)
      /\ users[u] # Unborn
  <2>1. DOMAIN guesses = UserIds /\ DOMAIN req = Requests
    BY Zenon DEF Typed, TypeOK
  <2>2. guesses'[u] = g + 1
    BY <2>1, Zenon DEF LoginMismatch
  <2>3. r \in Verifying(u)
    BY Zenon DEF LoginMismatch, At, Verifying
  <2>4. Verifying(u)' = Verifying(u) \ {r}
    BY <2>1, Zenon DEF LoginMismatch, Verifying, Done, Goto, Idle
  <2>5. users[u] # Unborn
    BY Zenon DEF Typed, Linked
  <2> QED BY <2>2, <2>3, <2>4, <2>5, Zenon
<1>1. /\ faults \in Nat /\ g \in Nat /\ c \in Nat /\ n \in Nat /\ c <= n
      /\ Open(u) => f \in Nat /\ f <= Threshold - 1
  BY Quantities, Zenon DEF Open, Counting
<1>2. d = c - 1
  BY <1>0, Quantities, Zenon DEF Counting
<1>3. /\ Open(u) => g <= f + faults
      /\ ~Open(u) => g + c <= Threshold - 1 + n + faults
  BY Zenon DEF Tallied
<1>4. \/ UNCHANGED users /\ ~Open(u) /\ faults' = faults
      \/ UNCHANGED users /\ faults' = faults + 1
      \/ Open(u) /\ IncrementFailedLogin(u) /\ faults' = faults
  BY Zenon DEF LoginMismatch, IncrementFailedLogin, Open
<1>5. users'[u] # Unborn
  BY <1>0, <1>4, IncrementEffect, Zenon DEF Open, Typed
<1>6. CASE UNCHANGED users /\ ~Open(u) /\ faults' = faults
  <2>1. ~Open(u)'
    BY <1>6, Zenon DEF Open, Exists
  <2>2. (g + 1) + d <= Threshold - 1 + n + faults
    <3> HIDE DEF g, c, d, n
    <3> QED BY <1>1, <1>2, <1>3, <1>6
  <2> QED BY <1>0, <1>5, <1>6, <2>1, <2>2, Zenon DEF Tallied
<1>7. CASE UNCHANGED users /\ faults' = faults + 1
  <2>1. Open(u)' <=> Open(u)
    BY <1>7, Zenon DEF Open, Exists
  <2>2. /\ Open(u) => g + 1 <= f + (faults + 1)
        /\ ~Open(u) => (g + 1) + d <= Threshold - 1 + n + (faults + 1)
    <3> HIDE DEF g, c, d, n, f
    <3> QED BY <1>1, <1>2, <1>3
  <2> QED BY <1>0, <1>5, <1>7, <2>1, <2>2, Zenon DEF Tallied
<1>8. CASE Open(u) /\ IncrementFailedLogin(u) /\ faults' = faults
  <2>1. users'[u].failed = f + 1
    BY <1>8, IncrementEffect, Zenon DEF Open, Typed
  <2>2. g + 1 <= (f + 1) + faults /\ (g + 1) + d <= Threshold - 1 + n + faults
    <3> HIDE DEF g, c, d, n, f
    <3> QED BY <1>1, <1>2, <1>3, <1>8
  <2> QED BY <1>0, <1>5, <1>8, <2>1, <2>2, Zenon DEF Tallied
<1> QED BY <1>4, <1>6, <1>7, <1>8, Zenon

LEMMA VerifyingMove ==
  ASSUME Typed, NEW r \in Requests, NEW q, Goto(r, q), NEW u, q.pc # "verify" \/ q.user # u
  PROVE  Verifying(u)' \subseteq Verifying(u)
  BY Zenon DEF Typed, TypeOK, Goto, Verifying

LEMMA VerifyingRead ==
  ASSUME Typed, NEW r \in Requests, ReadStep(r), NEW u \in UserIds, ~Open(u)
  PROVE  Verifying(u)' \subseteq Verifying(u)
<1> DEFINE Fine == Verifying(u)' \subseteq Verifying(u)
<1>0. req[r] \in Request
  BY Zenon DEF Typed, RequestsOK
<1>1. CASE Done(r)
  BY <1>1, VerifyingMove DEF Done, Idle
<1>2. CASE Login(r) \/ LoginUnknown(r) \/ Serve(r) \/ Abort(r)
  <2>1. [Idle EXCEPT !.pc = "lookup"].pc = "lookup"
    BY Zenon DEF Idle
  <2> QED BY <1>1, <1>2, <2>1, VerifyingMove, Zenon DEF Login, LoginUnknown, Serve, Abort
<1>3. ASSUME NEW v \in UserIds, LoginLookup(r, v) PROVE Fine
  <2>1. CASE users[v].locked
    BY <1>1, <1>3, <2>1, Zenon DEF LoginLookup
  <2>2. CASE ~users[v].locked
    <3>1. v # u
      BY <1>3, <2>2, Zenon DEF LoginLookup, Open
    <3>2. [Idle EXCEPT !.pc = "verify", !.user = v, !.pw = users[v].pw].user = v
      BY Zenon DEF Idle
    <3> QED BY <1>3, <2>2, <3>1, <3>2, VerifyingMove, Zenon DEF LoginLookup
  <2> QED BY <2>1, <2>2, Zenon
<1>4. ASSUME NEW q \in AuthStates, NEW sub \in Subjects, OidcCallback(r, q, sub) PROVE Fine
  <2>1. [Idle EXCEPT !.pc = "find", !.sub = sub, !.round = 1].pc = "find"
    BY Zenon DEF Idle
  <2> QED BY <1>4, <2>1, VerifyingMove, Zenon DEF OidcCallback
<1>5. ASSUME NEW v, Resolve(r, v) PROVE Fine
  <2>1. [req[r] EXCEPT !.pc = "session", !.user = v, !.pw = users[v].pw].pc = "session"
    BY <1>0, Zenon DEF Request
  <2> QED BY <1>5, <2>1, VerifyingMove, Zenon DEF Resolve
<1>6. CASE OidcFind(r) \/ OidcReread(r)
  <2>1. /\ [req[r] EXCEPT !.pc = "create"].pc = "create"
        /\ [req[r] EXCEPT !.pc = "create", !.round = @ + 1].pc = "create"
    BY <1>0, Zenon DEF Request
  <2>2. \/ Done(r) \/ \E v : Resolve(r, v)
        \/ Goto(r, [req[r] EXCEPT !.pc = "create"])
        \/ Goto(r, [req[r] EXCEPT !.pc = "create", !.round = @ + 1])
    BY <1>6, Zenon DEF OidcFind, OidcReread
  <2> QED BY <1>1, <1>5, <2>1, <2>2, VerifyingMove, Zenon
<1>7. ASSUME NEW s \in SessionIds, Cookie(r, s) PROVE Fine
  <2>1. [Idle EXCEPT !.pc = "user", !.sid = s, !.user = sessions[s].user,
                     !.barred = users[sessions[s].user].disabled].pc = "user"
    BY Zenon DEF Idle
  <2> QED BY <1>7, <2>1, VerifyingMove, Zenon DEF Cookie
<1>8. CASE CookieUser(r)
  <2> DEFINE pc == IF users[req[r].user].must THEN "touchmust" ELSE "touch"
             ad == HasScope(ScopesForRole(users[req[r].user].role), "admin")
  <2>1. Done(r) \/ Goto(r, [req[r] EXCEPT !.pc = pc, !.admin = ad])
    BY <1>8, Zenon DEF CookieUser
  <2>2. pc # "verify"
    BY Zenon
  <2> HIDE DEF pc, ad
  <2>3. [req[r] EXCEPT !.pc = pc, !.admin = ad].pc = pc
    BY <1>0, Zenon DEF Request
  <2> QED BY <1>1, <2>1, <2>2, <2>3, VerifyingMove, Zenon
<1>9. CASE ChangePassword(r)
  <2>1. [req[r] EXCEPT !.pc = "setpw", !.target = req[r].user].pc = "setpw"
    BY <1>0, Zenon DEF Request
  <2> QED BY <1>9, <2>1, VerifyingMove, Zenon DEF ChangePassword
<1>10. ASSUME NEW v \in UserIds, NEW p \in Patches, GuardUpdate(r, v, p) PROVE Fine
  <2>1. [req[r] EXCEPT !.pc = "patch", !.target = v, !.patch = p].pc = "patch"
    BY <1>0, Zenon DEF Request
  <2> QED BY <1>1, <1>10, <2>1, VerifyingMove, Zenon DEF GuardUpdate
<1>11. ASSUME NEW v \in UserIds, GuardDelete(r, v) PROVE Fine
  <2>1. [req[r] EXCEPT !.pc = "erase", !.target = v].pc = "erase"
    BY <1>0, Zenon DEF Request
  <2> QED BY <1>11, <2>1, VerifyingMove, Zenon DEF GuardDelete
<1> QED BY <1>2, <1>3, <1>4, <1>6, <1>7, <1>8, <1>9, <1>10, <1>11, Zenon DEF ReadStep

LEMMA VerifyingSession ==
  ASSUME Typed, NEW r \in Requests, SessionStep(r), NEW u \in UserIds
  PROVE  Verifying(u)' \subseteq Verifying(u)
<1>0. req[r] \in Request
  BY Zenon DEF Typed, RequestsOK
<1>1. CASE Done(r)
  BY <1>1, VerifyingMove DEF Done, Idle
<1>2. ASSUME NEW pc \in {"reset", "guarded", "handler", "password page"},
             Goto(r, [req[r] EXCEPT !.pc = pc])
      PROVE  Verifying(u)' \subseteq Verifying(u)
  <2>1. [req[r] EXCEPT !.pc = pc].pc = pc
    BY <1>0, Zenon DEF Request
  <2> QED BY <1>2, <2>1, VerifyingMove, Zenon
<1>3. CASE CookieTouch(r)
  <2> DEFINE pc == IF req[r].pc = "touch" THEN "handler" ELSE "password page"
  <2>1. Goto(r, [req[r] EXCEPT !.pc = pc])
    BY <1>3, Zenon DEF CookieTouch
  <2>2. pc \in {"handler", "password page"}
    BY Zenon
  <2> HIDE DEF pc
  <2> QED BY <1>2, <2>1, <2>2, Zenon
<1> QED BY <1>1, <1>2, <1>3, Zenon
        DEF SessionStep, CreateSession, Logout, SweepSessions, CutOff, RevokeSession

LEMMA VerifyingUser ==
  ASSUME Typed, NEW r \in Requests, UserStep(r), NEW u \in UserIds
  PROVE  Verifying(u)' \subseteq Verifying(u)
  BY BarringPhases, Zenon DEF Verifying, StaysBarred, After

\* The row of u and its count in a step that writes users.
LEMMA GuessSteps ==
  ASSUME Typed, NEW r \in Requests, UserStep(r), NEW u \in UserIds, Tallied(u)
  PROVE  guesses'[u] = 0 \/ NoGuess(u) \/ (LoginMismatch(r) /\ u = req[r].user)
<1> DEFINE Goal == guesses'[u] = 0 \/ NoGuess(u) \/ (LoginMismatch(r) /\ u = req[r].user)
<1>0. TypeOK /\ LockoutConsistent /\ DOMAIN guesses = UserIds /\ DOMAIN users = UserIds
  BY Zenon DEF Typed, TypeOK
<1>1. /\ users'[u] = Unborn => users[u] = Unborn
      /\ Verifying(u)' \subseteq Verifying(u)
  BY UserRows, VerifyingUser, Zenon DEF RowsKept
<1>2. ASSUME guesses'[u] = guesses[u], users'[u] = users[u] PROVE Goal
  BY <1>1, <1>2, Zenon DEF NoGuess, Open, Exists
<1>3. ASSUME guesses'[u] = guesses[u], users[u] = Unborn PROVE Goal
  BY <1>3, Zenon DEF Tallied
<1>4. ASSUME guesses'[u] = guesses[u], Exists(u), users'[u].failed = users[u].failed,
             users'[u].locked = users[u].locked
      PROVE  Goal
  BY <1>1, <1>4, Zenon DEF NoGuess, Open
<1>5. CASE LoginMismatch(r)
  <2>0. u # req[r].user => guesses'[u] = guesses[u]
    BY <1>0, <1>5, Zenon DEF LoginMismatch
  <2>1. req[r].user \in UserIds
    BY <1>5, Zenon DEF LoginMismatch, At, Typed, RequestsOK, Phased
  <2>2. UNCHANGED users \/ (Exists(req[r].user) /\ IncrementFailedLogin(req[r].user))
    BY <1>5, Zenon DEF LoginMismatch
  <2>3. UNCHANGED users \/ Writes(req[r].user)
    BY <1>0, <2>1, <2>2, IncrementEffect, Zenon
  <2>4. u # req[r].user => users'[u] = users[u]
    BY <2>3, Zenon DEF Writes
  <2> QED BY <1>2, <1>5, <2>0, <2>4, Zenon
<1>6. CASE ResetFailedLogin(r)
  <2>1. req[r].user \in UserIds
    BY <1>6, Zenon DEF ResetFailedLogin, At, Typed, RequestsOK, Phased
  <2>2. UNCHANGED users \/ (Exists(req[r].user) /\ users' = Unlocked(req[r].user))
    BY <1>6, Zenon DEF ResetFailedLogin
  <2>5. UNCHANGED users \/ Writes(req[r].user)
    BY <1>0, <2>1, <2>2, UnlockEffect, Zenon
  <2>3. u # req[r].user => users'[u] = users[u]
    BY <2>5, Zenon DEF Writes
  <2>4. guesses'[u] = (IF u = req[r].user THEN 0 ELSE guesses[u])
    BY <1>0, <1>6, Zenon DEF ResetFailedLogin
  <2> QED BY <1>2, <2>3, <2>4, Zenon
<1>7. ASSUME NEW v \in UserIds, NEW row, users[v] = Unborn, users' = [users EXCEPT ![v] = row],
             UNCHANGED guesses
      PROVE  Goal
  <2>1. CASE u = v
    BY <1>3, <1>7, <2>1, Zenon
  <2>2. CASE u # v
    BY <1>0, <1>2, <1>7, <2>2, Zenon
  <2> QED BY <2>1, <2>2, Zenon
<1>8. ASSUME NEW n \in Names, OidcCreate(r, n) \/ CreateUser(r, n) PROVE Goal
  <2>1. UNCHANGED guesses /\ (UNCHANGED users \/
          \E v \in UserIds : \E row : users[v] = Unborn /\ users' = [users EXCEPT ![v] = row])
    BY <1>8, Zenon DEF OidcCreate, CreateUser, CreateUserWithIdentity, Fresh
  <2> QED BY <1>2, <1>7, <2>1, Zenon
<1>9. ASSUME NEW v \in UserIds, NEW must \in BOOLEAN, NEW p, SetUserPassword(r, v, must, p)
      PROVE  Goal
  <2>0. UNCHANGED guesses
    BY <1>9, Zenon DEF SetUserPassword
  <2>1. CASE ~Exists(v)
    BY <1>2, <1>9, <2>0, <2>1, Zenon DEF SetUserPassword
  <2>2. CASE Exists(v)
    <3>1. nextPw \in 0..MaxPassword /\ users' = [users EXCEPT ![v].pw = nextPw, ![v].must = must]
      BY <1>0, <1>9, <2>2 DEF SetUserPassword, TypeOK
    <3>2. /\ Writes(v)
          /\ users'[v].failed = users[v].failed /\ users'[v].locked = users[v].locked
      BY <1>0, <2>2, <3>1, PasswordEffect, Zenon
    <3> QED BY <1>2, <1>4, <2>0, <2>2, <3>2, ZenonT(60) DEF Writes
  <2> QED BY <2>1, <2>2, Zenon
<1>10. ASSUME NEW v \in UserIds, NEW p \in Patches, UpdateUserGuarded(r, v, p) PROVE Goal
  <2>1. \/ UNCHANGED users /\ UNCHANGED guesses
        \/ /\ Exists(v) /\ Patched(v, p)
           /\ guesses' = [guesses EXCEPT ![v] = IF p.unlock THEN 0 ELSE @]
    BY <1>10, Zenon DEF UpdateUserGuarded, Patched
  <2>2. CASE /\ Exists(v) /\ Patched(v, p)
             /\ guesses' = [guesses EXCEPT ![v] = IF p.unlock THEN 0 ELSE @]
    <3>1. /\ Writes(v)
          /\ users'[v].failed = (IF p.unlock THEN 0 ELSE users[v].failed)
          /\ users'[v].locked = (IF p.unlock THEN FALSE ELSE users[v].locked)
      BY <1>0, <2>2, PatchEffect, Zenon
    <3>2. guesses'[u] = (IF u = v THEN IF p.unlock THEN 0 ELSE guesses[v] ELSE guesses[u])
      BY <1>0, <2>2, Zenon
    <3>3. CASE u # v
      BY <1>2, <3>1, <3>2, <3>3, Zenon DEF Writes
    <3>4. CASE u = v /\ p.unlock
      BY <3>2, <3>4, Zenon
    <3>5. CASE u = v /\ ~p.unlock
      BY <1>4, <2>2, <3>1, <3>2, <3>5, Zenon
    <3> QED BY <3>3, <3>4, <3>5, Zenon
  <2> QED BY <1>2, <2>1, <2>2, Zenon
<1>11. ASSUME NEW v \in UserIds, DeleteUser(r, v) PROVE Goal
  <2>1. UNCHANGED guesses /\ users' = [users EXCEPT ![v] = Gone]
    BY <1>11, Zenon DEF DeleteUser
  <2>2. CASE u # v
    BY <1>0, <1>2, <2>1, <2>2, Zenon
  <2>3. CASE u = v
    <3>1. ~Open(u)'
      BY <1>0, <2>1, <2>3, Zenon DEF Open, Exists
    <3> QED BY <1>1, <2>1, <3>1, Zenon DEF NoGuess
  <2> QED BY <2>2, <2>3, Zenon
<1> QED BY <1>5, <1>6, <1>8, <1>9, <1>10, <1>11, ZenonT(60) DEF UserStep

Counted == \A u \in UserIds : Tallied(u)

LEMMA CountedStep ==
  ASSUME Counting, Typed, Counted, [Next]_vars PROVE Counted'
<1>0. Typed'
  BY TypedStep, Zenon
<1>1. faults' >= faults
  <2>1. faults' = faults \/ faults' = faults + 1
    <3>1. ASSUME NEW r \in Requests, ReadStep(r) PROVE faults' = faults \/ faults' = faults + 1
      BY <3>1, Zenon DEF ReadStep, Login, LoginUnknown, LoginLookup, OidcCallback, OidcFind, OidcReread,
         Cookie, CookieUser, Serve, ChangePassword, Abort,
         GuardUpdate, GuardDelete
    <3>2. ASSUME NEW r \in Requests, SessionStep(r) PROVE faults' = faults \/ faults' = faults + 1
      BY <3>2, Zenon DEF SessionStep, CreateSession, CookieTouch, Logout, SweepSessions, CutOff,
         RevokeSession
    <3>3. ASSUME NEW r \in Requests, UserStep(r) PROVE faults' = faults \/ faults' = faults + 1
      BY <3>3, UserFrames, Zenon DEF UserFrame
    <3>4. ASSUME OtherStep PROVE faults' = faults \/ faults' = faults + 1
      BY <3>4, Zenon DEF OtherStep, OidcAuthorize, ExpireState, ExpireSession, Crash, Bootstrap, Rescue
    <3> QED BY <3>1, <3>2, <3>3, <3>4, Cases, Zenon DEF vars
  <2>2. faults \in Nat
    BY DEF Typed, TypeOK
  <2> QED BY <2>1, <2>2
<1>2. ASSUME NEW u \in UserIds PROVE Tallied(u)'
  <2>0. Tallied(u)
    BY Zenon DEF Counted
  <2>1. CASE NoGuess(u)
    BY <1>0, <1>1, <2>0, <2>1, TalliedSame, Zenon
  <2>2. CASE guesses'[u] = 0
    BY <1>0, <2>2, TalliedZero, Zenon
  <2>3. ASSUME NEW r \in Requests, UserStep(r) PROVE Tallied(u)'
    BY <1>0, <2>0, <2>1, <2>2, <2>3, GuessSteps, TalliedGuess, Zenon
  <2>4. ASSUME UNCHANGED <<users, guesses>>, ~Open(u) => Verifying(u)' \subseteq Verifying(u)
        PROVE  NoGuess(u)
    BY <2>4, Zenon DEF NoGuess, Open, Exists
  <2>5. ASSUME NEW r \in Requests, ReadStep(r) \/ SessionStep(r) PROVE Tallied(u)'
    BY <2>1, <2>4, <2>5, ReadFrame, SessionFrame, VerifyingRead, VerifyingSession, Zenon
  <2>6. CASE OtherStep
    <3>1. Verifying(u)' \subseteq Verifying(u)
      <4>1. UNCHANGED req \/ Crash
        BY <2>6, Zenon DEF OtherStep, OidcAuthorize, ExpireState, ExpireSession, Bootstrap, Rescue
      <4>2. CASE UNCHANGED req
        BY <4>2, Zenon DEF Verifying
      <4>3. CASE Crash
        BY <4>3, Zenon DEF Crash, Verifying, Idle
      <4> QED BY <4>1, <4>2, <4>3, Zenon
    <3>2. DOMAIN users = UserIds /\ DOMAIN guesses = UserIds /\ TypeOK
      BY Zenon DEF Typed, TypeOK
    <3>3. CASE Bootstrap
      <4>1. UNCHANGED guesses
        BY <3>3, Zenon DEF Bootstrap
      <4>2. ASSUME NEW v \in UserIds, NEW row, Fresh(users, v), users' = [users EXCEPT ![v] = row]
            PROVE  Tallied(u)'
        <5>1. CASE u = v
          BY <2>0, <2>2, <4>1, <4>2, <5>1, Zenon DEF Tallied, Fresh
        <5>2. CASE u # v
          <6>1. users'[u] = users[u]
            BY <3>2, <4>2, <5>2, Zenon
          <6> QED BY <2>1, <3>1, <4>1, <6>1, Zenon DEF NoGuess, Open, Exists
        <5> QED BY <5>1, <5>2, Zenon
      <4> QED BY <2>1, <2>4, <3>1, <3>3, <4>1, <4>2, Zenon DEF Bootstrap
    <3>4. CASE Rescue
      <4>1. ASSUME NEW v \in RescueTargets, nextPw <= MaxPassword, RescueAdmin(v),
                   guesses' = [guesses EXCEPT ![v] = 0]
            PROVE  Tallied(u)'
        <5>1. v \in UserIds /\ Exists(v)
          BY Zenon DEF RescueTargets
        <5>2. Writes(v)
          BY <3>2, <4>1, <5>1, RescueEffect, Zenon
        <5>3. CASE u = v
          BY <2>2, <3>2, <4>1, <5>1, <5>3, Zenon
        <5>4. CASE u # v
          <6>1. users'[u] = users[u] /\ guesses'[u] = guesses[u]
            BY <3>2, <4>1, <5>2, <5>4, Zenon DEF Writes
          <6> QED BY <2>1, <3>1, <6>1, Zenon DEF NoGuess, Open, Exists
        <5> QED BY <5>3, <5>4, Zenon
      <4> QED BY <2>1, <2>4, <3>1, <3>4, <4>1, Zenon DEF Rescue
    <3> QED BY <2>1, <2>4, <2>6, <3>1, <3>3, <3>4, ZenonT(60)
            DEF OtherStep, OidcAuthorize, ExpireState, ExpireSession, Crash, store
  <2>7. CASE UNCHANGED vars
    BY <2>1, <2>4, <2>7, Zenon DEF vars, store, Verifying
  <2> QED BY <2>3, <2>5, <2>6, <2>7, Cases, Zenon
<1> QED BY <1>2, Zenon DEF Counted

-----------------------------------------------------------------------------
(* The theorems on finite sets come last: every proof after them is slower.*)

FS == INSTANCE FiniteSetTheorems

LEMMA SameFinite == \A S : FS!IsFiniteSet(S) <=> IsFiniteSet(S)
  BY Zenon DEF IsFiniteSet, FS!IsFiniteSet

LEMMA SameCount == \A S : FS!Cardinality(S) = Cardinality(S)
  BY Zenon DEF Cardinality, FS!Cardinality

LEMMA RequestCount == Counting
<1>1. \A R \in SUBSET Requests : IsFiniteSet(R) /\ Cardinality(R) <= Cardinality(Requests)
  BY SameFinite, SameCount, FS!FS_Subset, Zenon
<1>2. \A R \in SUBSET Requests : \A Q \in SUBSET R : Cardinality(Q) <= Cardinality(R)
  BY <1>1, SameFinite, SameCount, FS!FS_Subset, ZenonT(60)
<1>3. \A R \in SUBSET Requests : \A r \in R : Cardinality(R \ {r}) = Cardinality(R) - 1
  BY <1>1, SameFinite, SameCount, FS!FS_RemoveElement, ZenonT(60)
<1> QED BY <1>1, <1>2, <1>3, SameFinite, SameCount, FS!FS_CardinalityType, ZenonT(60)
          DEF Counting

\* Between two resets no more than Threshold wrong passwords are tried on a
\* user, but for the requests that had passed the check when the lock fell and
\* the increments that failed, for any threshold and any number of requests
\* (auth_handlers.go:400-421).
THEOREM GuessesAlwaysBounded == Spec => []GuessesBounded
<1>1. Init => Counted
  <2> SUFFICES ASSUME Init, NEW u \in UserIds PROVE Tallied(u)
    BY Zenon DEF Counted
  <2>1. Typed
    BY TypedInit, Zenon
  <2>2. guesses[u] = 0 /\ faults = 0
    BY Zenon DEF Init
  <2> DEFINE c == Cardinality(Verifying(u))
             n == Cardinality(Requests)
  <2>3. c \in Nat /\ n \in Nat /\ c <= n /\ (Exists(u) => users[u].failed \in Nat)
    BY <2>1, Quantities, RequestCount, ZenonT(60) DEF Counting
  <2> HIDE DEF c, n
  <2>4. 0 + c <= Threshold - 1 + n + 0
    BY <2>3, SumZero, ZenonT(60)
  <2>5. Open(u) => 0 <= users[u].failed + 0
    BY <2>3 DEF Open
  <2> QED BY <2>2, <2>4, <2>5, ZenonT(60) DEF Tallied, c, n
<1>2. ASSUME Typed, Counted PROVE GuessesBounded
  <2> SUFFICES ASSUME NEW u \in UserIds
               PROVE  guesses[u] <= Threshold - 1 + Cardinality(Requests) + faults
    BY Zenon DEF GuessesBounded
  <2> DEFINE g == guesses[u]
             f == users[u].failed
             c == Cardinality(Verifying(u))
             n == Cardinality(Requests)
  <2>1. /\ g \in Nat /\ faults \in Nat /\ c \in Nat /\ n \in Nat
        /\ Open(u) => f \in Nat /\ f <= Threshold - 1
    BY <1>2, Quantities, RequestCount, ZenonT(60) DEF Open, Counting
  <2>2. /\ Open(u) => g <= f + faults
        /\ ~Open(u) => g + c <= Threshold - 1 + n + faults
    BY <1>2, ZenonT(60) DEF Counted, Tallied
  <2> HIDE DEF g, f, c, n
  <2>3. g <= Threshold - 1 + n + faults
    BY <2>1, <2>2
  <2> QED BY <2>3, Zenon DEF g, n
<1> QED BY <1>1, <1>2, RequestCount, CountedStep, TypedAlways, PTL DEF Spec
=============================================================================
