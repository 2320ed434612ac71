------------------------------- MODULE Access -------------------------------
(***************************************************************************)
(* Requests against one row of the inventory, from the authentication      *)
(* middleware to the audit log: who is let in (internal/auth/middleware.go)*)
(* what the statements of the handlers do to the row while other requests  *)
(* run between them, how the request is answered, and whether the audit    *)
(* middleware (internal/api/audit.go) writes it down.                      *)
(*                                                                         *)
(* Routes names every route of the server with the plans of its handler;   *)
(* `subject` is the table the row is in, and only routes on that table     *)
(* arrive.  A row has a value, what its business columns say, and is live  *)
(* or has ended (terminated, disabled, revoked).                           *)
(*                                                                         *)
(* When the row is an API token, the MCP server uses it too (McpAuth).     *)
(***************************************************************************)
EXTENDS Routes, McpAuth, FiniteSets

CONSTANTS Slots,      \* requests in progress at once
          Values,     \* what the business columns of a row may say
          Tables      \* the tables looked at

Surveyed == {route.table : route \in Surface}

ASSUME AccessAssumption ==
    Values # {} /\ "none" \notin Values /\ Tables \subseteq Surveyed

VARIABLES subject, row, slots

vars == <<subject, row, slots, mcpVars>>

Absent == [val |-> "none", live |-> FALSE]
LiveRow(v) == [val |-> v, live |-> TRUE]
Row == [val : Values, live : BOOLEAN] \cup {Absent}
Ended(r) == [r EXCEPT !.live = FALSE]

(***************************************************************************)
(* Callers and the authentication middleware.                              *)
(***************************************************************************)
ScopesForRole ==
    [admin |-> {"read", "write", "delete", "admin", "audit"},
     editor |-> {"read", "write"},
     auditor |-> {"read", "audit"},
     viewer |-> {"read"}]

(* Users by role, some of whom have to change their password first; tokens *)
(* minted by an administrator; collector tokens, which are bound to the    *)
(* account the request names or to another one.                            *)
Anonymous == [actor |-> "anonymous", scopes |-> {}, pending |-> FALSE, bound |-> "none"]
Users ==
    {[actor |-> "user", scopes |-> ScopesForRole[role], pending |-> p, bound |-> "none"] :
        role \in DOMAIN ScopesForRole, p \in BOOLEAN}
PlainTokens ==
    {[actor |-> "token", scopes |-> scopes, pending |-> FALSE, bound |-> "none"] :
        scopes \in SUBSET {"read", "write", "delete"} \ {{}}}
CollectorTokens ==
    {[actor |-> "token", scopes |-> {"vm-collector"}, pending |-> FALSE, bound |-> b] :
        b \in {"this", "other"}}
Callers == {Anonymous} \cup Users \cup PlainTokens \cup CollectorTokens

HasScope(caller, want) ==
    want \in caller.scopes \/ ("admin" \in caller.scopes /\ want # "vm-collector")

EnforceCloudAccountBinding(caller) ==
    "vm-collector" \in caller.scopes => caller.bound = "this"

MiddlewareForgetsPending(route, caller) ==
    \/ route.open
    \/ /\ caller # Anonymous
       /\ \A want \in route.scopes : HasScope(caller, want)

Middleware(route, caller) ==
    \/ route.open
    \/ /\ caller # Anonymous
       /\ caller.pending => route.rotation
       /\ \A want \in route.scopes : HasScope(caller, want)

(* What the caller could ever be allowed to do to the inventory. *)
Rank(caller) ==
    IF caller.pending \/ ~\E s \in {"write", "delete", "vm-collector"} : HasScope(caller, s)
    THEN "reader"
    ELSE IF HasScope(caller, "delete") \/ HasScope(caller, "vm-collector")
         THEN "remover" ELSE "writer"

(***************************************************************************)
(* Requests.                                                               *)
(***************************************************************************)
Idle ==
    [phase |-> "idle", verb |-> "", path |-> "", mount |-> "", todo |-> <<>>,
     actor |-> "", rank |-> "", foreign |-> FALSE, seen |-> Absent, outcome |-> "",
     mask |-> FALSE, changed |-> "", skip |-> FALSE, code |-> "", why |-> "",
     excuse |-> "", logged |-> ""]

(* An open route does not ask who calls. *)
Admit(route, plan, caller) ==
    LET known == IF route.open THEN Anonymous ELSE caller IN
    [Idle EXCEPT !.phase = IF plan = <<>> THEN "answered" ELSE "run",
                 !.verb = route.verb, !.path = route.path, !.mount = route.mount,
                 !.todo = plan, !.actor = known.actor, !.rank = Rank(known),
                 !.foreign = ~EnforceCloudAccountBinding(known),
                 !.code = IF plan = <<>> THEN "ok" ELSE ""]

(* The answer of a wrapper that cannot bind a parameter, and of the        *)
(* middleware: neither reaches the audit layer.                            *)
TurnedAway(route, caller) ==
    [Idle EXCEPT !.phase = "closed", !.verb = route.verb, !.code = "refused",
                 !.why = "middleware", !.logged = "none"]

(* Everything that may arrive, table by table. *)
Admissions ==
    UNION {{[table |-> rc[1].table, request |-> Admit(rc[1], plan, rc[2])] :
                plan \in rc[1].plans} :
           rc \in {rc \in Surface \X Callers : Middleware(rc[1], rc[2])}}

Rejections ==
    {[table |-> rc[1].table, request |-> TurnedAway(rc[1], rc[2])] :
        rc \in {rc \in Surface \X Callers : rc[1].binds \/ ~Middleware(rc[1], rc[2])}}

Arrivals ==
    {[table |-> t,
      requests |-> {a.request : a \in {a \in Admissions \cup Rejections : a.table = t}}] :
        t \in Tables}

Arrive(i) ==
    /\ slots[i] = Idle
    /\ \E a \in Arrivals :
        /\ a.table = subject
        /\ \E s \in a.requests : slots' = [slots EXCEPT ![i] = s]
    /\ UNCHANGED <<subject, row, mcpVars>>

(***************************************************************************)
(* Steps.                                                                  *)
(***************************************************************************)
Next1(i) == Head(slots[i].todo)
Running(i) == slots[i].phase = "run"

Present == row # Absent

(* The step refuses in this state: 4xx. *)
MustRefuse(step, s) ==
    \/ step = "deny"
    \/ step = "human" /\ s.actor # "user"
    \/ step = "bind" /\ s.foreign
    \/ step \in {"find", "update", "remove", "end", "revive", "revoke"} /\ ~Present
    \/ step = "refetch" /\ s.outcome # "inserted" /\ ~Present
    \/ step \in {"unlock", "heartbeat"} /\ ~row.live
    \/ step = "insert" /\ Present

(* The step refuses for a reason that is not in the state: a bad field, a  *)
(* parent that is missing, a key taken by another row, credentials that    *)
(* were never stored.                                                      *)
MayRefuse ==
    {"check", "guard", "elsewhere", "unlock", "heartbeat", "insert", "merge", "write"}

(* Steps that never answer 5xx; a failed tryMerge, tryAmend or             *)
(* tryReconcile is logged and passed.                                      *)
Infallible ==
    {"check", "human", "bind", "deny", "mask", "tryMerge", "tryAmend", "tryReconcile",
     "skipIdle", "skipUncreated"}

AnswerKeepsPlan(i, code) ==
    slots' = [slots EXCEPT ![i] = [@ EXCEPT !.phase = "answered", !.code = code]]

(* The request is answered; a refusal behind a mask is a 500. *)
Answer(i, code) ==
    slots' = [slots EXCEPT ![i] =
        [@ EXCEPT !.phase = "answered", !.todo = <<>>, !.seen = Absent, !.outcome = "",
                  !.mask = FALSE, !.code = code,
                  !.why = IF code = "refused" /\ slots[i].changed # "" THEN Next1(i) ELSE ""]]

Refuse(i) ==
    /\ Running(i)
    /\ MustRefuse(Next1(i), slots[i]) \/ Next1(i) \in MayRefuse
    /\ Answer(i, IF slots[i].mask THEN "failed" ELSE "refused")
    /\ UNCHANGED <<subject, row, mcpVars>>

Fail(i) ==
    /\ Running(i)
    /\ Next1(i) \notin Infallible
    /\ Answer(i, "failed")
    /\ UNCHANGED <<subject, row, mcpVars>>

(* EnsureCluster acts on what its first read saw. *)
Ensured(seen, v) ==
    IF seen = Absent /\ ~Present THEN LiveRow(v)
    ELSE IF seen # Absent /\ ~seen.live /\ Present THEN [row EXCEPT !.live = TRUE]
    ELSE row

Merged == IF Present THEN {[row EXCEPT !.val = v] : v \in Values}
          ELSE {LiveRow(v) : v \in Values}

(* The rows a step may leave behind. *)
Written(step, s) ==
    CASE step \in {"insert", "write"} -> {LiveRow(v) : v \in Values}
      [] step = "adopt" -> IF Present THEN {row} ELSE {LiveRow(v) : v \in Values}
      [] step \in {"merge", "update", "heartbeat"} -> Merged
      [] step = "tryMerge" -> Merged \cup {row}
      [] step = "tryReconcile" -> Merged \cup {row, Absent}
      [] step \in {"amend", "tryAmend"} -> IF Present THEN Merged ELSE {row}
      [] step = "ensure" -> {Ensured(s.seen, v) : v \in Values}
      [] step \in {"end", "revoke"} -> {Ended(row)}
      [] step = "revive" -> {[row EXCEPT !.live = TRUE]}
      [] step = "remove" -> {Absent}
      [] step = "discard" -> {IF s.actor = "user" THEN Absent ELSE row}
      [] step = "sweep" -> {row, Absent}
      [] step = "sweepEnd" -> {row, Ended(row)}
      [] step = "replace" -> {Absent} \cup {LiveRow(v) : v \in Values}
      [] OTHER -> {row}

(* What an upsert or a sweep reports: an upsert compares the row it wrote  *)
(* with the row of its snapshot.                                           *)
Outcomes(step, s, new) ==
    CASE step = "write" -> {IF ~Present THEN "inserted"
                            ELSE IF new # s.seen THEN "changed" ELSE "nochange"}
      [] step = "ensure" -> {IF s.seen = Absent /\ ~Present THEN "inserted" ELSE "nochange"}
      [] step = "adopt" -> {IF Present THEN "nochange" ELSE "inserted"}
      [] step \in {"sweep", "sweepEnd"} -> {IF new # row THEN "changed" ELSE "nochange"}
      [] step = "elsewhere" -> {"inserted", "changed", "nochange"}
      [] OTHER -> {s.outcome}

Change(s, new) ==
    IF new = row THEN s.changed
    ELSE IF s.changed = "gone" \/ new = Absent \/ (row.live /\ ~new.live)
         THEN "gone" ELSE "written"

(* The ways a change stays out of the report. *)
Excuse(step, s, new, outcome) ==
    IF new = row THEN s.excuse
    ELSE IF step = "write" /\ outcome = "nochange" THEN "raced"
    ELSE IF step = "ensure" /\ outcome = "nochange" THEN "restored"
    ELSE IF step = "tryMerge" THEN "aside"
    ELSE s.excuse

(* The request takes its next step; after the last one it is answered 2xx. *)
Go(i, s) ==
    slots' = [slots EXCEPT ![i] =
        IF Len(s.todo) > 1 THEN [s EXCEPT !.todo = Tail(@)]
        ELSE [s EXCEPT !.phase = "answered", !.todo = <<>>, !.seen = Absent,
                       !.outcome = "", !.mask = FALSE, !.code = "ok"]]

(* A row the request inserted and cannot read back is a 500.  The          *)
(* revocation of a live token is announced on the channel.                 *)
Step(i) ==
    /\ Running(i)
    /\ Next1(i) \notin {"skipIdle", "skipUncreated"}
    /\ ~MustRefuse(Next1(i), slots[i])
    /\ \E new \in Written(Next1(i), slots[i]) :
        /\ \E outcome \in Outcomes(Next1(i), slots[i], new) :
            Go(i, [slots[i] EXCEPT
                     !.seen = IF Next1(i) = "snapshot" THEN row
                              ELSE IF Next1(i) \in {"write", "ensure"} THEN Absent ELSE @,
                     !.outcome = outcome,
                     !.mask = @ \/ Next1(i) = "mask" \/ outcome = "inserted",
                     !.changed = Change(slots[i], new),
                     !.excuse = Excuse(Next1(i), slots[i], new, outcome)])
        /\ row' = new
    /\ IF Next1(i) = "revoke" /\ row.live THEN Announce("this") ELSE UNCHANGED mcpVars
    /\ UNCHANGED subject

SetAuditSkip(i) ==
    /\ Running(i)
    /\ Next1(i) \in {"skipIdle", "skipUncreated"}
    /\ Go(i, [slots[i] EXCEPT !.skip = IF Next1(i) = "skipIdle"
                                       THEN slots[i].outcome = "nochange"
                                       ELSE slots[i].outcome # "inserted"])
    /\ UNCHANGED <<subject, row, mcpVars>>

(***************************************************************************)
(* The audit middleware, after the handler has returned.                   *)
(***************************************************************************)
shouldAuditForgetsSecrets(s) == s.verb # "GET" \/ s.path \in {"admin", "extract"}

shouldAudit(s) == s.verb # "GET" \/ s.path \in {"admin", "credentials", "extract"}

(* SetAuditSkip is honoured on success and outside the auth endpoints. *)
Skipped(s) == s.skip /\ s.code = "ok" /\ s.path # "auth"

(* The insertion of the audit row may fail; the client never hears of it.  *)
AuditMiddleware(i) ==
    LET s == slots[i] IN
    /\ s.phase = "answered"
    /\ \E logged \in IF s.mount # "bare" /\ shouldAudit(s) /\ ~Skipped(s)
                     THEN {s.actor, "lost"} ELSE {"none"} :
        slots' = [slots EXCEPT ![i] = [s EXCEPT !.phase = "closed", !.logged = logged]]
    /\ UNCHANGED <<subject, row, mcpVars>>

Leave(i) ==
    /\ slots[i].phase = "closed"
    /\ slots' = [slots EXCEPT ![i] = Idle]
    /\ UNCHANGED <<subject, row, mcpVars>>

(***************************************************************************)
(* A parent goes: its children are deleted with it or ended with it.       *)
(***************************************************************************)
DeletedWithParent ==
    {"pods", "services", "ingresses", "persistent_volumes", "persistent_volume_claims",
     "virtual_machines", "security_groups", "kube_node_vms", "api_tokens", "sessions"}
EndedWithParent == {"namespaces", "nodes", "workloads"}

Cascade ==
    /\ Present
    /\ \/ subject \in DeletedWithParent /\ row' = Absent
       \/ subject \in EndedWithParent /\ row.live /\ row' = Ended(row)
    /\ UNCHANGED <<subject, slots, mcpVars>>

(***************************************************************************)
(* The specification.                                                      *)
(***************************************************************************)
(* The types of the variables; a request has steps left exactly while it   *)
(* runs, and an answer from then on until its slot is free again.          *)
TypeOK ==
    /\ subject \in Tables
    /\ row \in Row
    /\ McpTypeOK
    /\ \A i \in Slots :
        /\ slots[i].phase \in {"idle", "run", "answered", "closed"}
        /\ slots[i].seen \in Row
        /\ slots[i].phase = "run" <=> slots[i].todo # <<>>
        /\ slots[i].phase \in {"answered", "closed"} <=> slots[i].code # ""

Init ==
    /\ subject \in Tables
    /\ row \in {Absent} \cup {LiveRow(v) : v \in Values}
    /\ slots = [i \in Slots |-> Idle]
    /\ McpInit

Active == row.live /\ ~expired

Next ==
    \/ \E i \in Slots : \/ Arrive(i)
                        \/ Refuse(i)
                        \/ Fail(i)
                        \/ Step(i)
                        \/ SetAuditSkip(i)
                        \/ AuditMiddleware(i)
                        \/ Leave(i)
    \/ Cascade
    \/ subject = "api_tokens" /\ McpNext(Active) /\ UNCHANGED <<subject, row, slots>>

Spec == Init /\ [][Next]_vars

(* The clock of the cache runs; no request or call has to make progress.   *)
FairSpec == Spec /\ WF_vars(Tick(Active) /\ UNCHANGED <<subject, row, slots>>)

(***************************************************************************)
(* Properties.                                                             *)
(***************************************************************************)
Closed == {slots[i] : i \in {i \in Slots : slots[i].phase = "closed"}}

(* What the audit log is meant to hold: every change, every refused or     *)
(* failed write of a known caller, every read of administration data,      *)
(* credentials and bulk extracts.                                          *)
Owed(s) ==
    /\ s.why # "middleware"
    /\ \/ s.changed # ""
       \/ s.code # "ok" /\ s.verb # "GET"
       \/ s.code = "ok" /\ s.path \in {"admin", "credentials", "extract"}

(* The routes main.go mounts without the audit middleware: the settings,   *)
(* and reads.                                                              *)
Unaudited(s) == s.mount = "bare" /\ (s.verb = "GET" \/ subject = "settings")

(* The OIDC endpoints change state and are GETs outside the allow-list.    *)
OidcHandshake(s) == s.verb = "GET" /\ s.path = "auth"

(* Every request the audit log is meant to hold has a row there under the  *)
(* kind of its caller, unless the insertion itself failed, the route has   *)
(* no audit middleware, the request is an OIDC handshake, or a handler     *)
(* called SetAuditSkip over a change it could not see: an upsert whose     *)
(* snapshot was overtaken, a cluster restored by its own collector, a      *)
(* security group refreshed on the side of an unchanged machine.           *)
Traceable ==
    \A s \in Closed :
        Owed(s) => \/ s.logged \in {s.actor, "lost"}
                   \/ Unaudited(s)
                   \/ OidcHandshake(s)
                   \/ s.skip /\ s.excuse # ""

(* Nobody changes the inventory beyond their scopes: a caller who holds no *)
(* scope to write, or has to change a password first, changes nothing, and *)
(* a caller without the delete scope ends or deletes only what the write   *)
(* scope covers: policies, policy reports and flow references.  The        *)
(* endpoints under /v1/auth/ ask for no scope and are exempt as a whole.   *)
ChangesNeedTheirScope ==
    \A i \in Slots :
        LET s == slots[i] IN
        /\ s.rank = "reader" /\ s.changed # "" => s.path = "auth"
        /\ s.rank = "writer" /\ s.changed = "gone" =>
               \/ s.path = "auth"
               \/ subject \in {"cluster_policies", "policy_reports", "flow_references"}

(* A refused request leaves the row as it found it, whoever ran between    *)
(* its statements, with four exceptions of the code: the row was deleted   *)
(* between an update and the read that follows it; a user patch sets the   *)
(* password before the guarded update refuses; a collector registers an    *)
(* account before the binding of its token is looked at; a login with a    *)
(* wrong password is counted on the row of the user, and may lock it,      *)
(* before the 401.                                                         *)
RefusedMeansUntouched ==
    \A s \in Closed :
        s.code = "refused" /\ s.changed # "" =>
            \/ s.why = "find"
            \/ subject = "users" /\ s.verb = "PATCH" /\ s.why \in {"guard", "update"}
            \/ subject = "cloud_accounts" /\ s.why = "bind"
            \/ subject = "users" /\ s.verb = "POST" /\ s.why = "deny"

(* A collector token changes only the account it is bound to, its machines *)
(* and its security groups, with two exceptions of the code that neither   *)
(* end nor delete anything: registration, which writes the account before  *)
(* it looks at the binding, and the image backfill, which writes every     *)
(* node whose provider id matches, under whatever account it runs.         *)
AccountsApart ==
    \A i \in Slots :
        slots[i].foreign /\ slots[i].changed # "" =>
            /\ subject \in {"cloud_accounts", "nodes"}
            /\ slots[i].verb = "POST"
            /\ slots[i].changed = "written"

(* A token that stays revoked, expired or deleted is refused by the MCP    *)
(* server for good from some moment on: the entry of buildMCPAuthFn goes   *)
(* and no call puts it back, even when a call that had found the token     *)
(* active stores it after the subscriber invalidated it.                   *)
RevokedIsForgotten == <>[]~Active => <>[](entry = NoEntry)
=============================================================================
