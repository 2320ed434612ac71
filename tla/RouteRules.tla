----------------------------- MODULE RouteRules -----------------------------
(***************************************************************************)
(* What the routes and the plans of their handlers have in common, route   *)
(* by route: the rules that the properties of Access rest on once requests *)
(* interleave.  They say nothing of a row or of two requests; the table of *)
(* routes is finite, and TLC evaluates each rule on the whole of it.       *)
(***************************************************************************)
EXTENDS Access

(* Steps by what they may do: write the row, end or delete it, report an   *)
(* outcome, answer 4xx, keep the request out of the audit log.             *)
Changing ==
    {"insert", "write", "adopt", "merge", "update", "heartbeat", "tryMerge", "amend",
     "tryAmend", "tryReconcile", "ensure", "end", "revoke", "revive", "remove", "discard",
     "sweep", "sweepEnd", "replace"}
Ending ==
    {"end", "revoke", "remove", "discard", "sweep", "sweepEnd", "replace", "tryReconcile"}
Reporting == {"write", "ensure", "adopt", "sweep", "sweepEnd", "elsewhere"}
Refusing ==
    {"deny", "human", "bind", "find", "update", "remove", "end", "revive", "revoke", "refetch",
     "unlock", "heartbeat", "insert"} \cup MayRefuse
Skipping == {"skipIdle", "skipUncreated"}

(* Step k of the plan comes after a step of K. *)
After(plan, k, K) == \E j \in 1..(k - 1) : plan[j] \in K

(* The tables whose rows the write scope may delete. *)
WriterEnds == {"cluster_policies", "policy_reports", "flow_references"}

Route ==
    [verb : STRING, table : STRING, path : STRING, scopes : SUBSET STRING, mount : STRING,
     open : BOOLEAN, rotation : BOOLEAN, binds : BOOLEAN, plans : SUBSET Seq(STRING)]

(* A route that changes something asks for a scope that covers it, and     *)
(* neither lets callers in who have to change their password first nor     *)
(* callers nobody knows; the endpoints under /v1/auth/ excepted.           *)
ScopeCovers(route) ==
    \A plan \in route.plans : \A k \in DOMAIN plan :
        route.path # "auth" =>
            /\ plan[k] \in Changing =>
                   /\ ~route.open /\ ~route.rotation
                   /\ route.scopes \cap {"write", "delete", "admin", "vm-collector"} # {}
            /\ plan[k] \in Ending =>
                   \/ route.table \in WriterEnds
                   \/ route.scopes \cap {"delete", "admin", "vm-collector"} # {}

(* A route open to collector tokens looks at the binding of the token, or  *)
(* turns tokens away, before it changes anything.  Registration looks at   *)
(* it afterwards, and the image backfill knows no account of the nodes it  *)
(* writes.                                                                 *)
Unbound(table, verb) == table \in {"cloud_accounts", "nodes"} /\ verb = "POST"
BindsFirst(route) ==
    ~route.open /\ route.scopes \subseteq {"vm-collector"} =>
        \A plan \in route.plans : \A k \in DOMAIN plan :
            plan[k] \in Changing \ {"discard"} =>
                \/ After(plan, k, {"bind", "human"})
                \/ Unbound(route.table, route.verb) /\ plan[k] \notin Ending

(* Once a plan has changed the row no step answers 4xx: refusals come      *)
(* first, or are masked.  A row that is adopted and not inserted has not   *)
(* been changed.                                                           *)
Excepted(table, verb, step) ==
    \/ step = "find"
    \/ table = "users" /\ verb = "PATCH" /\ step \in {"guard", "update"}
    \/ table = "cloud_accounts" /\ step = "bind"
    \/ table = "users" /\ verb = "POST" /\ step = "deny"
RefusesFirst(route) ==
    \A plan \in route.plans : \A k \in DOMAIN plan :
        plan[k] \in Refusing /\ After(plan, k, Changing \ {"adopt"}) =>
            After(plan, k, {"mask"}) \/ Excepted(route.table, route.verb, plan[k])

(* A GET outside the allow-list of the audit layer changes nothing, and no *)
(* writing route but that of the settings is without the audit layer.      *)
ReadsAreReads(route) ==
    /\ route.verb = "GET" /\ route.path \notin {"admin", "credentials", "extract", "auth"} =>
           \A plan \in route.plans : \A k \in DOMAIN plan : plan[k] \notin Changing
    /\ route.mount = "bare" => route.verb = "GET" \/ route.table = "settings"

(* A plan that may keep its request out of the audit log decides so last,  *)
(* on the report of the one step that changed the row; what a tryMerge     *)
(* changes is on the side.                                                 *)
Reported(skip) == IF skip = "skipIdle" THEN {"write", "sweep", "sweepEnd"} ELSE {"ensure"}
SkipsOnReport(route) ==
    \A plan \in route.plans : \A k \in DOMAIN plan :
        plan[k] \in Skipping =>
            /\ k = Len(plan)
            /\ route.path \notin {"admin", "credentials", "extract"}
            /\ \A j \in DOMAIN plan :
                /\ plan[j] \in Changing => plan[j] \in {"tryMerge"} \cup Reported(plan[k])
                /\ plan[j] \in Reporting => ~After(plan, j, Changing)

ASSUME RoutesTyped == \A route \in Surface : route \in Route
ASSUME RoutesCovered == \A route \in Surface : ScopeCovers(route)
ASSUME RoutesBind == \A route \in Surface : BindsFirst(route)
ASSUME RoutesRefuseFirst == \A route \in Surface : RefusesFirst(route)
ASSUME RoutesRead == \A route \in Surface : ReadsAreReads(route)
ASSUME RoutesSkip == \A route \in Surface : SkipsOnReport(route)
=============================================================================
