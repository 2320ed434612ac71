# TLA+ verification of longue-vue

longue-vue is a configuration management database (CMDB) for Kubernetes
clusters and cloud virtual machines. This directory holds TLA+ models of its
concurrent and fault-prone parts, TLC configurations that check them on small
instances, and TLAPS proofs of their main properties for every instance.

`PROJECT.json` is the index: the components, the runs, the mutants each
property must reject, the source lines behind every definition, the findings,
the hazards and the theorems.

## 1. The system

A single daemon (`cmd/longue-vue`) serves a REST API and a web UI over one
PostgreSQL database. Everything else feeds that database or reads from it.

| Part | Code | How it acts |
| --- | --- | --- |
| Kubernetes collector | `internal/collector` | One goroutine per cluster, inside the daemon (pull) or in `cmd/longue-vue-collector` (push, over the API). Each tick lists nine kinds, upserts what it lists and deletes the rows that were not listed |
| Kyverno stage | `internal/collector/kyverno_*` | A later stage of the same tick: policies and their reports |
| VM collector | `internal/vmcollector` | One process per cloud account; fetches its credentials from the daemon, lists VMs and security groups, posts them and has the daemon remove what is gone |
| Ingest gateway | `internal/ingestgw` | A reverse proxy in a DMZ: it verifies a collector's token against the daemon, caches the answer and forwards writes on an allowlist |
| Inventory store | `internal/store` | Upserts, sweeps, soft deletes and their cascades, list queries |
| Time travel | `internal/timetravel`, `internal/store` | A transaction that writes a watched column of a cluster, namespace, node or workload also writes a history row; the hard deletes of nodes and workloads write none, and the image columns of a node are in no history |
| Accounts | `internal/auth`, `internal/api/auth_handlers.go`, `internal/store/pg_auth.go` | Users, sessions, API tokens, OIDC, roles and scopes; the guard that keeps one administrator |
| Enrichers | `internal/eol`, `internal/imageversions` | Background ticks that annotate rows with end-of-life and version data |
| Derived views | `internal/impact`, `internal/flowmatrix`, `internal/eolagg`, applications, freshness | Computed from the rows at read time |
| MCP server, audit log, metrics, extracts | `internal/mcp`, `internal/metricsrefresh`, `internal/api/audit.go`, `internal/api/extract_handlers.go` | Readers and side channels |

The interactions that matter to correctness:

* a collector, an administrator and other requests write the same rows, in
  separate transactions;
* every call of a collector may fail, and in push mode may take effect while
  its answer is lost;
* the gateway decides on a cached answer while the daemon's state moves on;
* the history of a row is written by whichever transaction writes the row, but
  for a hard delete.

## 2. Modules

Each component has a module, an `MC` module that instantiates it and a `Proofs`
module; a component that extends another shares its `Proofs` module.

| Module | Extends or instantiates | Models |
| --- | --- | --- |
| TokenCache, IngestGateway | the second extends the first | the gateway's cache and request path |
| AdminGuard | | the guard of the last administrator, inside its transactions |
| Accounts | | login, lockout, sessions, OIDC, user changes, start of the daemon |
| HistoryStore | | the transactions that write history |
| Collector, Kyverno | the second extends the first | the tick of the Kubernetes collector and its last stage |
| VMCollector | | the tick of the VM collector and the tables it writes |
| StoreOps, Handlers, Routes, McpAuth, Access | Routes instantiates Handlers, Handlers StoreOps; Access extends Routes and McpAuth | requests on every route, the middlewares around them, the MCP server's use of a token |
| RouteRules | extends Access | what the routes and the plans of their handlers have in common, route by route |
| Scan, Keyset, ListCatalog, Lists | Lists extends Keyset and ListCatalog, instantiates Scan | paged lists and what they promise |
| ListRules | extends Lists | what the listings of the catalogue and the readers have in common |

### TokenCache: the gateway's verify cache (`internal/ingestgw/cache.go`)

State: the map (`entries`), the LRU list (`lru`), the single-flight slots
(`inflight`) with their channels (`closed`), a clock, and for every caller its
place inside `SingleflightGet`. Every method holds `c.mu` for its whole body,
so every method is one action. What interleaves is the sequence of methods
that callers go through: lookup, claim or join of the slot, loader, store,
release of the slot and, after the unlock, the close of the channel. A
cancelled waiter, a failing loader and a waiter that retries are actions of
their own. The loader's answer is any member of `LoadResults`.

### IngestGateway: the request path (`server.go`, `proxy.go`, `verify_client.go`)

Extends TokenCache: a caller is one HTTP request. It adds the early refusals,
the verify call, the scope test, the forwarded call with the second check the
daemon makes, the invalidation on an upstream 401, and `respond`, which leaves
the status to `proxyRequest` for some outcomes. The daemon appears as the set
of active tokens, which a revocation or expiry may shrink at any time.

### AdminGuard: the last-admin guard (`internal/store/pg_auth.go`)

`UpdateUserGuarded` and `DeleteUserGuarded` as the SQL statements they consist
of, run by concurrent requests beside `CreateUser`. The locking SELECT takes
its snapshot in one step and the row locks one by one; the target's lock, the
count and the write with its commit follow. Any statement may fail. `Waits` and
`Deadlocked` are the cycles of lock waits, which PostgreSQL breaks by failing
one transaction of each.

### HistoryStore: time-travel capture (`internal/store`, `internal/timetravel`)

One row of one of the four captured kinds, its history rows, and transactions
of six operations (upsert, ensure, update, soft delete, sweep, hard delete),
statement by statement, with `Capture` at the end of each but the last:
`DeleteNode` and `DeleteWorkload` remove the row and leave its history open, and
a later upsert makes another row with another id. The setting
`time_travel_enabled` may change while they run. All columns that are watched
are one value.

### Collector: the tick of the Kubernetes collector (`internal/collector`)

State: the live cluster (`k8s`), the rows (`row`, `linked`, `cluster`,
`storedVersion`) and the locals of `poll`. A tick is: fetch the version, ensure
the cluster row, update it, then for each of the nine kinds in the source's
order list, upsert one object at a time, and sweep one scope at a time. Every
call has its failing form, which may or may not have had its effect. The
cluster changes between any two steps; with `AdminDeletes`, administrators
delete rows as well. The cascades of the store's deletes are part of the
actions that trigger them.

### Kyverno: the last stage of the tick (`internal/collector/kyverno_collector.go`)

Extends Collector: when the network policies are done, `poll` goes on with
Kyverno policies and then with policy reports, and the next tick waits for it.
For each of the two families: the cluster-scoped list and its upserts, the
namespaced list and its upserts, then the sweep of each scope that is not
dirty, the cluster scope first. A list that fails or is forbidden ends the
family without a sweep; an upsert that fails makes its scope dirty. Beside the
stage, resources come and go, the feature is switched in the settings, and
callers of the API write and delete rows of their own. `KyvernoSpec` is the
composition; every behaviour of it is one of Collector (proved).

### VMCollector: the tick of the VM collector (`internal/vmcollector`)

State: the cloud account at the provider (VMs, their drop tags, groups), the
nodes rows that name those VMs, the `cloud_accounts` row, the five tables the
tick writes, the collector's cache (`known`, `prov`, `fresh`) and the locals of
`runOnce`. A tick goes through `ensureCredentials` (fetch, register, build),
the two provider lists, one post per kept VM, the batch of Kubernetes-tagged
VMs, the sweep of security groups, the tombstones and the status. The server's
side of each call belongs to its action, except that a post is two: the dedup
query over nodes and the insert are separate statements. A failing call may
have had its effect, and a best-effort loop on the server any part of it.
Beside the tick, the cloud account and the nodes rows change, administrators
provision, disable, enable or rename the account, switch the flow matrix and
delete VMs, and the process restarts.

The age of a VM is one bit (inside the grace period or not), so the 24 hours
that `kubeNodeVMGrace` falls back to when the settings cannot be read are not
distinguished. Cluster hint and cluster tag are one value. A node names a VM or
does not, although the dedup query matches a substring of `provider_id` and the
status query a suffix. The groups attached to a VM do not change during its
life, and its attachment rows are written or missing as a whole.

### Accounts (`internal/auth`, `auth_handlers.go`, `pg_auth.go`, `cmd/longue-vue/main.go`)

Concurrent requests, one store call per step: password login with the failure
counter and the lock, OIDC authorize and callback with `findOrCreateOidcUser`
and its retries, the session middleware with the renewal of a session, change
and reset of passwords, creation, update and deletion of users, logout. A guarded
update or deletion is two steps, the count of the other admins and the write;
which of them may overlap is the matter of AdminGuard and left open here, so that
a database without an active admin is reachable, as it is in the code. Any
call may fail. The daemon stops and starts at any time; a start runs the
bootstrap and the rescue of the administrator. A password is a version number,
so verifying one is an equality.

### Access: requests on every route (`internal/api`, `internal/auth/middleware.go`, `internal/store`)

StoreOps gives every single-row operation of the store as the sequence of its
statements, Handlers every handler as the sequences of checks, statements and
reads it may go through, Routes every route of the generated router, of the
mounts in `main.go` and of the ingest listener with its scopes. Access runs
requests of callers of every kind over one row of one table: authentication
and scopes, then the steps of the handler with other requests between them,
then the answer and the audit middleware. A step may be refused by what it
finds, or fail. The logins are plans of two tables, the session they make and
the user whose row they touch: failure counter, lock, last login, and the user
that a first OIDC login creates. `SetAuditSkip` acts on what an upsert reports, which compares
the row it wrote with the snapshot it took earlier. Parents go with their
cascade at any time.

### McpAuth: tokens in the MCP server (`internal/mcp/auth_cache.go`, `main.go`)

When the row of Access is an API token, tool calls authenticate with it: cache,
lookup, verification and put as separate steps, against revocations announced
on a bounded channel that drops what does not fit, evictions, expiry and a
clock.

### Lists: keyset pagination (`internal/store/pg.go` and every List function)

ListCatalog holds one entry per listing: its sort keys, their SQL expressions
and how their cursor values are minted, nullability, filters, limits, and which
handlers and readers use it. Lists lets one client, or one reader inside the
server (MCP tools, extracts, loaders of derived views), walk a listing from the
first page to the last while others change rows. Keyset has the order and the
condition that resumes it. The list of an application's members, merged from
three sources by offset, is part of it. Scan is the abstract specification: a
mark moves along a line and each step returns exactly what it passes. The line
comes in stretches, one for each sort value or each source of members, and a row
lies in its stretch by its id or its position (`Rank`, `Place`).

PostgreSQL is external. Its READ COMMITTED semantics is modelled as the code
relies on it: a statement sees what was committed when it began and what its
own transaction wrote; an UPDATE or a locking SELECT waits for a row's lock
and then looks at the row again; a failed statement aborts its transaction.

## 3. Runs

### Passing runs

| Run | Properties | What it shows |
| --- | --- | --- |
| `gateway` | `LruMatchesEntries`, `CacheBounded`, `SlotHeldByLoader`, `NoLostWakeup`, `ForwardedWasConfirmed`, `RevocationEffective`, `EveryRequestAnswered` | List and map of the cache hold the same keys, the limit holds, a slot always belongs to a caller that will release it, every waiter's channel is closed or will be. Nothing is forwarded on a token the daemon never confirmed; the cache stops vouching for a revoked token once PositiveTTL plus one verify call has passed, which is more than the documentation allows (see `gateway_revocation`); every request ends, a waiter whose predecessor failed included |
| `admin_guard` | `AdminRemains`, `EveryGuardedRequestEnds` | Without promotions, one active administrator always remains; requests that lock the same rows in different orders all end |
| `history` | `CapturedTimeline` | While every write is captured under the row lock, the history is a gapless sequence of intervals whose last one is open and equals the row; a write without capture, as a hard delete is, ends this for the row |
| `collector` | `MirrorAfterCleanTick`, `LiveRowsInLiveNamespaces`, `ExistingRowsSurvive`, `EventuallyMirrors` | After a tick without faults or outside changes, rows and links are those of the cluster, whatever happened before; no live row is left in a dead namespace (administrators delete nothing in this run; with them it fails, see `NoLingeringWorkload`); while nobody else interferes, the row of an existing object goes only when that object or its namespace was listed and not upserted; once changes and faults end, the rows become a mirror and stay one |
| `kyverno` | `PoliciesMirrored`, `ListedPoliciesKept`, `PoliciesSurviveErrors` | Whatever list or upsert fails, the Kyverno stage takes no row of a resource it listed, and callers of the API never take a collector's row; a stage without failures and changes mirrors the cluster; no step of a tick removes a network policy that the tick listed, with administrators deleting rows meanwhile |
| `vm_collector` | `MirrorAfterCleanTick`, `ListedVMsSurvive`, `PerimeterSurvives`, `EventuallyMirrors` | A tick without faults or outside changes leaves VMs, kube-node rows, groups, rules and attachments a mirror of the account; whatever calls fail, a tick with no outside change tombstones no VM of the inventory and deletes no attached group; once the account stays usable, the tables converge and it reads active |
| `accounts` | `TypeOK`, `LockoutConsistent`, `GuessesBounded`, `DisabledUserNotServed`, `RotationEndsSessions`, `NoStrayShadowUser`, `EndedSessionsStayEnded`, `RestartLeavesUsableAdmin` | Counter and lock agree; wrong passwords between two resets are bounded by the threshold and the requests in flight; a disabled user and an ended session are not served again; an older password survives only in a login that overlapped the change; parallel first OIDC logins leave no stray user; every start that succeeds finds or makes a usable administrator |
| `lists` | `SweepsTheTable`, `OwnCursorAccepted` | Every listing under every sort key, order, filter and limit implements Scan while rows change, so by `ListsAreExact` what stayed put is returned once; and a client's own cursor is accepted |
| `access` | `TypeOK`, `Traceable`, `ChangesNeedTheirScope`, `RefusedMeansUntouched`, `AccountsApart` | On every route: what is owed to the audit log is there, but for named exceptions; nobody changes more than their scopes allow; a refused request leaves the row alone, with four named exceptions; a collector token stays with its account, but for registration and the image backfill of nodes |
| `mcp` | `StaleWithinTTL`, `RevokedIsForgotten` | The cache of the MCP server vouches for a dead token no longer than its TTL, even when the revocation was dropped or overtaken by a call in flight, and in the end forgets it |

The type invariants of the modules that are proved about (TokenCache,
IngestGateway, AdminGuard, HistoryStore, Collector, Kyverno, VMCollector) are
theorems; only those of Accounts and Access are checked by a run as well.

### The runs that end in a counterexample

`admin_guard_promotion` states what `pg_auth.go` says of the guard, that
guarded requests serialise on the admins' locks. With a promotion in between,
two requests hold disjoint lock sets, both commit and no active administrator
is left. On such a database the next start inserts the bootstrap user, and fails
for good if the name "admin" is taken (`main.go:1272`, `main.go:302`); that is
why Accounts states nothing about the starts that fail.

`gateway_revocation` states what `cache.go:53-57` says of the cache:
"revoke-then-wait-PositiveTTL = guaranteed effective at the gateway"; ADR-0016
section 5 and `auth_handlers.go:603-607` say the same. In the counterexample a
verify call reads the token as active, the token is revoked, the answer is
stored afterwards, and `PutValid` counts the TTL from then: PositiveTTL after
the revocation the gateway still vouches for the token. What does hold is
`RevocationEffective` in run `gateway`, with the time of one verify call added.

`PROJECT.json` quotes the lines under `findings`.

### Other differences between the code and what is written about it

Four statements have a configuration of their own, which TLC refutes; they are
not part of the runs above:

| Configuration | Stated | What happens |
| --- | --- | --- |
| `MCIngestGateway_FailureSurfaced` | A failed verify call surfaces as 503 | `respond` writes nothing for that outcome; the client sees 200 |
| `MCHistoryStore_CaptureNeverAborts` | Capture is best-effort | Its failing INSERT aborts the upsert's transaction |
| `MCCollector_NeverRemovesListed` | Only rows that were not listed are deleted (`docs/collector-kubernetes.md:113`) | A listed object whose upsert failed is deleted |
| `MCCollector_NoLingeringWorkload` | No workload lingers in a vanished namespace (`pg_namespaces.go:26`) | One does, after a soft delete between two stages |

Smaller differences appear as exceptions in the properties or as behaviours of
the models. A denied token is not cached, because runLoader stores nothing on
an error (`cache.go:293`, against `verify_client.go:60`). A caller that missed early and
claims the slot late verifies again (`cache.go:241`). An upsert writes a history
row although nothing changed, because it passes no previous row
(`pg_namespaces.go:474`, against ADR-0021 section 3). Network policies are swept
with reconciliation off, and those of a vanished namespace are never swept
(`netpol_collector.go:88`, `pg_namespaces.go:45`). Two soft deletes of a
terminated row capture without a lock, so two history rows may be open where
ADR-0021 says at most one.

In VMCollector: the security groups are swept after a failed enumeration too,
which deletes groups attached to no VM although they exist
(`collector.go:214`, against `pg_security_groups.go:153`). A VM whose node
appears after its row, or between dedup query and insert, is in both tables
until a tick reconciles (`pg_virtual_machines.go:76`, against its header). A
collector goes on with cached credentials after its account is disabled
(`collector.go:353`, against `docs/cloud-accounts.md`). Registering under a
name the bound account no longer has creates a second account before it is
refused (`cloud_account_handlers.go:397`). A VM post empties the rules of the
VM's groups until the sweep of the same tick restores them, which it does with
the flow matrix on and the enumeration successful.

In Access: the GET routes of settings and endpoint groups, and the update of the
settings, are mounted without the audit middleware (`main.go`, against
`docs/audit-log.md:15`); the OIDC endpoints are GETs outside the audited paths
(`audit.go:89` and ADR-0024 count them in). An upsert that overwrites a change
made after its snapshot reports no change and is skipped by the audit log, and
so are a cluster restored by its collector and a security group refreshed on
the side of an unchanged machine. A user patch sets the password before the
guarded update refuses the rest. A collector's registration changes an account
before the binding of its token is looked at. A login with a wrong password has
counted the failure, and may have locked the user, when it answers 401. The image
backfill under one account writes every node whose provider id matches one of
the posted VMs, whatever account that VM belongs to.

In McpAuth: a call that found the token active puts it into the cache after the
subscriber invalidated it, or the announcement is dropped, so a revoked token
may make calls until the TTL has passed (`main.go`, against the comment of
`maybeStartMCPServer` that it cannot).

In Lists: `loadInternalRules` of the flow matrix reads one page and ignores the
cursor.

### Bounds

* **`gateway`**: two requests are a loader and a waiter, or a loader and a
  newcomer that claims the slot between its release and the close of the channel.
  Two tokens with room for one entry force eviction. TTLs and the verify call's
  time are one tick; `MaxTime` lets an entry be stored, expire and be replaced,
  and is past the latest moment at which a revoked token may still be trusted.
  A third caller, for a chain of loader, waiter and newcomer, is in
  `MCTokenCache.cfg`, which has the cache alone and is not one of the runs; the
  proofs are for any number.
* **`gateway_revocation`**: one request and one token are enough.
* **`admin_guard`**: two initial admins, a third user to be created and three
  requests: two that race and one that changes what they saw. The
  counterexample with promotion needs a fourth request.
* **`history`**: three transactions on one row: two that race, and one that
  prepares or observes. Rows do not interact in `Capture`. One switch of the
  setting covers "off in the middle"; the proof is for any number.
* **`collector`**: five small populations (`Clusters`) that between them have
  all nine kinds, each object with the namespace and the target it refers to.
  Two changes let an object vanish and return around a tick, or an upgrade meet
  a vanished object. Administrators delete rows in `kyverno`, where their steps
  are part of `OtherStep`. One call fails in a run of TLC. A failing
  call that uses up the tick's deadline makes the later calls of the tick fail
  as well, which is several faults and is covered by the proofs, where
  `MaxFaults` is arbitrary.
* **`kyverno`**: one namespace with a pod or a network policy, a cluster-scoped
  Kyverno policy and a report of the namespace: both families, both kinds of
  scope, a family whose lists are empty. Two changes and one failing call are
  shared between Collector and the stage, so every pair of a change in one and
  a failure in the other happens. The proofs are for any resources, namespaces
  and bounds.
* **`vm_collector`**: two VMs that share one group, one of them with a group of
  its own, are enough for a post to fail beside one that succeeded, for a node
  VM to be the only carrier of a group, and for a sibling to prove a cluster.
  The four `Populations` are an empty account, two plain VMs, one of each and
  two node VMs; `CloudChange` reaches the others. Two changes are a rename or
  a disabling and its reversal, or a node that comes and goes. One call fails.
  `Reconcile` is on; the proofs hold for both values and for all bounds.

* **`accounts`**: two requests at once, three users of whom one may be taken by
  the OIDC login, two cookies and two OIDC states; four calls in all, so that
  two can race after two have prepared them. A threshold of one locks at the
  first wrong password; the second request is the guess in flight. One call
  fails. The first start finds an empty database, an administrator, or two
  administrators and the id of a deleted user.
* **`lists`**: four rows and three sort values, of which two are equal when
  lowered, in tables that hold ties, NULLs, filtered and ended rows. Limits are
  the default, one row and more than the maximum; the caps of readers are three
  rows, so that a walk meets them. One change per walk, at any place in it. The
  proofs are for any rows, values, limits and number of changes.
* **`access`**: two requests on one row with two values. A lost update, an
  overtaken snapshot or a row that goes between two statements takes two.
  Tables whose routes and cascades are the same behave alike; an assumption of
  MCAccess says that every table has such a representative.
* **`mcp`**: two calls, one request on the token, a channel of two places and a
  TTL of two ticks: an entry that has aged, a put that comes late and an
  announcement that finds no room all happen. The bound is proved for any
  number of calls, any TTL and any channel.

Symmetry is used for requests, transactions and values in the runs that
check safety only.

### Fairness

* `TokenCache!Fairness` and `GwFairSpec`: a goroutine that can run does run,
  and a loader answers, because the HTTP client's timeout bounds each call. No
  fairness is assumed of the outside: a revocation, a cancellation or the clock.
* `AdminGuard!FairSpec`: a request that waits for no row goes on, and PostgreSQL's
  deadlock detection fails a request of a cycle. A request with a held row ahead
  of it need not move, since the scan may meet that row first. Which request
  fails is not said.
* `Collector!FairSpec`: weak fairness of the collector's own step. `Run` polls
  at each tick of its timer and each call is bounded by `fetchTimeout`. It leaves
  administrators out (`UnattendedNext`), as `Spec` does without `AdminDeletes`.
  `EventuallyMirrors` needs nothing else: the bounds on changes and faults say
  that the environment leaves the collector alone in the end.
* `VMCollector!FairSpec`: weak fairness of a step of the tick. `Run` starts one
  per interval, and `FetchTimeout` bounds its calls. The expiry of cached
  credentials is not fair: `EventuallyMirrors` does not depend on it.

* `Access!FairSpec`: only the clock of the MCP cache is fair. No request, call
  or subscriber has to make progress for `RevokedIsForgotten`.

Accounts and Lists are checked for safety only and may stop: a client need not
come back. The `kyverno` run is safety only as well; its stage has no loop but
those over finite sets.

## 4. Proofs

TLAPS checks the following for every value of the constants that satisfies the
modules' assumptions.

| Module | Theorem | Establishes |
| --- | --- | --- |
| IngestGatewayProofs | `TypeCorrect`, `ListAndMapAgree`, `CacheStaysBounded` | Types; the LRU list is a duplicate-free listing of the map's keys; the limit |
| | `OneLoaderPerToken`, `WakeupNeverLost` | The slot discipline of single-flight |
| | `GatewayImplementsCache` | The gateway's behaviours are behaviours of TokenCache |
| | `GwTypeCorrect`, `NothingUnconfirmedForwarded`, `RevocationHonoured` | What the cache means for tokens |
| HistoryStoreProofs | `TypeCorrect`, `TimelineKept` | `CapturedTimeline` for any number of transactions and switches |
| CollectorProofs | `TypeCorrect`, `NoOrphanRows`, `CleanTickMirrors`, `ExistingRowsKept`, `PoliciesKept` | The safety properties of the collector runs; `NoOrphanRows` and `CleanTickMirrors` if administrators do not delete rows (`NoAdminDeletes`) |
| | `DaemonImplementsCollector` | The tick with the Kyverno stage implements Collector, so the theorems above hold of the daemon |
| | `KyvernoTypeCorrect`, `CleanStageMirrors`, `ErrorsNeverWipe` | The safety properties of the stage, for any resources and namespaces |
| VMCollectorProofs | `TypeCorrect`, `CleanTickMirrors`, `FailuresNeverTombstone`, `SweepKeepsPerimeter` | The safety properties of `vm_collector`, for any VMs, groups and attachments, with `Reconcile` on or off |
| AccountsProofs | `TypeCorrect`, `LockoutAlwaysConsistent` | Types of rows and requests; counter and lock agree |
| | `EndedSessions_StayEnded`, `RotationAlwaysEndsSessions`, `DisabledUserNeverServed` | Sessions and disabled users, for any users, requests, failures and crashes |
| | `GuessesAlwaysBounded` | The bound on wrong passwords, for any threshold and number of requests |
| | `NeverStrayShadowUser`, `RestartAlwaysLeavesUsableAdmin` | Racing first logins; the start of the daemon |
| AccessProofs | `AlwaysKept`, `AccessTypeCorrect` | The inductive invariant of Access; types |
| | `AlwaysTraceable`, `ChangesAlwaysNeedTheirScope`, `RefusedAlwaysMeansUntouched`, `AccountsAlwaysApart` | The four safety properties of run `access`, for any number of concurrent requests, any values and any tables |
| | `EntryOutlivesTokenByTTL` | `StaleWithinTTL` for any number of calls and requests, any TTL and any channel |
| AdminGuardProofs | `TypeCorrect`, `LastAdminKept` | Types; `AdminRemains` for any users and requests, if no request makes an existing row an active admin (`NoPromotion`) |
| ListsProofs | `KeysetIsAfterCursor`, `OrderByIsTotal` | For all ids and values, NULL included: ORDER BY is a strict total order, and the keyset condition holds of exactly the rows after the cursor |
| | `WalkInvariant`, `CursorsAccepted` | The invariant of a walk; a client's own cursor is never refused |
| | `ListsSweep` | Lists implements Scan, step by step: every sorted list, the merged list of members and the readers, for any tables, limits and number of changes |
| | `SweepIsExact`, `ListsAreExact` | Scan, and so each list, returns each row that stayed put exactly once |

The arguments:

* **TokenCache.** The bound needs the agreement of list and map: eviction
  removes the key at the back of the list from the map, and only because that
  key is in the map does the map shrink. `NoLostWakeup` needs to know of every
  channel that its creator is still on its way to the close, or has closed it.
* **IngestGateway.** Each gateway step is a step of the cache or leaves it
  alone, so the cache's invariants carry over. `ConfirmInv` follows a valid
  answer from the loader through the cache into every waiter. `RevokeInv`
  bounds the expiry of each entry by the time at which its answer was settled.
* **AdminGuard.** Of two requests about to remove an admin, one's snapshot of
  active admins contains what the other's contains (`Nested`), since without
  promotions the set only gains new ids. So one of them must lock the other's
  target (`Locked`), and both cannot be past the count (`Counted`).
* **HistoryStore.** `Base` holds always: what a transaction knows of the row
  and its lock. `Clean` holds as long as no write strayed from the discipline:
  only the lock's holder captures, its timestamp is later than every history
  row, and its UPDATE has found the one open row. `TimelineKept` follows.
* **Collector.** `MirrorAfterCleanTick` speaks of the end of a tick, so the
  invariant `MirrorSoFar` says what is true in its middle: kinds already done
  mirror the cluster, the id maps hold what exists, and in the kind at work the
  rows differ only where an upsert or a sweep is still due. `Rooted` says that
  live rows have live namespaces and the id maps point to them. For what a
  sweep may remove, `ListExact` and `PolicyLoop` relate the keep list to what
  was listed.
* **VMCollector.** `quiet` and `sound` say of the tick at work that nothing
  outside changed and that no call failed. `Listing` keeps the lists equal to
  the account while it is quiet; `Posting` says that each VM of the inventory
  is still to be posted or was, and that nothing else was, which is what
  makes the keep list safe whichever calls fail; `Progress` collects what the
  sound tick has already made equal. A group attached to a VM exists at the
  provider (`Structure`), which is why the fallback of the sweep is enough.
* **Kyverno.** `StageInv` follows one family through the stage. Whatever was
  listed in a scope of the tick is still to be upserted, kept, or in a dirty
  scope (`StageSound`), which is why no failure lets a sweep take it. While
  nothing changes, what was listed is what exists (`SeenExact`). `SweptSoFar`
  says what a stage without failures has achieved so far: the policies are
  exact once the reports are under way, and swept scopes hold kept rows only.
* **Scan.** `Complete` speaks of the end of a sweep; in its middle, a row that
  stayed put has been returned exactly when the mark has passed it.
* **Lists.** What a page returns depends on the table as it is now and on a
  cursor minted from a table that may be gone. `Walk` says what survives of the
  second: the cursor was minted under the plan's key and order, its value is one
  that the column's form yields, and it is NULL only in a column that is declared
  nullable. Then `keysetCond` holds of exactly the rows whose place on the line
  is behind the cursor's (`KeysetIsRank`), and limit+1 rows of them, cut to the
  limit, are those up to the place of the cursor minted next (`PageOfTop`), which
  is a step of Scan. For members the place of a row is its position in its
  source; a page goes through the sources one by one and each takes up where the
  one before has ended, also when it has no room left (`OneSource`). The form in
  which SQL sorts a value and the form in which Go mints it are compared column
  by column: that they agree, and that the columns with NULLs are declared
  nullable, is ListRules, which TLC evaluates on the whole catalogue in run
  `lists`.
* **Accounts.** `Typed` is the base of all: the shape of a request in each
  of its phases (a request that verifies a password has found its user, one
  that creates a session has verified), rows that refer to rows that are there
  (`Linked`), and the agreement of counter and lock, without which the counter
  would not stay within the threshold. Two of the properties are not
  inductive. `DisabledUserNotServed` needs that the
  lookup of the user which comes next still finds the user disabled
  (`Barring`). `GuessesBounded` needs what the counter has seen: while a user is
  open, every guess but those whose increment failed; once it is locked, the
  guesses to come are those of the requests at the verification (`Tallied`).
* **Access.** What a request may still do is in the steps it has left, so `Kept`
  speaks of them and of what the request remembers: no step to come, and no
  change made, is outside its scope (`WithinScope`) or its binding
  (`WithinBinding`); after a change no refusal is to come but the excepted ones
  (`RefusalsMasked`); a request that reads stays silent (`SilentReads`); a
  handler skips the audit log only over a change it has reported or could not
  see (`SkipsHonest`), so that the closed request is in the log
  (`Accounted`). A request enters this invariant with one of the plans of its
  route. That each of the finitely many plans obeys the rules in question is
  RouteRules, whose six assumptions TLC evaluates on the whole table of routes
  in run `mcp`; the theorems add everything that depends on rows, on other
  requests and on time.
* **MCP cache.** `StaleWithinTTL` is not inductive: it says nothing while the
  token has been dead for a short time. The time an entry has left and the time
  the token has been dead never add up to more than the TTL (`Clocks`).

The assumptions are named in the modules that declare the constants and are
evaluated by TLC in the runs. Apart from types they say: the initial databases
of Accounts hold no shadow user, and a lock where the counter says so
(`DatabasesAssumption`);
the tables of Access are among those the catalogue knows and its placeholder
for an absent value is not a value (`AccessAssumption`). In Lists, ids and sort
values are numbers up to a constant `Span`, which may be any number, and `None` is
neither a row nor a cursor (`ListsAssumption`). RouteRules and ListRules state
what holds of the finite tables that were taken from the source, entry by entry.

Only model-checked: the liveness properties (`EveryRequestAnswered`,
`EveryGuardedRequestEnds`, `EventuallyMirrors`, `RevokedIsForgotten`), because
TLAPS does not handle fairness; the rules of RouteRules and ListRules, which are
evaluated on every entry of their tables; and the counterexamples. Every safety
property that a run checks is also proved, under the conditions the table names.

## 5. Not modelled

* Formatting, wording, logging, metrics and header rewriting.
* The transport (TLS set-up, retries inside the HTTP client), and the reload of
  the gateway's certificates: the order and number of the events it acts on
  belong to the file system and to the tool that rotates.
* The two enrichers. What they write is decided by matches of version strings
  against an external catalogue and by the text of registry errors. Two points
  were seen when reading them: the EOL enricher writes back the annotations it
  read earlier in the tick, so that an edit in between is lost
  (`eol/enricher.go:319`); and an error of the mirror resolver that belongs to
  no class, of which a comment says that the next tick retries, leaves the
  image out of the processed set, so that the same tick reaps its rows.
* Derived views (impact, flow matrix synthesis and drift, EOL aggregation,
  freshness, DICT inheritance, diff of history rows): computed from the rows
  when read, without state of their own. The readers that gather the rows for
  them are in Lists.
* The rate limiters, which refuse attempts before anything else happens.
* The retention of history: ADR-0021 describes it, the source has its settings
  only.
* The web UI and the metrics refresher, which render what they read.
* The encryption of credentials, a call into a library.
* In VMCollector, the deletion of the collector's own account; the request that
  makes it is in Access.

Two compositions are left out. VMCollector and Collector share the nodes rows:
VMCollector has them as rows that come and go at any time, which is all that
Collector does to them. Access looks at one row at a time: what one request does
to rows of several tables is in the module of the component (Collector,
VMCollector, Accounts).
