----------------------------- MODULE TokenCache -----------------------------
(***************************************************************************)
(* The ingest gateway's in-memory verify cache (internal/ingestgw/cache.go)*)
(* : a bounded LRU map from token to verify result, with a single-flight   *)
(* wrapper that lets one goroutine per token call the loader while the     *)
(* others wait on its channel.                                             *)
(*                                                                         *)
(* Every method takes c.mu for its whole body, so every method is one      *)
(* action; what interleaves is the sequence of methods that the goroutines *)
(* inside SingleflightGet go through.  A caller calls once, so the channel *)
(* that a caller creates is named by the caller itself.                    *)
(***************************************************************************)
EXTENDS Naturals, Sequences, FiniteSets, Functions

CONSTANTS Callers,      \* goroutines that call SingleflightGet
          Tokens,       \* bearer tokens; keyOf is injective on them
          MaxEntries,   \* cfg.MaxEntries
          PositiveTTL,  \* cfg.PositiveTTL
          NegativeTTL,  \* cfg.NegativeTTL
          LoadResults,  \* what loadFn may return
          LoadTimeout,  \* the http.Client timeout that bounds one loadFn call
          MaxTime       \* bound on the clock

VARIABLES now,       \* c.clock()
          entries,   \* c.entries: a map, its domain the cached tokens
          lru,       \* c.lru, most recently used first
          inflight,  \* c.inflight: token -> channel, named by its creator
          closed,    \* channels that have been closed
          pc,        \* where each caller is inside SingleflightGet
          token,     \* the token of each caller
          waitOn,    \* the channel a joined caller waits on
          started,   \* when a caller entered loadFn
          result     \* what loadFn, and then SingleflightGet, returned

cacheVars == <<entries, lru, inflight, closed>>
callVars == <<pc, token, waitOn, started, result>>
vars == <<now, cacheVars, callVars>>

-----------------------------------------------------------------------------
CachedToken == [Valid : BOOLEAN, ExpiresAt : Nat]

\* What a call of loadFn or of SingleflightGet can return: a verify result
\* (valid or not), or one of three errors: longue-vue said 401 ("denied"),
\* the verify call failed ("failed"), the caller's context ended ("gone").
\* A valid result carries the token's own expiry, 0 when it has none.
Kinds == {"none", "valid", "invalid", "denied", "failed", "gone"}
Result == [kind : Kinds, exp : Nat]
NoResult == [kind |-> "none", exp |-> 0]

ASSUME CacheAssumption ==
  /\ MaxEntries \in Nat \ {0}
  /\ PositiveTTL \in Nat
  /\ NegativeTTL \in Nat
  /\ LoadTimeout \in Nat \ {0}
  /\ MaxTime \in Nat
  /\ IsFiniteSet(Tokens)
  /\ LoadResults \subseteq Result
PCs == {"idle", "get", "acquire", "wait", "load", "loaded", "release",
        "close", "returned"}

Cached(t) == t \in DOMAIN entries

\* Get reports a hit: present and not c.clock().After(ExpiresAt).
Fresh(t) == Cached(t) /\ now <= entries[t].ExpiresAt

\* container/list: the list without the element that holds t.
Without(s, t) ==
  LET i == CHOOSE j \in DOMAIN s : s[j] = t
  IN  [j \in 1 .. Len(s) - 1 |-> IF j < i THEN s[j] ELSE s[j + 1]]

PushFront(s, t) == <<t>> \o s

MoveToFront(s, t) == PushFront(Without(s, t), t)

DropBack(s) == SubSeq(s, 1, Len(s) - 1)

Drop(f, t) == Restrict(f, DOMAIN f \ {t})

Bind(f, t, v) == [u \in DOMAIN f \cup {t} |-> IF u = t THEN v ELSE f[u]]

Goto(c, label) == pc' = [pc EXCEPT ![c] = label]

-----------------------------------------------------------------------------
Init ==
  /\ now = 0
  /\ entries = [t \in {} |-> NoResult]
  /\ lru = << >>
  /\ inflight = [t \in {} |-> NoResult]
  /\ closed = {}
  /\ pc = [c \in Callers |-> "idle"]
  /\ token \in [Callers -> Tokens]
  /\ waitOn = [c \in Callers |-> c]
  /\ started = [c \in Callers |-> 0]
  /\ result = [c \in Callers |-> NoResult]

\* A goroutine enters SingleflightGet with its token.
Call(c) ==
  /\ pc[c] = "idle"
  /\ Goto(c, "get")
  /\ UNCHANGED <<now, cacheVars, token, waitOn, started, result>>

\* Mutant: a hit renews the entry's life.
GetHitSlides(c) ==
  /\ pc[c] = "get"
  /\ Fresh(token[c])
  /\ lru' = MoveToFront(lru, token[c])
  /\ entries' = [entries EXCEPT ![token[c]].ExpiresAt = now + PositiveTTL]
  /\ result' = [result EXCEPT ![c] =
        [kind |-> IF entries[token[c]].Valid THEN "valid" ELSE "invalid",
         exp |-> 0]]
  /\ Goto(c, "returned")
  /\ UNCHANGED <<now, inflight, closed, token, waitOn, started>>

\* Get, hit: the entry moves to the front and is the answer.
GetHit(c) ==
  /\ pc[c] = "get"
  /\ Fresh(token[c])
  /\ lru' = MoveToFront(lru, token[c])
  /\ result' = [result EXCEPT ![c] =
        [kind |-> IF entries[token[c]].Valid THEN "valid" ELSE "invalid",
         exp |-> 0]]
  /\ Goto(c, "returned")
  /\ UNCHANGED <<now, entries, inflight, closed, token, waitOn, started>>

\* Get, miss: an expired entry is dropped on read.
GetMiss(c) ==
  /\ pc[c] = "get"
  /\ ~Fresh(token[c])
  /\ entries' = Drop(entries, token[c])
  /\ lru' = IF Cached(token[c]) THEN Without(lru, token[c]) ELSE lru
  /\ Goto(c, "acquire")
  /\ UNCHANGED <<now, inflight, closed, token, waitOn, started, result>>

\* Mutant: the slot is taken without a look at who holds it.
AcquireUnchecked(c) ==
  /\ pc[c] = "acquire"
  /\ inflight' = Bind(inflight, token[c], c)
  /\ started' = [started EXCEPT ![c] = now]
  /\ Goto(c, "load")
  /\ UNCHANGED <<now, entries, lru, closed, token, waitOn, result>>

\* acquireOrJoinInflight, owner = true: the caller makes the channel and
\* enters loadFn.
AcquireInflight(c) ==
  /\ pc[c] = "acquire"
  /\ token[c] \notin DOMAIN inflight
  /\ inflight' = Bind(inflight, token[c], c)
  /\ started' = [started EXCEPT ![c] = now]
  /\ Goto(c, "load")
  /\ UNCHANGED <<now, entries, lru, closed, token, waitOn, result>>

\* acquireOrJoinInflight, owner = false.
JoinInflight(c) ==
  /\ pc[c] = "acquire"
  /\ token[c] \in DOMAIN inflight
  /\ waitOn' = [waitOn EXCEPT ![c] = inflight[token[c]]]
  /\ Goto(c, "wait")
  /\ UNCHANGED <<now, cacheVars, token, started, result>>

\* The select of SingleflightGet: the predecessor closed its channel, so
\* loop; or the caller's own context ended first.
Wake(c) ==
  /\ pc[c] = "wait"
  /\ waitOn[c] \in closed
  /\ waitOn' = [waitOn EXCEPT ![c] = c]
  /\ Goto(c, "get")
  /\ UNCHANGED <<now, cacheVars, token, started, result>>

WaitCancelled(c) ==
  /\ pc[c] = "wait"
  /\ result' = [result EXCEPT ![c] = [kind |-> "gone", exp |-> 0]]
  /\ waitOn' = [waitOn EXCEPT ![c] = c]
  /\ Goto(c, "returned")
  /\ UNCHANGED <<now, cacheVars, token, started>>

\* The service behind loadFn settles its answer r.  The answer reaches the
\* caller, and the cache, only at a later step.
LoaderAnswers(c, r) ==
  /\ pc[c] = "load"
  /\ result' = [result EXCEPT ![c] = r]
  /\ Goto(c, "loaded")
  /\ UNCHANGED <<now, cacheVars, token, waitOn, started>>

-----------------------------------------------------------------------------
\* Mutant: eviction leaves the evicted key in the map.
PutKeepsEvicted(t, v) ==
  IF Cached(t)
  THEN /\ entries' = Bind(entries, t, v)
       /\ lru' = MoveToFront(lru, t)
  ELSE IF Cardinality(DOMAIN entries) >= MaxEntries /\ lru # << >>
  THEN /\ entries' = Bind(entries, t, v)
       /\ lru' = PushFront(DropBack(lru), t)
  ELSE /\ entries' = Bind(entries, t, v)
       /\ lru' = PushFront(lru, t)

\* Mutant: the capacity test is off by one.
PutOffByOne(t, v) ==
  IF Cached(t)
  THEN /\ entries' = Bind(entries, t, v)
       /\ lru' = MoveToFront(lru, t)
  ELSE IF Cardinality(DOMAIN entries) > MaxEntries /\ lru # << >>
  THEN /\ entries' = Bind(Drop(entries, lru[Len(lru)]), t, v)
       /\ lru' = PushFront(DropBack(lru), t)
  ELSE /\ entries' = Bind(entries, t, v)
       /\ lru' = PushFront(lru, t)

\* put: update in place, or evict from the back until there is room and push
\* to the front.  The loop runs at most once, because the cache never holds
\* more than MaxEntries (CacheBounded), and never on an empty list.
Put(t, v) ==
  IF Cached(t)
  THEN /\ entries' = Bind(entries, t, v)
       /\ lru' = MoveToFront(lru, t)
  ELSE IF Cardinality(DOMAIN entries) >= MaxEntries /\ lru # << >>
  THEN /\ entries' = Bind(Drop(entries, lru[Len(lru)]), t, v)
       /\ lru' = PushFront(DropBack(lru), t)
  ELSE /\ entries' = Bind(entries, t, v)
       /\ lru' = PushFront(lru, t)

\* PutValid caches until min(now + PositiveTTL, the token's own expiry).
PutValidUntil(tokenExp) ==
  IF tokenExp # 0 /\ tokenExp < now + PositiveTTL
  THEN tokenExp ELSE now + PositiveTTL

\* runLoader after loadFn returned: errors are not cached.
RunLoaderStores(c) ==
  /\ pc[c] = "loaded"
  /\ CASE result[c].kind = "valid" ->
            Put(token[c], [Valid |-> TRUE,
                           ExpiresAt |-> PutValidUntil(result[c].exp)])
       [] result[c].kind = "invalid" ->
            Put(token[c], [Valid |-> FALSE, ExpiresAt |-> now + NegativeTTL])
       [] OTHER -> UNCHANGED <<entries, lru>>
  /\ result' = [result EXCEPT ![c].exp = 0]
  /\ started' = [started EXCEPT ![c] = 0]
  /\ Goto(c, "release")
  /\ UNCHANGED <<now, inflight, closed, token, waitOn>>

\* Mutant: the slot is never deleted.
ReleaseForgotten(c) ==
  /\ pc[c] = "release"
  /\ Goto(c, "close")
  /\ UNCHANGED <<now, cacheVars, token, waitOn, started, result>>

\* releaseInflight: the slot is deleted under the lock ...
ReleaseInflight(c) ==
  /\ pc[c] = "release"
  /\ inflight' = Drop(inflight, token[c])
  /\ Goto(c, "close")
  /\ UNCHANGED <<now, entries, lru, closed, token, waitOn, started, result>>

\* Mutant: the channel is never closed.
CloseForgotten(c) ==
  /\ pc[c] = "close"
  /\ Goto(c, "returned")
  /\ UNCHANGED <<now, cacheVars, token, waitOn, started, result>>

\* ... and the channel is closed after the lock is gone.
CloseChannel(c) ==
  /\ pc[c] = "close"
  /\ closed' = closed \cup {c}
  /\ Goto(c, "returned")
  /\ UNCHANGED <<now, entries, lru, inflight, token, waitOn, started, result>>

\* Invalidate: drop the entry of a token that longue-vue refused.
Invalidate(t) ==
  /\ entries' = Drop(entries, t)
  /\ lru' = IF Cached(t) THEN Without(lru, t) ELSE lru
  /\ UNCHANGED <<now, inflight, closed, callVars>>

\* Time passes.  A loader that has started holds time back at its deadline
\* until it has answered and the answer is stored: the client aborts the
\* call by then, and the steps that store the result take no time.
Tick ==
  /\ now < MaxTime
  /\ \A c \in Callers :
        pc[c] \in {"load", "loaded"} => now < started[c] + LoadTimeout
  /\ now' = now + 1
  /\ UNCHANGED <<cacheVars, callVars>>

\* All callers have returned.
Finished ==
  /\ \A c \in Callers : pc[c] = "returned"
  /\ UNCHANGED vars

\* The steps a caller takes on its own inside SingleflightGet, except the
\* loader's answer.
CallerStep(c) ==
  \/ Call(c)
  \/ GetHit(c)
  \/ GetMiss(c)
  \/ AcquireInflight(c)
  \/ JoinInflight(c)
  \/ Wake(c)
  \/ RunLoaderStores(c)
  \/ ReleaseInflight(c)
  \/ CloseChannel(c)

Next ==
  \/ \E c \in Callers : CallerStep(c)
  \/ \E c \in Callers : WaitCancelled(c)
  \/ \E c \in Callers, r \in LoadResults : LoaderAnswers(c, r)
  \/ \E t \in Tokens : Invalidate(t)
  \/ Tick
  \/ Finished

\* Goroutines are scheduled, and loadFn returns: the http.Client behind it
\* has a timeout.
Fairness ==
  \A c \in Callers :
     /\ WF_vars(CallerStep(c))
     /\ WF_vars(\E r \in LoadResults : LoaderAnswers(c, r))

Spec == Init /\ [][Next]_vars

FairSpec == Spec /\ Fairness

-----------------------------------------------------------------------------
\* Every variable of the cache and of its callers has its declared shape.
TypeOK ==
  /\ now \in 0 .. MaxTime
  /\ DOMAIN entries \subseteq Tokens
  /\ entries \in [DOMAIN entries -> CachedToken]
  /\ lru \in Seq(Tokens)
  /\ DOMAIN inflight \subseteq Tokens
  /\ inflight \in [DOMAIN inflight -> Callers]
  /\ closed \subseteq Callers
  /\ pc \in [Callers -> PCs]
  /\ token \in [Callers -> Tokens]
  /\ waitOn \in [Callers -> Callers]
  /\ started \in [Callers -> 0 .. MaxTime]
  /\ result \in [Callers -> Result]

\* The list and the map of the cache hold the same tokens, each once: what
\* put, Get's lazy expiry, eviction and Invalidate must keep in step
\* (cache.go:85-90).
LruMatchesEntries ==
  /\ IsInjective(lru)
  /\ Range(lru) = DOMAIN entries

\* put evicts before it inserts, so the map never exceeds MaxEntries
\* (cache.go:49-51).
CacheBounded == Cardinality(DOMAIN entries) <= MaxEntries

\* A caller holds the in-flight slot of its token exactly while it is between
\* acquireOrJoinInflight and releaseInflight; so at most one loader runs per
\* token (cache.go:217-219).
Loading(c) == pc[c] \in {"load", "loaded", "release"}

SlotHeldByLoader ==
  /\ \A c \in Callers :
        Loading(c) => token[c] \in DOMAIN inflight /\ inflight[token[c]] = c
  /\ \A t \in DOMAIN inflight :
        Loading(inflight[t]) /\ token[inflight[t]] = t

\* No wake-up is lost: a caller waits on a channel that is closed already or
\* whose creator still has to close it (releaseInflight unlocks before it
\* closes, so the slot may be gone by then).
NoLostWakeup ==
  \A c \in Callers : pc[c] = "wait" =>
     \/ waitOn[c] \in closed
     \/ Loading(waitOn[c])
     \/ pc[waitOn[c]] = "close"

\* Every call of SingleflightGet returns, whatever the loaders answer: a
\* waiter whose predecessor failed claims the slot itself (cache.go:226-227).
EveryCallReturns == \A c \in Callers : <>(pc[c] = "returned")
=============================================================================
