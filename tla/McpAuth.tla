------------------------------- MODULE McpAuth -------------------------------
(***************************************************************************)
(* How the MCP server recognises one API token over SSE: buildMCPAuthFn    *)
(* (cmd/longue-vue/main.go) in front of the bounded cache of               *)
(* internal/mcp/auth_cache.go, and the channel on which the store          *)
(* announces revocations (internal/store/pg_auth.go).  The token row is    *)
(* not here: `active` says whether a lookup would find it.                 *)
(*                                                                         *)
(* A call misses the cache, looks the token up, verifies it and puts it    *)
(* into the cache in separate steps; revocations, deliveries and the clock *)
(* run between them.                                                       *)
(***************************************************************************)
EXTENDS Integers, Sequences

CONSTANTS Calls,      \* concurrent tool calls with this token
          TTL,        \* the 30 s of the cache, in clock ticks
          ChanCap     \* the 64 places of the channel

ASSUME McpAssumption == TTL \in Nat /\ ChanCap \in Nat \ {0}

VARIABLES calls,     \* what each call is doing
          entry,     \* time left to the cached entry, NoEntry without one
          queue,     \* announced revocations: of this token or of another
          expired,   \* expires_at of the token has passed
          quiet      \* ticks since the token was last found or could be

mcpVars == <<calls, entry, queue, expired, quiet>>

NoEntry == -1
Tokens == {"this", "other"}

(* Types of the variables of this module. *)
McpTypeOK ==
    /\ calls \in [Calls -> {"idle", "missed", "found", "admitted"}]
    /\ entry \in NoEntry..TTL
    /\ queue \in UNION {[1..n -> Tokens] : n \in 0..ChanCap}
    /\ expired \in BOOLEAN
    /\ quiet \in 0..(TTL + 1)

McpInit ==
    /\ calls = [c \in Calls |-> "idle"]
    /\ entry = NoEntry
    /\ queue = <<>>
    /\ expired = FALSE
    /\ quiet = 0

(* An entry answers while its time has not run out, and a hit leaves that  *)
(* time alone.                                                             *)
GetRenewing(c) ==
    /\ calls[c] = "idle" /\ entry # NoEntry
    /\ calls' = [calls EXCEPT ![c] = "admitted"]
    /\ entry' = TTL
    /\ UNCHANGED <<queue, expired, quiet>>

Get(c) ==
    /\ calls[c] = "idle" /\ entry # NoEntry
    /\ calls' = [calls EXCEPT ![c] = "admitted"]
    /\ UNCHANGED <<entry, queue, expired, quiet>>

(* No entry, or one for the same prefix with another secret. *)
GetMiss(c) ==
    /\ calls[c] = "idle"
    /\ calls' = [calls EXCEPT ![c] = "missed"]
    /\ UNCHANGED <<entry, queue, expired, quiet>>

GetRevokedTokenByPrefix(c, active) ==
    /\ calls[c] = "missed"
    /\ calls' = [calls EXCEPT ![c] = "found"]
    /\ UNCHANGED <<entry, queue, expired, quiet>>

(* The lookup does not find a token that is revoked or expired. *)
GetActiveTokenByPrefix(c, active) ==
    /\ calls[c] = "missed"
    /\ calls' = [calls EXCEPT ![c] = IF active THEN "found" ELSE "idle"]
    /\ UNCHANGED <<entry, queue, expired, quiet>>

(* The secret does not verify, or mcpScopeAllowed turns the token away. *)
RejectFound(c) ==
    /\ calls[c] = "found"
    /\ calls' = [calls EXCEPT ![c] = "idle"]
    /\ UNCHANGED <<entry, queue, expired, quiet>>

Put(c) ==
    /\ calls[c] = "found"
    /\ calls' = [calls EXCEPT ![c] = "admitted"]
    /\ entry' = TTL
    /\ quiet' = 0
    /\ UNCHANGED <<queue, expired>>

Finish(c) ==
    /\ calls[c] = "admitted"
    /\ calls' = [calls EXCEPT ![c] = "idle"]
    /\ UNCHANGED <<entry, queue, expired, quiet>>

(* The cache is full and this entry is its oldest when another is put. *)
EvictOldest ==
    /\ entry # NoEntry
    /\ entry' = NoEntry
    /\ UNCHANGED <<calls, queue, expired, quiet>>

(* A revocation is announced without blocking: no room, no announcement.   *)
Announce(token) ==
    /\ queue' = IF Len(queue) < ChanCap THEN Append(queue, token) ELSE queue
    /\ UNCHANGED <<calls, entry, expired, quiet>>

(* The subscriber of maybeStartMCPServer. *)
Invalidate ==
    /\ queue # <<>>
    /\ queue' = Tail(queue)
    /\ entry' = IF Head(queue) = "this" THEN NoEntry ELSE entry
    /\ UNCHANGED <<calls, expired, quiet>>

Expire ==
    /\ ~expired
    /\ expired' = TRUE
    /\ UNCHANGED <<calls, entry, queue, quiet>>

(* Time passes.  `quiet` counts while no lookup can find the token and no  *)
(* call that found it earlier is still on its way to the cache.            *)
Tick(active) ==
    /\ entry' = IF entry = NoEntry THEN NoEntry ELSE entry - 1
    /\ quiet' = IF active \/ (\E c \in Calls : calls[c] = "found") THEN 0
                ELSE IF quiet > TTL THEN quiet ELSE quiet + 1
    /\ UNCHANGED <<calls, queue, expired>>

McpNext(active) ==
    \/ \E c \in Calls : \/ Get(c)
                        \/ GetMiss(c)
                        \/ GetActiveTokenByPrefix(c, active)
                        \/ RejectFound(c)
                        \/ Put(c)
                        \/ Finish(c)
    \/ EvictOldest
    \/ Announce("other")
    \/ Invalidate
    \/ Expire
    \/ Tick(active)

(* A token that was revoked or has expired is forgotten: once neither a    *)
(* lookup nor a call in flight can put it back, its entry is gone after    *)
(* the 30 s of the cache, whether or not the revocation was announced      *)
(* (RevokeAPIToken drops the announcement when the channel is full) and    *)
(* however often the entry was used meanwhile.                             *)
StaleWithinTTL == quiet > TTL => entry = NoEntry
==============================================================================
