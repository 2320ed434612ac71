---------------------------- MODULE IngestGateway ----------------------------
(***************************************************************************)
(* The DMZ ingest gateway's request path (internal/ingestgw/server.go,     *)
(* proxy.go, verify_client.go) over its token cache, together with the     *)
(* part of longue-vue it talks to: POST /v1/auth/verify and the bearer     *)
(* middleware that checks every forwarded write again.                     *)
(*                                                                         *)
(* A caller of TokenCache is one HTTP request of a collector.              *)
(***************************************************************************)
EXTENDS TokenCache

CONSTANTS Scoped  \* tokens whose scopes include the gateway's RequiredScope

\* What VerifyClient.Verify returns: the gateway's loadFn.
VerifyResults == [kind : {"valid", "denied", "failed", "gone"}, exp : {0}]

ASSUME GatewayAssumption == LoadResults = VerifyResults

Never == MaxTime + 1  \* later than any time of the model

VARIABLES status,    \* the request's stage, then the status the collector sees
          deadSince, \* when longue-vue stopped accepting a token
          confirmed  \* tokens that longue-vue has confirmed at least once

gwVars == <<status, deadSince, confirmed>>
allVars == <<vars, gwVars>>

\* The status on the wire.  200 stands for every 2xx, 500 for every other
\* status of longue-vue; "lost" is a response to a collector that hung up.
Codes == {"200", "401", "403", "404", "413", "500", "503"}
Stages == {"open", "forward", "lost"}

\* A token is active while it is neither revoked nor past expires_at.
Active(t) == deadSince[t] = Never

-----------------------------------------------------------------------------
GwInit ==
  /\ Init
  /\ status = [c \in Callers |-> "open"]
  /\ deadSince = [t \in Tokens |-> Never]
  /\ confirmed = {}

\* An administrator revokes the token, or its expiry passes.
Deactivate(t) ==
  /\ Active(t)
  /\ deadSince' = [deadSince EXCEPT ![t] = now]
  /\ UNCHANGED <<vars, status, confirmed>>

\* handleProxy refuses before it looks at the cache: no such route, body too
\* large, no bearer token.
RefuseEarly(c) ==
  /\ pc[c] = "idle"
  /\ status[c] = "open"
  /\ \E code \in {"404", "413", "401"} : status' = [status EXCEPT ![c] = code]
  /\ UNCHANGED <<vars, deadSince, confirmed>>

\* VerifyToken on longue-vue and Verify on the gateway.  200 leaves the
\* token's expiry unset.  401 also answers a rate-limited call or a failed
\* lookup.  Anything else, a timeout or a cancelled request is an error.
VerifyAnswers(c) ==
  /\ \/ /\ Active(token[c])
        /\ LoaderAnswers(c, [kind |-> "valid", exp |-> 0])
        /\ confirmed' = confirmed \cup {token[c]}
     \/ /\ \E k \in {"denied", "failed", "gone"} :
              LoaderAnswers(c, [kind |-> k, exp |-> 0])
        /\ UNCHANGED confirmed
  /\ UNCHANGED <<status, deadSince>>

\* respond writes a status for the outcomes that the gateway itself decides,
\* and leaves it to proxyRequest for the outcomes "allowed", "upstream_error"
\* and "upstream_timeout".  A handler that writes no status sends 200.
Unwritten == "200"

RespondCode(outcome, code) ==
  IF outcome \in {"allowed", "upstream_error", "upstream_timeout"}
  THEN Unwritten ELSE code

\* Mutant: a failed verify call lets the request through.
DecideFailOpen(k, t) ==
  CASE k = "gone" -> "lost"
    [] k = "denied" -> RespondCode("denied_token", "401")
    [] k = "invalid" -> RespondCode("denied_token", "401")
    [] k = "valid" /\ t \notin Scoped -> RespondCode("denied_scope", "403")
    [] OTHER -> "forward"

\* handleProxy between the verify result and the upstream call.
DecideOn(k, t) ==
  CASE k = "gone" -> "lost"
    [] k = "denied" -> RespondCode("denied_token", "401")
    [] k = "failed" -> RespondCode("upstream_error", "503")
    [] k = "invalid" -> RespondCode("denied_token", "401")
    [] k = "valid" /\ t \notin Scoped -> RespondCode("denied_scope", "403")
    [] OTHER -> "forward"

Decide(c) ==
  /\ pc[c] = "returned"
  /\ status[c] = "open"
  /\ status' = [status EXCEPT ![c] = DecideOn(result[c].kind, token[c])]
  /\ UNCHANGED <<vars, deadSince, confirmed>>

\* proxyRequest mirrors longue-vue's answer; a 401 drops the cache entry.
UpstreamReplies(c) ==
  /\ status[c] = "forward"
  /\ \E code \in IF Active(token[c]) THEN {"200", "500"} ELSE {"401", "500"} :
        /\ status' = [status EXCEPT ![c] = code]
        /\ IF code = "401" THEN Invalidate(token[c]) ELSE UNCHANGED vars
  /\ UNCHANGED <<deadSince, confirmed>>

\* proxyRequest streams the status but the copy of the body breaks off: the
\* error return skips the invalidation.
UpstreamStreamBreaks(c) ==
  /\ status[c] = "forward"
  /\ \E code \in IF Active(token[c]) THEN {"200", "500"} ELSE {"401", "500"} :
        status' = [status EXCEPT ![c] = code]
  /\ UNCHANGED <<vars, deadSince, confirmed>>

\* proxyRequest gets no answer: unreachable, timed out, or cancelled by the
\* collector.
UpstreamFails(c) ==
  /\ status[c] = "forward"
  /\ \/ status' = [status EXCEPT ![c] = RespondCode("upstream_error", "503")]
     \/ status' = [status EXCEPT ![c] = "lost"]
  /\ UNCHANGED <<vars, deadSince, confirmed>>

GwFinished ==
  /\ \A c \in Callers : status[c] \notin {"open", "forward"}
  /\ UNCHANGED allVars

\* handleProxy is inside SingleflightGet.
CacheStep(c) ==
  /\ status[c] = "open"
  /\ CallerStep(c)
  /\ UNCHANGED gwVars

CollectorHangsUp(c) == WaitCancelled(c) /\ UNCHANGED gwVars

GwTick == Tick /\ UNCHANGED gwVars

RequestStep(c) ==
  \/ CacheStep(c)
  \/ VerifyAnswers(c)
  \/ Decide(c)
  \/ UpstreamReplies(c)
  \/ UpstreamStreamBreaks(c)
  \/ UpstreamFails(c)

GwNext ==
  \/ \E c \in Callers : RequestStep(c)
  \/ \E c \in Callers : RefuseEarly(c) \/ CollectorHangsUp(c)
  \/ \E t \in Tokens : Deactivate(t)
  \/ GwTick
  \/ GwFinished

\* Go schedules every request, and the client's timeout ends both upstream
\* calls.
GwSpec == GwInit /\ [][GwNext]_allVars

GwFairSpec == GwSpec /\ \A c \in Callers : WF_allVars(RequestStep(c))

-----------------------------------------------------------------------------
\* The gateway's own variables have their declared shape.
GwTypeOK ==
  /\ status \in [Callers -> Codes \cup Stages]
  /\ deadSince \in [Tokens -> 0 .. Never]
  /\ confirmed \subseteq Tokens

\* Every request is answered: no wait on the cache, on a predecessor's verify
\* call or on longue-vue lasts for ever.
EveryRequestAnswered ==
  \A c \in Callers : <>(status[c] \notin {"open", "forward"})

\* A request whose token longue-vue has not confirmed is never forwarded,
\* whichever path through the cache, a joined verify call or a retry after a
\* predecessor's failure it took (server.go:214-215, "Don't fail-open").
ForwardedWasConfirmed ==
  \A c \in Callers : status[c] = "forward" => token[c] \in confirmed

\* Once a token is revoked, the cache vouches for it at most PositiveTTL plus
\* the duration of one verify call: an answer settled before the revocation
\* can still be on its way when it happens, and PutValid counts the TTL from
\* the time of storing.  This is what the code keeps; the comments promise
\* the shorter bound of RevokedWithinTTL.
RevocationEffective ==
  \A t \in Tokens :
     now > deadSince[t] + PositiveTTL + LoadTimeout
        => ~(Fresh(t) /\ entries[t].Valid)

\* cache.go:53-57: "revoke-then-wait-PositiveTTL = guaranteed effective at
\* the gateway".
RevokedWithinTTL ==
  \A t \in Tokens :
     now > deadSince[t] + PositiveTTL => ~(Fresh(t) /\ entries[t].Valid)

\* verify_client.go:62-63: a failed verify call "surfaces 503 to the
\* collector"; a request that longue-vue did not serve is not reported as a
\* success.
FailureSurfaced ==
  \A c \in Callers :
     result[c].kind = "failed" /\ pc[c] = "returned" => status[c] # "200"
=============================================================================
