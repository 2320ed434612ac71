---------------------------- MODULE AccessProofs ----------------------------
(***************************************************************************)
(* What the API server promises while its requests interleave: requests    *)
(* against a row with their audit trail, and the token cache of the MCP    *)
(* server.                                                                 *)
(***************************************************************************)
EXTENDS RouteRules, TLAPS

-----------------------------------------------------------------------------
(***************************************************************************)
(* Requests, for any number of them, any values, and the whole table of    *)
(* routes.  The properties look at what a request has done; what makes     *)
(* them inductive is what its plan may still do.  Every part of Sound      *)
(* relates the two: the rules of RouteRules establish it when a request is *)
(* admitted, with the whole plan ahead, and each step carries it over to   *)
(* the rest of the plan, whatever the row has become in the meantime.      *)
(***************************************************************************)

(* The texts a field of a request may hold. *)
Text == STRING \cup {"", "middleware", "anonymous", "user", "token", "reader", "writer",
                    "remover", "inserted", "changed", "nochange", "raced", "restored",
                    "aside", "none", "lost"}
Request ==
    [phase : {"idle", "run", "answered", "closed"}, verb : Text, path : Text, mount : Text,
     todo : Seq(STRING), actor : Text, rank : Text, foreign : BOOLEAN, seen : Row,
     outcome : Text, mask : BOOLEAN, changed : {"", "written", "gone"}, skip : BOOLEAN,
     code : {"", "ok", "refused", "failed"}, why : Text, excuse : Text, logged : Text]

(* A request runs while steps are left, has an answer from then on, and    *)
(* stays in the log until a skip step, the last of its plan, has decided.  *)
Staged(s) ==
    /\ s.phase = "run" <=> s.todo # <<>>
    /\ s.phase \in {"answered", "closed"} <=> s.code # ""
    /\ s.phase \notin {"answered", "closed"} => ~s.skip

(* What is left of the plan, and what was done, is within the scopes.      *)
WithinScope(tb, s) ==
    s.path # "auth" =>
        /\ s.rank = "reader" =>
               s.changed = "" /\ \A k \in DOMAIN s.todo : s.todo[k] \notin Changing
        /\ s.rank = "writer" /\ tb \notin WriterEnds =>
               s.changed # "gone" /\ \A k \in DOMAIN s.todo : s.todo[k] \notin Ending

(* A token bound to another account still has its binding looked at before *)
(* the next change.                                                        *)
WithinBinding(tb, s) ==
    s.foreign =>
        /\ s.actor = "token"
        /\ s.changed # "" => Unbound(tb, s.verb) /\ s.changed = "written"
        /\ \A k \in DOMAIN s.todo :
            s.todo[k] \in Changing \ {"discard"} =>
                \/ After(s.todo, k, {"bind", "human"})
                \/ Unbound(tb, s.verb) /\ s.todo[k] \notin Ending

(* A step that may refuse once the row has been changed is masked by then. *)
RefusalsMasked(tb, s) ==
    /\ \A k \in DOMAIN s.todo :
        /\ s.todo[k] \in Refusing
        /\ s.changed # "" \/ After(s.todo, k, Changing \ {"adopt"})
        => \/ s.mask \/ After(s.todo, k, {"mask"})
           \/ Excepted(tb, s.verb, s.todo[k])
    /\ s.code = "refused" /\ s.changed # "" => Excepted(tb, s.verb, s.why)

(* Silent reads change nothing; writes are mounted behind the audit layer. *)
SilentReads(tb, s) ==
    /\ s.verb = "GET" /\ s.path \notin {"admin", "credentials", "extract", "auth"} =>
           s.changed = "" /\ \A k \in DOMAIN s.todo : s.todo[k] \notin Changing
    /\ s.mount = "bare" => s.verb = "GET" \/ tb = "settings"

(* While a skip step is ahead, an unexcused change shows in the outcome;   *)
(* once it has been taken, a change it passed over has an excuse.          *)
Telling(skip) == IF skip = "skipIdle" THEN {"inserted", "changed"} ELSE {"inserted"}
SkipsHonest(s) ==
    /\ s.skip => /\ s.path \notin {"admin", "credentials", "extract"}
                 /\ s.changed = "" \/ s.excuse # ""
    /\ \A k \in DOMAIN s.todo :
        s.todo[k] \in Skipping =>
            /\ k = Len(s.todo)
            /\ s.path \notin {"admin", "credentials", "extract"}
            /\ s.changed # "" /\ s.excuse = "" => s.outcome \in Telling(s.todo[k])
            /\ \A j \in DOMAIN s.todo :
                /\ s.todo[j] \in Changing => s.todo[j] \in {"tryMerge"} \cup Reported(s.todo[k])
                /\ s.todo[j] \in Reporting => s.changed = "" /\ ~After(s.todo, j, Changing)

(* What the audit layer has written down. *)
Accounted(tb, s) ==
    s.phase = "closed" /\ Owed(s) =>
        \/ s.logged \in {s.actor, "lost"}
        \/ s.mount = "bare" /\ (s.verb = "GET" \/ tb = "settings")
        \/ OidcHandshake(s)
        \/ s.skip /\ s.excuse # ""

Sound(tb, s) ==
    /\ Staged(s)
    /\ WithinScope(tb, s)
    /\ WithinBinding(tb, s)
    /\ RefusalsMasked(tb, s)
    /\ SilentReads(tb, s)
    /\ SkipsHonest(s)
    /\ Accounted(tb, s)

Kept ==
    /\ subject \in Tables
    /\ row \in Row
    /\ McpTypeOK
    /\ slots \in [Slots -> Request]
    /\ \A i \in Slots : Sound(subject, slots[i])

-----------------------------------------------------------------------------
(* Plans: what comes after the first step. *)

(* A plan with steps left has a first one, and nothing comes before it. *)
LEMMA FirstStep ==
  ASSUME NEW q \in Seq(STRING), q # <<>>
  PROVE  /\ 1 \in DOMAIN q /\ Head(q) = q[1] /\ Head(q) \in STRING
         /\ Tail(q) \in Seq(STRING) /\ Len(Tail(q)) = Len(q) - 1 /\ Len(q) \in Nat
         /\ Len(q) > 1 <=> Tail(q) # <<>>
         /\ \A K : ~After(q, 1, K)
<1>1. \A K : ~After(q, 1, K)
  BY DEF After
<1>2. Len(q) \in Nat /\ Len(q) # 0
  OBVIOUS
<1>3. Tail(q) \in Seq(STRING) /\ Len(Tail(q)) = Len(q) - 1
  OBVIOUS
<1>6. ASSUME NEW t \in Seq(STRING) PROVE t = <<>> <=> Len(t) = 0
  OBVIOUS
<1>7. Tail(q) = <<>> <=> Len(Tail(q)) = 0
  BY <1>3, <1>6, Zenon
<1>8. ASSUME NEW m \in Nat, m # 0, NEW n, n = m - 1 PROVE m > 1 <=> n # 0
  BY <1>8
<1>4. Len(q) > 1 <=> Tail(q) # <<>>
  BY <1>2, <1>3, <1>7, <1>8, Zenon
<1>5. 1 \in DOMAIN q /\ Head(q) = q[1] /\ Head(q) \in STRING
  BY <1>2
<1> QED BY <1>1, <1>2, <1>3, <1>4, <1>5, Zenon

LEMMA NonEmpty ==
  ASSUME NEW q \in Seq(STRING), NEW k \in DOMAIN q PROVE q # <<>>
<1>1. k \in 1..Len(q) /\ Len(q) \in Nat
  OBVIOUS
<1> QED BY <1>1

(* What comes before a step is the first step or comes before it in the rest. *)
LEMMA LaterSteps ==
  ASSUME NEW q \in Seq(STRING), q # <<>>, NEW k \in DOMAIN Tail(q)
  PROVE  /\ k + 1 \in DOMAIN q /\ Tail(q)[k] = q[k + 1]
         /\ k + 1 = Len(q) <=> k = Len(Tail(q))
         /\ \A K : After(q, k + 1, K) <=> Head(q) \in K \/ After(Tail(q), k, K)
<1>1. k \in 1..(Len(q) - 1) /\ Len(q) \in Nat /\ Len(Tail(q)) = Len(q) - 1
  OBVIOUS
<1>2. \A j \in 1..(Len(q) - 1) : Tail(q)[j] = q[j + 1]
  OBVIOUS
<1>3. Head(q) = q[1] /\ DOMAIN q = 1..Len(q)
  OBVIOUS
<1>4. ASSUME NEW K, After(q, k + 1, K) PROVE Head(q) \in K \/ After(Tail(q), k, K)
  <2>1. PICK j \in 1..k : q[j] \in K
    BY <1>1, <1>4 DEF After
  <2>2. CASE j = 1
    BY <1>3, <2>1, <2>2, Zenon
  <2>3. CASE j # 1
    <3>1. j - 1 \in 1..(k - 1) /\ Tail(q)[j - 1] = q[j]
      BY <1>1, <1>2, <2>1, <2>3
    <3> QED BY <2>1, <3>1, Zenon DEF After
  <2> QED BY <2>2, <2>3, Zenon
<1>5. ASSUME NEW K, Head(q) \in K \/ After(Tail(q), k, K) PROVE After(q, k + 1, K)
  <2>1. CASE Head(q) \in K
    BY <1>1, <1>3, <2>1 DEF After
  <2>2. ASSUME NEW j \in 1..(k - 1), Tail(q)[j] \in K PROVE After(q, k + 1, K)
    <3>1. j + 1 \in 1..k /\ Tail(q)[j] = q[j + 1]
      BY <1>1, <1>2
    <3> QED BY <1>1, <2>2, <3>1 DEF After
  <2> QED BY <1>5, <2>1, <2>2, Zenon DEF After
<1> QED BY <1>1, <1>2, <1>3, <1>4, <1>5

-----------------------------------------------------------------------------
(* The row a step leaves behind. *)

LEMMA Rows ==
  /\ Absent \in Row /\ Absent.live = FALSE
  /\ \A v \in Values : LiveRow(v) \in Row /\ LiveRow(v) # Absent /\ LiveRow(v).live = TRUE
<1>1. Absent.live = FALSE /\ \A v : LiveRow(v).live = TRUE
  BY Zenon DEF Absent, LiveRow
<1>2. \A v : LiveRow(v) # Absent
  BY <1>1, Zenon
<1>3. Absent \in Row /\ \A v \in Values : LiveRow(v) \in Row
  BY Zenon DEF Row, LiveRow
<1> QED BY <1>1, <1>2, <1>3, Zenon

\* A row that is there, and what an update of one column makes of it.
LEMMA RowThere ==
  ASSUME NEW r \in Row, r # Absent
  PROVE  /\ r \in [val : Values, live : BOOLEAN]
         /\ \A v \in Values : /\ [r EXCEPT !.val = v] \in Row
                               /\ [r EXCEPT !.val = v] # Absent
                               /\ [r EXCEPT !.val = v].live = r.live
         /\ \A l \in BOOLEAN : /\ [r EXCEPT !.live = l] \in Row
                                /\ [r EXCEPT !.live = l] # Absent
                                /\ [r EXCEPT !.live = l].live = l
<1>1. r \in [val : Values, live : BOOLEAN]
  BY Zenon DEF Row
<1>2. Absent.val = "none" /\ "none" \notin Values
  BY AccessAssumption, Zenon DEF AccessAssumption, Absent
<1>3. ASSUME NEW v \in Values
      PROVE  /\ [r EXCEPT !.val = v] \in [val : Values, live : BOOLEAN]
             /\ [r EXCEPT !.val = v].val = v /\ [r EXCEPT !.val = v].live = r.live
  BY <1>1, Zenon
<1>4. ASSUME NEW l \in BOOLEAN
      PROVE  /\ [r EXCEPT !.live = l] \in [val : Values, live : BOOLEAN]
             /\ [r EXCEPT !.live = l].val = r.val /\ [r EXCEPT !.live = l].live = l
  BY <1>1, Zenon
<1>5. ASSUME NEW x \in [val : Values, live : BOOLEAN] PROVE x \in Row /\ x # Absent
  BY <1>2, Zenon DEF Row
<1> QED BY <1>1, <1>3, <1>4, <1>5, Zenon

\* What a step may write: rows, only if it is a step that writes, and an end
\* only if it is a step that ends.
LEMMA RowWritten ==
  ASSUME NEW step, NEW s, s.seen \in Row, row \in Row, ~MustRefuse(step, s),
         NEW new \in Written(step, s)
  PROVE  /\ new \in Row
         /\ new # row => step \in Changing /\ (step = "discard" => s.actor = "user")
         /\ new # row /\ step \notin Ending => new # Absent /\ (row.live => new.live)
<1> DEFINE Goal(w) == /\ w \in Row
                      /\ w # row => step \in Changing /\ (step = "discard" => s.actor = "user")
                      /\ w # row /\ step \notin Ending => w # Absent /\ (row.live => w.live)
<1>0. /\ Absent \in Row /\ \A v \in Values : LiveRow(v) \in Row
      /\ row \in Row /\ row.live \in BOOLEAN
  BY Rows, RowThere, Zenon
<1>1. ASSUME NEW v \in Values, step \in Changing, step # "discard" PROVE Goal(LiveRow(v))
  BY <1>1, Rows, Zenon
<1>2. ASSUME NEW w \in Merged, step \in Changing, step # "discard" PROVE Goal(w)
  <2>1. CASE Present
    BY <1>2, <2>1, RowThere DEF Merged, Present
  <2>2. CASE ~Present
    BY <1>1, <1>2, <2>2, Zenon DEF Merged
  <2> QED BY <2>1, <2>2, Zenon
<1>3. Goal(row)
  BY Zenon
<1>4. CASE step \in {"insert", "write"}
  <2>1. Written(step, s) = {LiveRow(v) : v \in Values}
    BY <1>4, Zenon DEF Written
  <2> QED BY <1>1, <1>4, <2>1 DEF Changing
<1>5. CASE step = "adopt"
  <2>1. Written(step, s) = IF Present THEN {row} ELSE {LiveRow(v) : v \in Values}
    BY <1>5, Zenon DEF Written
  <2> QED BY <1>1, <1>3, <1>5, <2>1 DEF Changing
<1>6. CASE step \in {"merge", "update", "heartbeat"}
  <2>1. Written(step, s) = Merged
    BY <1>6, Zenon DEF Written
  <2> QED BY <1>2, <1>6, <2>1, Zenon DEF Changing
<1>7. CASE step = "tryMerge"
  <2>1. Written(step, s) = Merged \cup {row}
    BY <1>7, Zenon DEF Written
  <2> QED BY <1>2, <1>3, <1>7, <2>1, Zenon DEF Changing
<1>15. CASE step = "tryReconcile"
  <2>1. Written(step, s) = Merged \cup {row, Absent}
    BY <1>15, Zenon DEF Written
  <2>2. Goal(Absent)
    BY <1>0, <1>15, Zenon DEF Changing, Ending
  <2> QED BY <1>2, <1>3, <1>15, <2>1, <2>2, Zenon DEF Changing
<1>8. CASE step \in {"amend", "tryAmend"}
  <2>1. Written(step, s) = IF Present THEN Merged ELSE {row}
    BY <1>8, Zenon DEF Written
  <2> QED BY <1>2, <1>3, <1>8, <2>1 DEF Changing
<1>9. CASE step = "ensure"
  <2>1. Written(step, s) = {Ensured(s.seen, v) : v \in Values}
    BY <1>9, Zenon DEF Written
  <2>2. PICK v \in Values : new = Ensured(s.seen, v)
    BY <2>1, Zenon
  <2>3. \/ new = LiveRow(v) \/ new = row
        \/ Present /\ new = [row EXCEPT !.live = TRUE]
    BY <2>2, Zenon DEF Ensured
  <2>4. CASE Present /\ new = [row EXCEPT !.live = TRUE]
    BY <1>9, <2>4, RowThere, Zenon DEF Present, Changing
  <2> QED BY <1>1, <1>3, <1>9, <2>3, <2>4, Zenon DEF Changing
<1>10. CASE step \in {"end", "revoke", "sweepEnd"}
  <2>1. new \in {row, Ended(row)}
    BY <1>10, Zenon DEF Written
  <2>2. Ended(row) \in Row
    <3>0. Ended(Absent) = Absent
      <4>1. Absent \in [val : {"none"}, live : BOOLEAN] /\ Absent.live = FALSE
        BY Zenon DEF Absent
      <4>2. /\ [Absent EXCEPT !.live = FALSE] \in [val : {"none"}, live : BOOLEAN]
            /\ [Absent EXCEPT !.live = FALSE].live = FALSE
        BY <4>1, Zenon
      <4> QED BY <4>1, <4>2, Zenon DEF Ended
    <3>1. CASE row = Absent
      BY <3>0, <3>1, Zenon
    <3>2. CASE row # Absent
      BY <3>2, RowThere, Zenon DEF Ended
    <3> QED BY <3>1, <3>2, Zenon
  <2> QED BY <1>3, <1>10, <2>1, <2>2, Zenon DEF Changing, Ending
<1>11. CASE step = "revive"
  <2>1. new = [row EXCEPT !.live = TRUE] /\ Present
    BY <1>11, Zenon DEF Written, MustRefuse
  <2> QED BY <1>11, <2>1, RowThere, Zenon DEF Present, Changing
<1>12. CASE step \in {"remove", "sweep", "replace"}
  <2>1. new \in {row, Absent} \cup {LiveRow(v) : v \in Values}
    BY <1>12, Zenon DEF Written
  <2> QED BY <1>0, <1>3, <1>12, <2>1, Zenon DEF Changing, Ending
<1>13. CASE step = "discard"
  <2>1. new = IF s.actor = "user" THEN Absent ELSE row
    BY <1>13, Zenon DEF Written
  <2> QED BY <1>0, <1>3, <1>13, <2>1, Zenon DEF Changing, Ending
<1>14. CASE step \notin Changing
  <2>1. new = row
    BY <1>14, Zenon DEF Written, Changing
  <2> QED BY <1>3, <2>1, Zenon
<1> QED BY <1>4, <1>5, <1>6, <1>7, <1>8, <1>9, <1>10, <1>11, <1>12, <1>13, <1>14,
        <1>15, Zenon DEF Changing

-----------------------------------------------------------------------------
(* A request that takes a step: what becomes of its fields. *)

Advanced(u) ==
    IF Len(u.todo) > 1 THEN [u EXCEPT !.todo = Tail(@)]
    ELSE [u EXCEPT !.phase = "answered", !.todo = <<>>, !.seen = Absent,
                   !.outcome = "", !.mask = FALSE, !.code = "ok"]

SameOrigin(s, t) ==
    /\ t.verb = s.verb /\ t.path = s.path /\ t.mount = s.mount /\ t.actor = s.actor
    /\ t.rank = s.rank /\ t.foreign = s.foreign

(* Go takes the first step off the plan and touches nothing a property reads. *)
LEMMA AdvancedFields ==
  ASSUME NEW u \in Request, u.todo # <<>>
  PROVE  /\ Advanced(u) \in Request
         /\ SameOrigin(u, Advanced(u))
         /\ Advanced(u).todo = Tail(u.todo)
         /\ Advanced(u).changed = u.changed /\ Advanced(u).excuse = u.excuse
         /\ Advanced(u).skip = u.skip /\ Advanced(u).why = u.why
         /\ Len(u.todo) > 1 => /\ Advanced(u).mask = u.mask /\ Advanced(u).outcome = u.outcome
                               /\ Advanced(u).phase = u.phase /\ Advanced(u).code = u.code
         /\ ~(Len(u.todo) > 1) => Advanced(u).phase = "answered" /\ Advanced(u).code = "ok"
<1>1. /\ u.todo \in Seq(STRING) /\ Tail(u.todo) \in Seq(STRING)
      /\ ~(Len(u.todo) > 1) => Tail(u.todo) = <<>>
  BY FirstStep, Zenon DEF Request
<1>2. CASE Len(u.todo) > 1
  <2> DEFINE t == Tail(u.todo)
  <2>1. Advanced(u) = [u EXCEPT !.todo = t]
    BY <1>2, Zenon DEF Advanced
  <2>2. t \in Seq(STRING)
    BY <1>1, Zenon
  <2> HIDE DEF t
  <2>3. [u EXCEPT !.todo = t] \in Request /\ [u EXCEPT !.todo = t].todo = t
    BY <2>2, Zenon DEF Request
  <2>4. /\ SameOrigin(u, [u EXCEPT !.todo = t])
        /\ [u EXCEPT !.todo = t].changed = u.changed /\ [u EXCEPT !.todo = t].excuse = u.excuse
        /\ [u EXCEPT !.todo = t].skip = u.skip /\ [u EXCEPT !.todo = t].why = u.why
        /\ [u EXCEPT !.todo = t].mask = u.mask /\ [u EXCEPT !.todo = t].outcome = u.outcome
        /\ [u EXCEPT !.todo = t].phase = u.phase /\ [u EXCEPT !.todo = t].code = u.code
    BY Zenon DEF Request, SameOrigin
  <2> QED BY <1>2, <2>1, <2>3, <2>4, Zenon DEF t
<1>3. CASE ~(Len(u.todo) > 1)
  <2> DEFINE none == <<>>
             a == Absent
             no == FALSE
             w == [u EXCEPT !.phase = "answered", !.todo = none, !.seen = a]
             v == [w EXCEPT !.outcome = "", !.mask = no, !.code = "ok"]
  <2>1. Advanced(u) = v
    BY <1>3, Zenon DEF Advanced
  <2>2. a \in Row /\ none \in Seq(STRING) /\ no \in BOOLEAN /\ "" \in Text
    BY Rows DEF Text
  <2> HIDE DEF none, a, no
  <2>5. /\ w \in Request /\ SameOrigin(u, w) /\ w.phase = "answered" /\ w.todo = none
        /\ w.changed = u.changed /\ w.excuse = u.excuse /\ w.skip = u.skip /\ w.why = u.why
    BY <2>2, Zenon DEF Request, SameOrigin
  <2> HIDE DEF w
  <2>3. v \in Request
    BY <2>2, <2>5, ZenonT(60) DEF Request
  <2>4. /\ SameOrigin(u, v) /\ v.todo = none /\ v.changed = u.changed /\ v.excuse = u.excuse
        /\ v.skip = u.skip /\ v.why = u.why /\ v.phase = "answered" /\ v.code = "ok"
    BY <2>5, ZenonT(60) DEF Request, SameOrigin
  <2> QED BY <1>1, <1>3, <2>1, <2>3, <2>4, Zenon DEF none
<1> QED BY <1>2, <1>3, Zenon

-----------------------------------------------------------------------------
(* Every part of the invariant, while a request takes a step of its plan. *)

Taken(s, t) ==
    /\ s.todo # <<>> /\ t.todo = Tail(s.todo) /\ SameOrigin(s, t)
    /\ s.changed # "" => t.changed # ""
    /\ t.changed # s.changed =>
           Head(s.todo) \in Changing /\ (Head(s.todo) = "discard" => s.actor = "user")
    /\ t.changed = "gone" => s.changed = "gone" \/ Head(s.todo) \in Ending
    /\ Head(s.todo) = "bind" => ~s.foreign
    /\ Head(s.todo) = "human" => s.actor = "user"

LEMMA TakenSteps ==
  ASSUME NEW s \in Request, NEW t \in Request, Taken(s, t)
  PROVE  /\ s.todo \in Seq(STRING) /\ Head(s.todo) = s.todo[1] /\ 1 \in DOMAIN s.todo
         /\ \A K : ~After(s.todo, 1, K)
         /\ \A k \in DOMAIN t.todo :
               /\ k + 1 \in DOMAIN s.todo /\ t.todo[k] = s.todo[k + 1]
               /\ k + 1 = Len(s.todo) <=> k = Len(t.todo)
               /\ \A K : After(s.todo, k + 1, K) <=> Head(s.todo) \in K \/ After(t.todo, k, K)
<1>1. s.todo \in Seq(STRING) /\ s.todo # <<>> /\ t.todo = Tail(s.todo)
  BY Zenon DEF Request, Taken
<1> QED BY <1>1, FirstStep, LaterSteps

LEMMA TakenLast ==
  ASSUME NEW s \in Request, NEW t \in Request, Taken(s, t), NEW k \in DOMAIN t.todo
  PROVE  /\ k + 1 \in DOMAIN s.todo /\ t.todo[k] = s.todo[k + 1]
         /\ k + 1 = Len(s.todo) <=> k = Len(t.todo)
  BY TakenSteps

LEMMA NoneLeft ==
  ASSUME NEW s \in Request, NEW t \in Request, Taken(s, t), NEW K,
         \A k \in DOMAIN s.todo : s.todo[k] \notin K
  PROVE  Head(s.todo) \notin K /\ \A k \in DOMAIN t.todo : t.todo[k] \notin K
<1>1. Head(s.todo) \notin K
  BY TakenSteps
<1>2. ASSUME NEW k \in DOMAIN t.todo PROVE t.todo[k] \notin K
  <2>1. k + 1 \in DOMAIN s.todo /\ t.todo[k] = s.todo[k + 1]
    BY TakenSteps
  <2> QED BY <2>1, Zenon
<1> QED BY <1>1, <1>2, Zenon

(* A step on the plan stays within the scopes of its caller. *)
LEMMA ScopeTaken ==
  ASSUME NEW s \in Request, NEW t \in Request, Taken(s, t), NEW tb, WithinScope(tb, s)
  PROVE  WithinScope(tb, t)
<1> SUFFICES ASSUME s.path # "auth"
             PROVE  /\ s.rank = "reader" => /\ t.changed = ""
                                            /\ \A k \in DOMAIN t.todo : t.todo[k] \notin Changing
                    /\ s.rank = "writer" /\ tb \notin WriterEnds =>
                          /\ t.changed # "gone"
                          /\ \A k \in DOMAIN t.todo : t.todo[k] \notin Ending
  BY Zenon DEF WithinScope, Taken, SameOrigin
<1>1. CASE s.rank = "reader"
  <2>1. s.changed = "" /\ \A k \in DOMAIN s.todo : s.todo[k] \notin Changing
    BY <1>1, Zenon DEF WithinScope
  <2>2. Head(s.todo) \notin Changing /\ \A k \in DOMAIN t.todo : t.todo[k] \notin Changing
    BY <2>1, NoneLeft, Zenon
  <2> QED BY <1>1, <2>1, <2>2, Zenon DEF Taken
<1>2. CASE s.rank = "writer" /\ tb \notin WriterEnds
  <2>1. s.changed # "gone" /\ \A k \in DOMAIN s.todo : s.todo[k] \notin Ending
    BY <1>2, Zenon DEF WithinScope
  <2>2. Head(s.todo) \notin Ending /\ \A k \in DOMAIN t.todo : t.todo[k] \notin Ending
    BY <2>1, NoneLeft, Zenon
  <2> QED BY <1>2, <2>1, <2>2, Zenon DEF Taken
<1> QED BY <1>1, <1>2, Zenon

(* A foreign token that got past a bind step is none. *)
LEMMA BindingTaken ==
  ASSUME NEW s \in Request, NEW t \in Request, Taken(s, t), NEW tb, WithinBinding(tb, s)
  PROVE  WithinBinding(tb, t)
<1> SUFFICES ASSUME s.foreign
             PROVE  /\ t.changed # "" => Unbound(tb, s.verb) /\ t.changed = "written"
                    /\ \A k \in DOMAIN t.todo :
                        t.todo[k] \in Changing \ {"discard"} =>
                          \/ After(t.todo, k, {"bind", "human"})
                          \/ Unbound(tb, s.verb) /\ t.todo[k] \notin Ending
  BY Zenon DEF WithinBinding, Taken, SameOrigin
<1>1. s.actor = "token" /\ Head(s.todo) \notin {"bind", "human"}
  BY Zenon DEF WithinBinding, Taken
<1>2. \A k \in DOMAIN s.todo :
        s.todo[k] \in Changing \ {"discard"} =>
          \/ After(s.todo, k, {"bind", "human"})
          \/ Unbound(tb, s.verb) /\ s.todo[k] \notin Ending
  BY Zenon DEF WithinBinding
<1>3. Head(s.todo) \in Changing \ {"discard"} =>
        Unbound(tb, s.verb) /\ Head(s.todo) \notin Ending
  <2>1. /\ 1 \in DOMAIN s.todo /\ Head(s.todo) = s.todo[1]
        /\ ~After(s.todo, 1, {"bind", "human"})
    BY TakenSteps, Zenon
  <2> QED BY <1>2, <2>1, Zenon
<1>4. t.changed # "" => Unbound(tb, s.verb) /\ t.changed = "written"
  <2>1. t.changed \in {"", "written", "gone"}
    BY Zenon DEF Request
  <2>2. t.changed # s.changed => Head(s.todo) \in Changing \ {"discard"}
    BY <1>1, Zenon DEF Taken
  <2>3. s.changed # "" => Unbound(tb, s.verb) /\ s.changed = "written"
    BY Zenon DEF WithinBinding
  <2> QED BY <1>3, <2>1, <2>2, <2>3, Zenon DEF Taken
<1>5. ASSUME NEW k \in DOMAIN t.todo, t.todo[k] \in Changing \ {"discard"}
      PROVE  \/ After(t.todo, k, {"bind", "human"})
             \/ Unbound(tb, s.verb) /\ t.todo[k] \notin Ending
  BY <1>1, <1>2, <1>5, TakenSteps, Zenon
<1> QED BY <1>4, <1>5, Zenon

(* Once a change is made, what is left of the plan cannot refuse unmasked. *)
LEMMA RefusalsTaken ==
  ASSUME NEW s \in Request, NEW t \in Request, Taken(s, t), NEW tb, RefusalsMasked(tb, s),
         t.code # "refused",
         t.todo # <<>> => /\ s.mask \/ Head(s.todo) = "mask" => t.mask
                          /\ t.changed # s.changed /\ Head(s.todo) = "adopt" => t.mask
  PROVE  RefusalsMasked(tb, t)
<1> SUFFICES ASSUME NEW k \in DOMAIN t.todo, t.todo[k] \in Refusing,
                    t.changed # "" \/ After(t.todo, k, Changing \ {"adopt"}),
                    ~t.mask, ~After(t.todo, k, {"mask"})
             PROVE  Excepted(tb, s.verb, t.todo[k])
  BY Zenon DEF RefusalsMasked, Taken, SameOrigin
<1>1. /\ k + 1 \in DOMAIN s.todo /\ t.todo[k] = s.todo[k + 1]
      /\ \A K : After(s.todo, k + 1, K) <=> Head(s.todo) \in K \/ After(t.todo, k, K)
  BY TakenSteps, Zenon
<1>2. t.todo # <<>>
  BY NonEmpty, Zenon DEF Request
<1>3. ~s.mask /\ Head(s.todo) # "mask"
  BY <1>2, Zenon
<1>4. s.changed # "" \/ After(s.todo, k + 1, Changing \ {"adopt"})
  <2>1. CASE After(t.todo, k, Changing \ {"adopt"})
    BY <1>1, <2>1, Zenon
  <2>2. CASE t.changed # "" /\ t.changed = s.changed
    BY <2>2, Zenon
  <2>3. CASE t.changed # s.changed
    <3>1. Head(s.todo) \in Changing \ {"adopt"}
      BY <1>2, <2>3, Zenon DEF Taken
    <3> QED BY <1>1, <3>1, Zenon
  <2> QED BY <2>1, <2>2, <2>3, Zenon
<1>5. ~After(s.todo, k + 1, {"mask"})
  BY <1>1, <1>3, Zenon
<1> QED BY <1>1, <1>3, <1>4, <1>5, Zenon DEF RefusalsMasked

(* A read stays one. *)
LEMMA ReadsTaken ==
  ASSUME NEW s \in Request, NEW t \in Request, Taken(s, t), NEW tb, SilentReads(tb, s)
  PROVE  SilentReads(tb, t)
<1> SUFFICES ASSUME s.verb = "GET", s.path \notin {"admin", "credentials", "extract", "auth"}
             PROVE  t.changed = "" /\ \A k \in DOMAIN t.todo : t.todo[k] \notin Changing
  BY Zenon DEF SilentReads, Taken, SameOrigin
<1>1. s.changed = "" /\ \A k \in DOMAIN s.todo : s.todo[k] \notin Changing
  BY Zenon DEF SilentReads
<1>2. Head(s.todo) \notin Changing /\ \A k \in DOMAIN t.todo : t.todo[k] \notin Changing
  BY <1>1, NoneLeft, Zenon
<1> QED BY <1>1, <1>2, Zenon DEF Taken

(* A change shows in the outcome until the skip step looks at it. *)
LEMMA SkipsTaken ==
  ASSUME NEW s \in Request, NEW t \in Request, Taken(s, t), SkipsHonest(s), ~t.skip,
         NEW wrote \in BOOLEAN,
         ~wrote => t.changed = s.changed /\ t.excuse = s.excuse,
         wrote => Head(s.todo) \in Changing,
         s.excuse # "" => t.excuse # "",
         t.todo # <<>> =>
           /\ Head(s.todo) \notin Reporting => t.outcome = s.outcome
           /\ wrote /\ Head(s.todo) \in {"write", "sweep", "sweepEnd"} =>
                 t.outcome \in {"inserted", "changed"} \/ t.excuse # ""
           /\ wrote /\ Head(s.todo) = "ensure" => t.outcome = "inserted" \/ t.excuse # ""
           /\ wrote /\ Head(s.todo) = "tryMerge" => t.excuse # ""
  PROVE  SkipsHonest(t)
<1> SUFFICES ASSUME NEW k \in DOMAIN t.todo, t.todo[k] \in Skipping
             PROVE  /\ k = Len(t.todo)
                    /\ s.path \notin {"admin", "credentials", "extract"}
                    /\ t.changed # "" /\ t.excuse = "" => t.outcome \in Telling(t.todo[k])
                    /\ \A j \in DOMAIN t.todo :
                        /\ t.todo[j] \in Changing => t.todo[j] \in {"tryMerge"} \cup Reported(t.todo[k])
                        /\ t.todo[j] \in Reporting => t.changed = "" /\ ~After(t.todo, j, Changing)
  BY Zenon DEF SkipsHonest, Taken, SameOrigin
<1>1. /\ k + 1 \in DOMAIN s.todo /\ t.todo[k] = s.todo[k + 1]
      /\ k + 1 = Len(s.todo) <=> k = Len(t.todo)
  BY TakenLast, Zenon
<1>2. /\ k + 1 = Len(s.todo)
      /\ s.path \notin {"admin", "credentials", "extract"}
      /\ s.changed # "" /\ s.excuse = "" => s.outcome \in Telling(t.todo[k])
      /\ \A j \in DOMAIN s.todo :
          /\ s.todo[j] \in Changing => s.todo[j] \in {"tryMerge"} \cup Reported(t.todo[k])
          /\ s.todo[j] \in Reporting => s.changed = "" /\ ~After(s.todo, j, Changing)
  BY <1>1, Zenon DEF SkipsHonest
<1>3. /\ Head(s.todo) \in Changing => Head(s.todo) \in {"tryMerge"} \cup Reported(t.todo[k])
      /\ Head(s.todo) \in Reporting => s.changed = ""
  <2>1. Head(s.todo) = s.todo[1] /\ 1 \in DOMAIN s.todo
    BY TakenSteps, Zenon
  <2> QED BY <1>2, <2>1, Zenon
<1>4. t.todo # <<>>
  BY NonEmpty, Zenon DEF Request
<1>5. ASSUME t.changed # "", t.excuse = "" PROVE t.outcome \in Telling(t.todo[k])
  <2>1. CASE wrote
    <3>1. Head(s.todo) \in Reported(t.todo[k])
      BY <1>3, <1>4, <1>5, <2>1, Zenon
    <3> QED BY <1>4, <1>5, <2>1, <3>1, Zenon DEF Reported, Telling
  <2>2. CASE ~wrote
    BY <1>2, <1>3, <1>4, <1>5, <2>2, Zenon
  <2> QED BY <2>1, <2>2, Zenon
<1>6. ASSUME NEW j \in DOMAIN t.todo
      PROVE  /\ t.todo[j] \in Changing => t.todo[j] \in {"tryMerge"} \cup Reported(t.todo[k])
             /\ t.todo[j] \in Reporting => t.changed = "" /\ ~After(t.todo, j, Changing)
  <2>1. /\ j + 1 \in DOMAIN s.todo /\ t.todo[j] = s.todo[j + 1]
        /\ After(s.todo, j + 1, Changing) <=>
             Head(s.todo) \in Changing \/ After(t.todo, j, Changing)
    BY TakenSteps, ZenonT(60)
  <2> QED BY <1>2, <2>1, Zenon DEF Taken
<1> QED BY <1>1, <1>2, <1>5, <1>6, Zenon

-----------------------------------------------------------------------------
(* Callers and what they are admitted for. *)

(* Only a collector token holds the vm-collector scope, and nothing else. *)
LEMMA CallerKinds ==
  ASSUME NEW caller \in Callers
  PROVE  /\ caller.actor \in {"anonymous", "user", "token"}
         /\ "vm-collector" \in caller.scopes =>
               caller.actor = "token" /\ caller.scopes = {"vm-collector"}
<1>1. CASE caller = Anonymous
  BY <1>1, Zenon DEF Anonymous
<1>2. CASE caller \in Users
  <2>1. PICK role \in DOMAIN ScopesForRole, p \in BOOLEAN :
          caller = [actor |-> "user", scopes |-> ScopesForRole[role], pending |-> p,
                    bound |-> "none"]
    BY <1>2 DEF Users
  <2>2. "vm-collector" \notin ScopesForRole[role]
    BY <2>1 DEF ScopesForRole
  <2> QED BY <2>1, <2>2, Zenon
<1>3. CASE caller \in PlainTokens
  BY <1>3 DEF PlainTokens
<1>4. CASE caller \in CollectorTokens
  BY <1>4 DEF CollectorTokens
<1> QED BY <1>1, <1>2, <1>3, <1>4, Zenon DEF Callers

(* What a rank rules out: no scope above it is held. *)
LEMMA RankCovers ==
  ASSUME NEW caller
  PROVE  /\ Rank(caller) \in {"reader", "writer", "remover"}
         /\ Rank(caller) = "reader" /\ ~caller.pending =>
               \A want \in {"write", "delete", "admin", "vm-collector"} : ~HasScope(caller, want)
         /\ Rank(caller) = "writer" =>
               \A want \in {"delete", "admin", "vm-collector"} : ~HasScope(caller, want)
<1>1. HasScope(caller, "admin") => HasScope(caller, "delete")
  BY Zenon DEF HasScope
<1> QED BY <1>1, Zenon DEF Rank

Known(route, caller) == IF route.open THEN Anonymous ELSE caller

LEMMA IdleFields ==
  /\ Idle \in Request
  /\ Idle.phase = "idle" /\ Idle.todo = <<>> /\ Idle.changed = "" /\ Idle.mask = FALSE
  /\ Idle.skip = FALSE /\ Idle.excuse = "" /\ Idle.outcome = "" /\ Idle.code = ""
  /\ Idle.rank = "" /\ Idle.foreign = FALSE /\ Idle.mount = "" /\ Idle.why = ""
  /\ Idle.path = "" /\ Idle.logged = ""
<1>1. Absent \in Row /\ <<>> \in Seq(STRING) /\ "" \in Text
  BY Rows DEF Text
<1>2. Idle \in Request
  BY <1>1, Zenon DEF Idle, Request
<1> QED BY <1>2, Zenon DEF Idle

LEMMA AdmitFields ==
  ASSUME NEW route \in Route, NEW plan \in route.plans, NEW caller \in Callers
  PROVE  LET a == Admit(route, plan, caller)
             known == Known(route, caller) IN
         /\ a \in Request
         /\ a.verb = route.verb /\ a.path = route.path /\ a.mount = route.mount
         /\ a.todo = plan /\ a.actor = known.actor /\ a.rank = Rank(known)
         /\ a.foreign = ~EnforceCloudAccountBinding(known)
         /\ a.phase = (IF plan = <<>> THEN "answered" ELSE "run")
         /\ a.code = (IF plan = <<>> THEN "ok" ELSE "")
         /\ a.changed = "" /\ a.mask = FALSE /\ a.skip = FALSE /\ a.excuse = "" /\ a.outcome = ""
<1> DEFINE known == Known(route, caller)
           actor == known.actor
           rank == Rank(known)
           foreign == ~EnforceCloudAccountBinding(known)
           phase == IF plan = <<>> THEN "answered" ELSE "run"
           code == IF plan = <<>> THEN "ok" ELSE ""
           b == [Idle EXCEPT !.phase = phase, !.verb = route.verb, !.path = route.path,
                             !.mount = route.mount, !.todo = plan]
           a == [b EXCEPT !.actor = actor, !.rank = rank, !.foreign = foreign, !.code = code]
<1>1. Admit(route, plan, caller) = a
  BY Zenon DEF Admit, Known
<1>2. /\ route.verb \in Text /\ route.path \in Text /\ route.mount \in Text
      /\ plan \in Seq(STRING)
  BY Zenon DEF Route, Text
<1>3. known \in Callers
  BY Zenon DEF Known, Callers
<1>4. actor \in Text
  BY <1>3, CallerKinds, Zenon DEF Text
<1>5. rank \in Text
  BY RankCovers, Zenon DEF Text
<1>6. foreign \in BOOLEAN
  BY Zenon DEF EnforceCloudAccountBinding
<1>7. phase \in {"answered", "run"} /\ code \in {"ok", ""}
  BY Zenon
<1> HIDE DEF known, actor, rank, foreign, phase, code
<1>8. /\ b \in Request /\ b.phase = phase /\ b.verb = route.verb /\ b.path = route.path
      /\ b.mount = route.mount /\ b.todo = plan /\ b.changed = "" /\ b.mask = FALSE
      /\ b.skip = FALSE /\ b.excuse = "" /\ b.outcome = ""
  BY <1>2, <1>7, IdleFields, ZenonT(60) DEF Request
<1> HIDE DEF b
<1>9. /\ a \in Request /\ a.phase = phase /\ a.verb = route.verb /\ a.path = route.path
      /\ a.mount = route.mount /\ a.todo = plan /\ a.changed = "" /\ a.mask = FALSE
      /\ a.skip = FALSE /\ a.excuse = "" /\ a.outcome = ""
      /\ a.actor = actor /\ a.rank = rank /\ a.foreign = foreign /\ a.code = code
  BY <1>4, <1>5, <1>6, <1>7, <1>8, ZenonT(60) DEF Request
<1> QED BY <1>1, <1>9, Zenon DEF known, actor, rank, foreign, phase, code

(* The rules of RouteRules put every admitted request inside the invariant. *)
LEMMA AdmitSound ==
  ASSUME NEW route \in Surface, NEW plan \in route.plans, NEW caller \in Callers,
         Middleware(route, caller)
  PROVE  /\ Admit(route, plan, caller) \in Request
         /\ Sound(route.table, Admit(route, plan, caller))
<1> DEFINE a == Admit(route, plan, caller)
           known == Known(route, caller)
<1>0. route \in Route /\ plan \in Seq(STRING)
  BY RoutesTyped, Zenon DEF Route
<1>1. /\ a \in Request
      /\ a.verb = route.verb /\ a.path = route.path /\ a.mount = route.mount
      /\ a.todo = plan /\ a.actor = known.actor /\ a.rank = Rank(known)
      /\ a.foreign = ~EnforceCloudAccountBinding(known)
      /\ a.phase = (IF plan = <<>> THEN "answered" ELSE "run")
      /\ a.code = (IF plan = <<>> THEN "ok" ELSE "")
      /\ a.changed = "" /\ a.mask = FALSE /\ a.skip = FALSE /\ a.excuse = "" /\ a.outcome = ""
  BY <1>0, AdmitFields, ZenonT(60)
<1>2. /\ ~route.open => /\ known = caller /\ caller # Anonymous
                        /\ caller.pending => route.rotation
                        /\ \A want \in route.scopes : HasScope(caller, want)
      /\ route.open => known = Anonymous
  BY Zenon DEF Middleware, Known
<1> HIDE DEF a, known
<1>3. Staged(a)
  BY <1>1, Zenon DEF Staged
<1>4. WithinScope(route.table, a)
  <2> SUFFICES ASSUME route.path # "auth", NEW k \in DOMAIN plan
               PROVE  /\ Rank(known) = "reader" => plan[k] \notin Changing
                      /\ Rank(known) = "writer" /\ route.table \notin WriterEnds =>
                            plan[k] \notin Ending
    BY <1>1, Zenon DEF WithinScope
  <2>1. /\ plan[k] \in Changing =>
             /\ ~route.open /\ ~route.rotation
             /\ route.scopes \cap {"write", "delete", "admin", "vm-collector"} # {}
        /\ plan[k] \in Ending =>
             \/ route.table \in WriterEnds
             \/ route.scopes \cap {"delete", "admin", "vm-collector"} # {}
    BY RoutesCovered, Zenon DEF ScopeCovers
  <2>2. ASSUME Rank(known) = "reader", plan[k] \in Changing PROVE FALSE
    <3>1. PICK want \in route.scopes : want \in {"write", "delete", "admin", "vm-collector"}
      BY <2>1, <2>2, Zenon
    <3>2. HasScope(caller, want) /\ ~caller.pending /\ Rank(caller) = "reader"
      BY <1>2, <2>1, <2>2, Zenon
    <3> QED BY <3>1, <3>2, RankCovers, Zenon
  <2>3. ASSUME Rank(known) = "writer", route.table \notin WriterEnds, plan[k] \in Ending
        PROVE  FALSE
    <3>1. PICK want \in route.scopes : want \in {"delete", "admin", "vm-collector"}
      BY <2>1, <2>3, Zenon
    <3>2. plan[k] \in Changing
      BY <2>3, Zenon DEF Ending, Changing
    <3>3. HasScope(caller, want) /\ Rank(caller) = "writer"
      BY <1>2, <2>1, <2>3, <3>2, Zenon
    <3> QED BY <3>1, <3>3, RankCovers, Zenon
  <2> QED BY <2>2, <2>3, Zenon
<1>5. WithinBinding(route.table, a)
  <2> SUFFICES ASSUME ~EnforceCloudAccountBinding(known)
               PROVE  /\ known.actor = "token"
                      /\ \A k \in DOMAIN plan :
                          plan[k] \in Changing \ {"discard"} =>
                            \/ After(plan, k, {"bind", "human"})
                            \/ Unbound(route.table, route.verb) /\ plan[k] \notin Ending
    BY <1>1, Zenon DEF WithinBinding
  <2>1. "vm-collector" \in known.scopes
    BY Zenon DEF EnforceCloudAccountBinding
  <2>2. ~route.open /\ known = caller
    BY <1>2, <2>1 DEF Anonymous
  <2>3. caller.actor = "token" /\ caller.scopes = {"vm-collector"}
    BY <2>1, <2>2, CallerKinds, Zenon
  <2>4. route.scopes \subseteq {"vm-collector"}
    BY <1>2, <2>2, <2>3, Zenon DEF HasScope
  <2> QED BY <2>2, <2>3, <2>4, RoutesBind, Zenon DEF BindsFirst
<1>6. RefusalsMasked(route.table, a)
  BY <1>1, RoutesRefuseFirst, Zenon DEF RefusalsMasked, RefusesFirst
<1>7. SilentReads(route.table, a)
  BY <1>1, RoutesRead, Zenon DEF SilentReads, ReadsAreReads
<1>8. SkipsHonest(a)
  BY <1>1, RoutesSkip, Zenon DEF SkipsHonest, SkipsOnReport
<1>9. Accounted(route.table, a)
  BY <1>1, Zenon DEF Accounted
<1> QED BY <1>1, <1>3, <1>4, <1>5, <1>6, <1>7, <1>8, <1>9, Zenon DEF Sound, a

LEMMA IdleSound == ASSUME NEW tb PROVE Sound(tb, Idle)
<1>1. \A k \in DOMAIN Idle.todo : FALSE
  BY IdleFields, NonEmpty, Zenon DEF Request
<1> QED
  BY <1>1, IdleFields, Zenon DEF Sound, Staged, WithinScope, WithinBinding, RefusalsMasked, SilentReads,
                          SkipsHonest, Accounted

LEMMA TurnedAwaySound ==
  ASSUME NEW route \in Surface, NEW caller, NEW tb
  PROVE  TurnedAway(route, caller) \in Request /\ Sound(tb, TurnedAway(route, caller))
<1> DEFINE a == TurnedAway(route, caller)
<1>1. route.verb \in Text /\ "middleware" \in Text /\ "none" \in Text
  BY RoutesTyped, Zenon DEF Route, Text
<1>2. /\ a \in Request /\ a.phase = "closed" /\ a.todo = <<>> /\ a.changed = ""
      /\ a.skip = FALSE /\ a.code = "refused" /\ a.rank = "" /\ a.foreign = FALSE
      /\ a.mount = "" /\ a.why = "middleware"
  BY <1>1, IdleFields, ZenonT(60) DEF TurnedAway, Request
<1> HIDE DEF a
<1>3. \A k \in DOMAIN a.todo : FALSE
  BY <1>2, NonEmpty, Zenon DEF Request
<1>4. Staged(a) /\ WithinScope(tb, a) /\ WithinBinding(tb, a)
  BY <1>2, <1>3, Zenon DEF Staged, WithinScope, WithinBinding
<1>5. RefusalsMasked(tb, a) /\ SilentReads(tb, a)
  BY <1>2, <1>3, Zenon DEF RefusalsMasked, SilentReads
<1>6. SkipsHonest(a) /\ Accounted(tb, a)
  BY <1>2, <1>3, ZenonT(60) DEF SkipsHonest, Accounted, Owed
<1> QED BY <1>2, <1>4, <1>5, <1>6, ZenonT(60) DEF Sound, a

LEMMA ArrivalSound ==
  ASSUME NEW a \in Arrivals, NEW s \in a.requests
  PROVE  s \in Request /\ Sound(a.table, s)
<1>1. PICK x \in Admissions \cup Rejections : x.table = a.table /\ x.request = s
  BY DEF Arrivals
<1>2. CASE x \in Admissions
  <2>1. PICK route \in Surface, caller \in Callers :
          /\ Middleware(route, caller)
          /\ \E plan \in route.plans :
               x = [table |-> route.table, request |-> Admit(route, plan, caller)]
    BY <1>2, ZenonT(60) DEF Admissions
  <2>2. PICK plan \in route.plans :
          x = [table |-> route.table, request |-> Admit(route, plan, caller)]
    BY <2>1, Zenon
  <2> QED BY <1>1, <2>1, <2>2, AdmitSound, Zenon
<1>3. CASE x \in Rejections
  <2>1. PICK route \in Surface, caller \in Callers :
          x = [table |-> route.table, request |-> TurnedAway(route, caller)]
    BY <1>3, Zenon DEF Rejections
  <2> QED BY <1>1, <2>1, TurnedAwaySound, Zenon
<1> QED BY <1>1, <1>2, <1>3, Zenon

-----------------------------------------------------------------------------
(* The steps of a request: a refusal or a failure, a step of the plan, the *)
(* decision to stay out of the log, the audit layer.                       *)

LEMMA NoSteps == << >> \in Seq(STRING)
  OBVIOUS

(* A refusal or a failure of the next step. *)
LEMMA AnswerSound ==
  ASSUME NEW s \in Request, NEW tb, Sound(tb, s), s.phase = "run",
         NEW code \in {"refused", "failed"},
         code = "refused" => ~s.mask /\ Head(s.todo) \in Refusing,
         NEW why, why = (IF code = "refused" /\ s.changed # "" THEN Head(s.todo) ELSE "")
  PROVE  LET t == [s EXCEPT !.phase = "answered", !.todo = <<>>, !.seen = Absent,
                            !.outcome = "", !.mask = FALSE, !.code = code, !.why = why]
         IN  t \in Request /\ Sound(tb, t)
<1>0. s.todo \in Seq(STRING) /\ s.todo # <<>> /\ ~s.skip
  BY Zenon DEF Request, Sound, Staged
<1>1. /\ Head(s.todo) = s.todo[1] /\ 1 \in DOMAIN s.todo /\ Head(s.todo) \in STRING
      /\ \A K : ~After(s.todo, 1, K)
  BY <1>0, FirstStep, Zenon
<1>2. code = "refused" /\ s.changed # "" => Excepted(tb, s.verb, why)
  BY <1>1, Zenon DEF Sound, RefusalsMasked
<1> DEFINE none == <<>>
           a == Absent
           no == FALSE
           u == [s EXCEPT !.phase = "answered", !.todo = none, !.seen = a]
           v == [u EXCEPT !.outcome = "", !.mask = no, !.code = code, !.why = why]
<1>3. v = [s EXCEPT !.phase = "answered", !.todo = <<>>, !.seen = Absent,
                    !.outcome = "", !.mask = FALSE, !.code = code, !.why = why]
  BY Zenon
<1>4. /\ a \in Row /\ none \in Seq(STRING) /\ no \in BOOLEAN /\ "" \in Text /\ why \in Text
      /\ none = <<>>
  <2>1. why \in Text
    BY <1>1, Zenon DEF Text
  <2>2. a \in Row /\ none = <<>>
    BY Rows, Zenon
  <2>3. none \in Seq(STRING)
    BY NoSteps, Zenon
  <2>4. no \in BOOLEAN /\ "" \in Text
    BY Zenon DEF Text
  <2> QED BY <2>1, <2>2, <2>3, <2>4, Zenon
<1> HIDE DEF none, a, no
<1>5. /\ u \in Request /\ SameOrigin(s, u) /\ u.phase = "answered" /\ u.todo = none
      /\ u.changed = s.changed /\ u.excuse = s.excuse /\ u.skip = s.skip
  BY <1>4, ZenonT(60) DEF Request, SameOrigin
<1> HIDE DEF u
<1>6. /\ v \in Request /\ SameOrigin(s, v) /\ v.phase = "answered" /\ v.todo = none
      /\ v.changed = s.changed /\ v.excuse = s.excuse /\ v.skip = s.skip /\ v.why = why
      /\ v.code = code
  BY <1>4, <1>5, ZenonT(60) DEF Request, SameOrigin
<1> HIDE DEF v
<1>7. \A k \in DOMAIN v.todo : FALSE
  BY <1>4, <1>6, NonEmpty, Zenon DEF Request
<1>8. Staged(v) /\ WithinScope(tb, v) /\ WithinBinding(tb, v)
  BY <1>4, <1>6, <1>7, ZenonT(60) DEF Sound, Staged, WithinScope, WithinBinding, SameOrigin
<1>9. RefusalsMasked(tb, v) /\ SilentReads(tb, v)
  BY <1>2, <1>6, <1>7, Zenon DEF Sound, RefusalsMasked, SilentReads, SameOrigin
<1>10. SkipsHonest(v) /\ Accounted(tb, v)
  BY <1>0, <1>6, <1>7, Zenon DEF SkipsHonest, Accounted
<1> QED BY <1>3, <1>6, <1>8, <1>9, <1>10, Zenon DEF Sound

(* What a step reports of the row it wrote. *)
LEMMA Outcome ==
  ASSUME NEW step, NEW s \in Request, NEW new \in Written(step, s),
         NEW outcome \in Outcomes(step, s, new)
  PROVE  /\ outcome \in Text
         /\ step \notin Reporting => outcome = s.outcome
         /\ new # row /\ step = "adopt" => outcome = "inserted"
         /\ new # row /\ step \in {"sweep", "sweepEnd"} => outcome = "changed"
         /\ step \in {"write", "ensure"} => outcome \in {"inserted", "changed", "nochange"}
         /\ step = "ensure" => outcome # "changed"
<1>1. CASE step = "write"
  <2>1. outcome \in {"inserted", "changed", "nochange"}
    BY <1>1, Zenon DEF Outcomes
  <2> QED BY <1>1, <2>1, ZenonT(60) DEF Text, Reporting
<1>2. CASE step = "ensure"
  <2>1. outcome \in {"inserted", "nochange"}
    BY <1>2, Zenon DEF Outcomes
  <2> QED BY <1>2, <2>1, Zenon DEF Text, Reporting
<1>3. CASE step = "adopt"
  <2>1. outcome = IF Present THEN "nochange" ELSE "inserted"
    BY <1>3, Zenon DEF Outcomes
  <2>2. new # row => ~Present
    BY <1>3, Zenon DEF Written
  <2> QED BY <1>3, <2>1, <2>2, Zenon DEF Text, Reporting
<1>4. CASE step \in {"sweep", "sweepEnd"}
  <2>1. outcome = IF new # row THEN "changed" ELSE "nochange"
    BY <1>4, Zenon DEF Outcomes
  <2> QED BY <1>4, <2>1, Zenon DEF Text, Reporting
<1>5. CASE step = "elsewhere"
  <2>1. outcome \in {"inserted", "changed", "nochange"}
    BY <1>5, Zenon DEF Outcomes
  <2> QED BY <1>5, <2>1, ZenonT(60) DEF Text, Reporting, Written
<1>6. CASE step \notin Reporting
  <2>1. outcome = s.outcome
    BY <1>6, Zenon DEF Outcomes, Reporting
  <2> QED BY <1>6, <2>1, Zenon DEF Request, Reporting
<1> QED BY <1>1, <1>2, <1>3, <1>4, <1>5, <1>6, Zenon DEF Reporting

(* A change that the report misses is excused. *)
LEMMA Excused ==
  ASSUME NEW step, NEW s \in Request, NEW new, NEW outcome
  PROVE  /\ Excuse(step, s, new, outcome) \in Text
         /\ new = row => Excuse(step, s, new, outcome) = s.excuse
         /\ s.excuse # "" => Excuse(step, s, new, outcome) # ""
         /\ new # row /\ step = "tryMerge" => Excuse(step, s, new, outcome) # ""
         /\ new # row /\ step \in {"write", "ensure"} /\ outcome = "nochange" =>
               Excuse(step, s, new, outcome) # ""
<1>1. s.excuse \in Text /\ "raced" \in Text /\ "restored" \in Text /\ "aside" \in Text
  BY ZenonT(60) DEF Request, Text
<1> QED BY <1>1, Zenon DEF Excuse

(* What a step leaves in the fields that record it; `wrote` says whether   *)
(* the row is another one.                                                 *)
Noted(s, h, wrote, outcome, changed, excuse) ==
    /\ changed \in {"", "written", "gone"} /\ excuse \in Text /\ outcome \in Text
    /\ s.changed # "" => changed # ""
    /\ wrote => h \in Changing
    /\ ~wrote => changed = s.changed /\ excuse = s.excuse
    /\ changed # s.changed => h \in Changing /\ (h = "discard" => s.actor = "user")
    /\ changed = "gone" => s.changed = "gone" \/ h \in Ending
    /\ s.excuse # "" => excuse # ""
    /\ h \notin Reporting => outcome = s.outcome
    /\ wrote /\ h = "adopt" => outcome = "inserted"
    /\ wrote /\ h = "tryMerge" => excuse # ""
    /\ wrote /\ h \in {"write", "sweep", "sweepEnd"} =>
          outcome \in {"inserted", "changed"} \/ excuse # ""
    /\ wrote /\ h = "ensure" => outcome = "inserted" \/ excuse # ""

(* Every step of a handler leaves such a record. *)
LEMMA StepNoted ==
  ASSUME NEW s \in Request, row \in Row, NEW h, ~MustRefuse(h, s), NEW new \in Written(h, s),
         NEW outcome \in Outcomes(h, s, new)
  PROVE  /\ new \in Row
         /\ Noted(s, h, new # row, outcome, Change(s, new), Excuse(h, s, new, outcome))
<1> DEFINE changed == Change(s, new)
           excuse == Excuse(h, s, new, outcome)
           wrote == new # row
<1>0. s.seen \in Row /\ s.changed \in {"", "written", "gone"}
  BY Zenon DEF Request
<1>1. /\ new \in Row
      /\ wrote => h \in Changing /\ (h = "discard" => s.actor = "user")
      /\ wrote /\ h \notin Ending => new # Absent /\ (row.live => new.live)
  BY <1>0, RowWritten, Zenon
<1>2. /\ changed \in {"", "written", "gone"}
      /\ s.changed # "" => changed # ""
      /\ ~wrote => changed = s.changed
      /\ changed # s.changed => h \in Changing /\ (h = "discard" => s.actor = "user")
      /\ changed = "gone" => s.changed = "gone" \/ h \in Ending
  BY <1>0, <1>1, Zenon DEF Change
<1>3. /\ excuse \in Text
      /\ ~wrote => excuse = s.excuse
      /\ s.excuse # "" => excuse # ""
      /\ wrote /\ h = "tryMerge" => excuse # ""
      /\ wrote /\ h \in {"write", "ensure"} /\ outcome = "nochange" => excuse # ""
  BY Excused, ZenonT(60)
<1>4. /\ outcome \in Text
      /\ h \notin Reporting => outcome = s.outcome
      /\ wrote /\ h = "adopt" => outcome = "inserted"
      /\ wrote /\ h \in {"sweep", "sweepEnd"} => outcome = "changed"
      /\ h \in {"write", "ensure"} => outcome \in {"inserted", "changed", "nochange"}
      /\ h = "ensure" => outcome # "changed"
  BY Outcome, Zenon
<1> HIDE DEF changed, excuse, wrote
<1>5. Noted(s, h, wrote, outcome, changed, excuse)
  BY <1>1, <1>2, <1>3, <1>4, ZenonT(60) DEF Noted
<1> QED BY <1>1, <1>5, Zenon DEF changed, excuse, wrote

Stepped(s, seen, outcome, mask, changed, excuse) ==
    [s EXCEPT !.seen = seen, !.outcome = outcome, !.mask = mask,
              !.changed = changed, !.excuse = excuse]

(* A step of a handler keeps the invariant of its request. *)
LEMMA StepSound ==
  ASSUME NEW s \in Request, NEW tb, Sound(tb, s), s.phase = "run",
         NEW wrote \in BOOLEAN, NEW outcome, NEW changed, NEW excuse,
         Noted(s, Head(s.todo), wrote, outcome, changed, excuse),
         Head(s.todo) = "bind" => ~s.foreign, Head(s.todo) = "human" => s.actor = "user",
         NEW seen \in Row, NEW mask \in BOOLEAN,
         mask <=> s.mask \/ Head(s.todo) = "mask" \/ outcome = "inserted"
  PROVE  /\ Advanced(Stepped(s, seen, outcome, mask, changed, excuse)) \in Request
         /\ Sound(tb, Advanced(Stepped(s, seen, outcome, mask, changed, excuse)))
<1> DEFINE u == [s EXCEPT !.seen = seen, !.outcome = outcome, !.mask = mask,
                          !.changed = changed, !.excuse = excuse]
           t == Advanced(u)
<1>0. s.todo \in Seq(STRING) /\ s.todo # <<>> /\ ~s.skip /\ s.code = ""
  BY Zenon DEF Request, Sound, Staged
<1>7. /\ u \in Request /\ SameOrigin(s, u) /\ u.todo = s.todo /\ u.phase = "run"
      /\ u.changed = changed /\ u.excuse = excuse /\ u.skip = s.skip /\ u.code = s.code
      /\ u.mask = mask /\ u.outcome = outcome
  BY ZenonT(60) DEF Request, SameOrigin, Noted
<1> HIDE DEF u
<1>8. /\ t \in Request /\ SameOrigin(u, t) /\ t.todo = Tail(u.todo)
      /\ t.changed = u.changed /\ t.excuse = u.excuse /\ t.skip = u.skip
      /\ Len(u.todo) > 1 => /\ t.mask = u.mask /\ t.outcome = u.outcome
                            /\ t.phase = u.phase /\ t.code = u.code
      /\ ~(Len(u.todo) > 1) => t.phase = "answered" /\ t.code = "ok"
  BY <1>0, <1>7, AdvancedFields, Zenon
<1>9. Len(s.todo) > 1 <=> t.todo # <<>>
  BY <1>0, <1>7, <1>8, FirstStep, ZenonT(60)
<1> HIDE DEF t
<1>10. Taken(s, t)
  BY <1>0, <1>7, <1>8, ZenonT(60) DEF Taken, SameOrigin, Noted
<1>11. Staged(t)
  BY <1>0, <1>7, <1>8, <1>9, Zenon DEF Staged
<1>12. WithinScope(tb, t) /\ WithinBinding(tb, t) /\ SilentReads(tb, t)
  BY <1>8, <1>10, ScopeTaken, BindingTaken, ReadsTaken, Zenon DEF Sound
<1>13. RefusalsMasked(tb, t)
  <2>1. t.code # "refused"
    BY <1>0, <1>7, <1>8, Zenon
  <2>2. t.todo # <<>> => /\ s.mask \/ Head(s.todo) = "mask" => t.mask
                         /\ t.changed # s.changed /\ Head(s.todo) = "adopt" => t.mask
    BY <1>7, <1>8, <1>9, Zenon DEF Noted
  <2> QED BY <1>8, <1>10, <2>1, <2>2, RefusalsTaken, Zenon DEF Sound
<1>14. SkipsHonest(t)
  <2>1. ~t.skip
    BY <1>0, <1>7, <1>8, Zenon
  <2>2. /\ ~wrote => t.changed = s.changed /\ t.excuse = s.excuse
        /\ wrote => Head(s.todo) \in Changing
        /\ s.excuse # "" => t.excuse # ""
    BY <1>7, <1>8, Zenon DEF Noted
  <2>3. t.todo # <<>> =>
           /\ Head(s.todo) \notin Reporting => t.outcome = s.outcome
           /\ wrote /\ Head(s.todo) \in {"write", "sweep", "sweepEnd"} =>
                 t.outcome \in {"inserted", "changed"} \/ t.excuse # ""
           /\ wrote /\ Head(s.todo) = "ensure" => t.outcome = "inserted" \/ t.excuse # ""
           /\ wrote /\ Head(s.todo) = "tryMerge" => t.excuse # ""
    BY <1>7, <1>8, <1>9, Zenon DEF Noted
  <2> QED BY <1>8, <1>10, <2>1, <2>2, <2>3, SkipsTaken, ZenonT(60) DEF Sound
<1>15. Accounted(tb, t)
  BY <1>7, <1>8, Zenon DEF Accounted
<1> QED BY <1>8, <1>11, <1>12, <1>13, <1>14, <1>15, Zenon DEF Sound, Stepped, t, u

(* SetAuditSkip passes over excused changes only. *)
LEMMA SkipSound ==
  ASSUME NEW s \in Request, NEW tb, Sound(tb, s), s.phase = "run", Head(s.todo) \in Skipping,
         NEW skip \in BOOLEAN,
         skip = (IF Head(s.todo) = "skipIdle" THEN s.outcome = "nochange"
                                              ELSE s.outcome # "inserted")
  PROVE  LET u == [s EXCEPT !.skip = skip]
         IN  Advanced(u) \in Request /\ Sound(tb, Advanced(u))
<1> DEFINE u == [s EXCEPT !.skip = skip]
           t == Advanced(u)
<1>0. s.todo \in Seq(STRING) /\ s.todo # <<>>
  BY Zenon DEF Request, Sound, Staged
<1>1. 1 \in DOMAIN s.todo /\ Head(s.todo) = s.todo[1]
  BY <1>0, FirstStep, Zenon
<1>2. /\ 1 = Len(s.todo)
      /\ s.path \notin {"admin", "credentials", "extract"}
      /\ s.changed # "" /\ s.excuse = "" => s.outcome \in Telling(Head(s.todo))
  BY <1>1, Zenon DEF Sound, SkipsHonest
<1>3. skip => s.changed = "" \/ s.excuse # ""
  BY <1>2, Zenon DEF Telling, Skipping
<1>4. /\ u \in Request /\ u.todo = s.todo /\ SameOrigin(s, u) /\ u.skip = skip
      /\ u.changed = s.changed /\ u.excuse = s.excuse /\ u.why = s.why
  BY ZenonT(60) DEF Request, SameOrigin
<1> HIDE DEF u
<1>5. /\ t \in Request /\ SameOrigin(u, t) /\ t.todo = Tail(u.todo)
      /\ t.changed = u.changed /\ t.excuse = u.excuse /\ t.skip = u.skip /\ t.why = u.why
      /\ ~(Len(u.todo) > 1) => t.phase = "answered" /\ t.code = "ok"
  BY <1>0, <1>4, AdvancedFields, Zenon
<1>6. t.phase = "answered" /\ t.code = "ok" /\ t.todo = <<>>
  <2>a. Len(s.todo) = 1
    BY <1>2, ZenonT(60)
  <2>0. ~(Len(s.todo) > 1)
    BY <2>a
  <2>1. Tail(s.todo) = <<>> /\ ~(Len(s.todo) > 1)
    BY <1>0, <2>0, FirstStep, Zenon
  <2> QED BY <1>4, <1>5, <2>1, Zenon
<1> HIDE DEF t
<1>7. Taken(s, t)
  BY <1>0, <1>4, <1>5, ZenonT(60) DEF Taken, SameOrigin, Skipping
<1>8. Staged(t) /\ Accounted(tb, t)
  BY <1>6, Zenon DEF Staged, Accounted
<1>9. WithinScope(tb, t) /\ WithinBinding(tb, t) /\ SilentReads(tb, t)
  BY <1>5, <1>7, ScopeTaken, BindingTaken, ReadsTaken, Zenon DEF Sound
<1>10. RefusalsMasked(tb, t)
  BY <1>5, <1>6, <1>7, RefusalsTaken, Zenon DEF Sound
<1>11. SkipsHonest(t)
  <2>1. ASSUME NEW k \in DOMAIN t.todo PROVE FALSE
    BY <1>6, <2>1, NoSteps, NonEmpty, Zenon
  <2>2. t.skip => t.path \notin {"admin", "credentials", "extract"} /\ (t.changed = "" \/ t.excuse # "")
    BY <1>2, <1>3, <1>4, <1>5, ZenonT(60) DEF SameOrigin
  <2> QED BY <2>1, <2>2, Zenon DEF SkipsHonest
<1> QED BY <1>5, <1>8, <1>9, <1>10, <1>11, Zenon DEF Sound, t, u

(* The audit layer: what it leaves out is excused. *)
LEMMA AuditSound ==
  ASSUME NEW s \in Request, NEW tb, Sound(tb, s), s.phase = "answered",
         NEW logged \in Text,
         s.mount # "bare" /\ shouldAudit(s) /\ ~Skipped(s) => logged \in {s.actor, "lost"}
  PROVE  LET t == [s EXCEPT !.phase = "closed", !.logged = logged]
         IN  t \in Request /\ Sound(tb, t)
<1> DEFINE t == [s EXCEPT !.phase = "closed", !.logged = logged]
<1>1. /\ t \in Request /\ t.phase = "closed" /\ t.logged = logged /\ SameOrigin(s, t)
      /\ t.todo = s.todo /\ t.changed = s.changed /\ t.excuse = s.excuse /\ t.skip = s.skip
      /\ t.code = s.code /\ t.mask = s.mask /\ t.outcome = s.outcome /\ t.why = s.why
  BY Zenon DEF Request, SameOrigin
<1> HIDE DEF t
<1>2. Staged(t)
  BY <1>1, Zenon DEF Sound, Staged
<1>3. WithinScope(tb, t) /\ WithinBinding(tb, t) /\ SilentReads(tb, t)
  BY <1>1, ZenonT(60) DEF Sound, WithinScope, WithinBinding, SilentReads, SameOrigin
<1>4. RefusalsMasked(tb, t)
  BY <1>1, Zenon DEF Sound, RefusalsMasked, SameOrigin
<1>5. SkipsHonest(t)
  BY <1>1, ZenonT(60) DEF Sound, SkipsHonest, SameOrigin
<1>6. Accounted(tb, t)
  <2> SUFFICES ASSUME Owed(t)
               PROVE  \/ t.logged \in {t.actor, "lost"}
                      \/ t.mount = "bare" /\ (t.verb = "GET" \/ tb = "settings")
                      \/ OidcHandshake(t)
                      \/ t.skip /\ t.excuse # ""
    BY Zenon DEF Accounted
  <2>1. CASE s.mount = "bare"
    BY <1>1, <2>1, Zenon DEF Sound, SilentReads, SameOrigin
  <2>2. CASE ~shouldAudit(s)
    BY <1>1, <2>2, Zenon DEF Sound, SilentReads, SameOrigin, shouldAudit, Owed, OidcHandshake
  <2>3. CASE Skipped(s)
    BY <1>1, <2>3, Zenon DEF Sound, SkipsHonest, SameOrigin, Skipped, Owed
  <2> QED BY <1>1, <2>1, <2>2, <2>3, Zenon DEF SameOrigin
<1> QED BY <1>1, <1>2, <1>3, <1>4, <1>5, <1>6, Zenon DEF Sound, t

-----------------------------------------------------------------------------
(* The variables of the MCP server. *)

(* The channel is a sequence that fits its capacity. *)
LEMMA QueueBound ==
  ASSUME NEW q
  PROVE  q \in UNION {[1..n -> Tokens] : n \in 0..ChanCap}
            <=> q \in Seq(Tokens) /\ Len(q) <= ChanCap
<1>1. ASSUME NEW n \in 0..ChanCap, q \in [1..n -> Tokens]
      PROVE  q \in Seq(Tokens) /\ Len(q) <= ChanCap
  BY <1>1, McpAssumption
<1>2. ASSUME q \in Seq(Tokens), Len(q) <= ChanCap
      PROVE  Len(q) \in 0..ChanCap /\ q \in [1..Len(q) -> Tokens]
  BY <1>2, McpAssumption
<1> QED BY <1>1, <1>2, Zenon

LEMMA McpTyped ==
  McpTypeOK <=> /\ calls \in [Calls -> {"idle", "missed", "found", "admitted"}]
                /\ entry \in -1..TTL
                /\ queue \in Seq(Tokens) /\ Len(queue) <= ChanCap
                /\ expired \in BOOLEAN
                /\ quiet \in 0..(TTL + 1)
  BY QueueBound, Zenon DEF McpTypeOK, NoEntry

LEMMA AnnounceTyped ==
  ASSUME McpTypeOK, NEW token \in Tokens, Announce(token) PROVE McpTypeOK'
<1>1. queue' \in Seq(Tokens) /\ Len(queue') <= ChanCap
  <2>1. queue \in Seq(Tokens) /\ Len(queue) <= ChanCap
    BY McpTyped, Zenon
  <2> QED BY <2>1, McpAssumption DEF Announce
<1>2. queue' \in UNION {[1..n -> Tokens] : n \in 0..ChanCap}
  BY <1>1, QueueBound, Zenon
<1> QED BY <1>2, Zenon DEF McpTypeOK, Announce

LEMMA McpStepTyped ==
  ASSUME McpTypeOK, McpNext(Active) PROVE McpTypeOK'
<1> DEFINE Queues == UNION {[1..n -> Tokens] : n \in 0..ChanCap}
           Doing == {"idle", "missed", "found", "admitted"}
<1>0. /\ calls \in [Calls -> Doing] /\ entry \in -1..TTL /\ queue \in Queues
      /\ expired \in BOOLEAN /\ quiet \in 0..(TTL + 1)
  BY Zenon DEF McpTypeOK, NoEntry
<1>q. ASSUME queue \in Seq(Tokens), Len(queue) <= ChanCap, queue # <<>>
      PROVE  Tail(queue) \in Seq(Tokens) /\ Len(Tail(queue)) <= ChanCap
  BY <1>q, McpAssumption
<1> SUFFICES /\ calls' \in [Calls -> Doing] /\ entry' \in -1..TTL /\ queue' \in Queues
             /\ expired' \in BOOLEAN /\ quiet' \in 0..(TTL + 1)
  BY Zenon DEF McpTypeOK, NoEntry
<1>1. ASSUME NEW c \in Calls, \/ Get(c) \/ GetMiss(c) \/ RejectFound(c) \/ Finish(c)
                              \/ GetActiveTokenByPrefix(c, Active)
      PROVE  /\ calls' \in [Calls -> Doing]
             /\ UNCHANGED <<entry, queue, expired, quiet>>
  <2> HIDE DEF Queues
  <2> QED BY <1>0, <1>1, Zenon DEF Get, GetMiss, RejectFound, Finish, GetActiveTokenByPrefix
<1>2. ASSUME NEW c \in Calls, Put(c)
      PROVE  /\ calls' \in [Calls -> Doing] /\ entry' \in -1..TTL /\ quiet' \in 0..(TTL + 1)
             /\ UNCHANGED <<queue, expired>>
  <2> HIDE DEF Queues
  <2> QED BY <1>0, <1>2, McpAssumption DEF Put
<1>3. ASSUME EvictOldest \/ Expire
      PROVE  entry' \in -1..TTL /\ expired' \in BOOLEAN /\ UNCHANGED <<calls, queue, quiet>>
  <2> HIDE DEF Queues
  <2>1. CASE EvictOldest
    BY <1>0, <2>1, McpAssumption DEF EvictOldest, NoEntry
  <2>2. CASE Expire
    BY <1>0, <2>2, Zenon DEF Expire
  <2> QED BY <1>3, <2>1, <2>2, Zenon
<1>4. ASSUME Invalidate
      PROVE  queue' \in Queues /\ entry' \in -1..TTL /\ UNCHANGED <<calls, expired, quiet>>
  <2>1. queue' = Tail(queue) /\ queue # <<>>
    BY <1>4, Zenon DEF Invalidate
  <2>2. queue' \in Queues
    BY <1>0, <1>q, <2>1, QueueBound, ZenonT(60)
  <2> HIDE DEF Queues
  <2> QED BY <1>0, <1>4, <2>2, McpAssumption DEF Invalidate, NoEntry
<1>5. ASSUME Tick(Active)
      PROVE  entry' \in -1..TTL /\ quiet' \in 0..(TTL + 1) /\ UNCHANGED <<calls, queue, expired>>
  <2> DEFINE reset == Active \/ \E c \in Calls : calls[c] = "found"
  <2>1. /\ entry' = IF entry = -1 THEN -1 ELSE entry - 1
        /\ quiet' = IF reset THEN 0 ELSE IF quiet > TTL THEN quiet ELSE quiet + 1
        /\ UNCHANGED <<calls, queue, expired>>
    BY <1>5, Zenon DEF Tick, NoEntry
  <2> HIDE DEF reset, Queues
  <2> QED BY <1>0, <2>1, McpAssumption
<1>6. CASE Announce("other")
  BY <1>6, AnnounceTyped, Zenon DEF McpTypeOK, NoEntry, Tokens
<1> HIDE DEF Queues, Doing
<1> QED BY <1>0, <1>1, <1>2, <1>3, <1>4, <1>5, <1>6, Zenon DEF McpNext

-----------------------------------------------------------------------------
(* The invariant is kept by every action. *)

(* A request that moves inside the invariant leaves the others there. *)
LEMMA SlotKept ==
  ASSUME Kept, NEW i \in Slots, NEW t \in Request, Sound(subject, t),
         slots' = [slots EXCEPT ![i] = t], subject' = subject
  PROVE  /\ slots' \in [Slots -> Request]
         /\ \A j \in Slots : Sound(subject', slots'[j])
<1>1. /\ slots \in [Slots -> Request]
      /\ \A j \in Slots : Sound(subject, slots[j])
  BY Zenon DEF Kept
<1> QED BY <1>1, Zenon

LEMMA Untouched ==
  ASSUME Kept, UNCHANGED <<subject, row, mcpVars>>
  PROVE  subject' \in Tables /\ row' \in Row /\ McpTypeOK'
<1>1. subject \in Tables /\ row \in Row /\ McpTypeOK
  BY Zenon DEF Kept
<1> QED BY <1>1, Zenon DEF mcpVars, McpTypeOK

LEMMA KeptInit == Init => Kept
<1> SUFFICES ASSUME Init PROVE Kept
  BY Zenon
<1>1. subject \in Tables /\ row \in Row
  BY Rows, Zenon DEF Init
<1>2. McpTypeOK
  <2>1. <<>> \in Seq(Tokens) /\ Len(<<>>) <= ChanCap
    BY McpAssumption
  <2>2. queue \in UNION {[1..n -> Tokens] : n \in 0..ChanCap}
    BY <2>1, QueueBound, Zenon DEF Init, McpInit
  <2>3. calls \in [Calls -> {"idle", "missed", "found", "admitted"}]
    BY Zenon DEF Init, McpInit
  <2>4. entry \in NoEntry..TTL /\ quiet \in 0..(TTL + 1)
    BY McpAssumption DEF Init, McpInit, NoEntry
  <2>5. expired \in BOOLEAN
    BY Zenon DEF Init, McpInit
  <2> QED BY <2>2, <2>3, <2>4, <2>5, Zenon DEF McpTypeOK
<1>3. slots \in [Slots -> Request] /\ \A i \in Slots : Sound(subject, slots[i])
  BY IdleFields, IdleSound, ZenonT(60) DEF Init
<1> QED BY <1>1, <1>2, <1>3, Zenon DEF Kept

LEMMA ArriveKept == ASSUME Kept, NEW i \in Slots, Arrive(i) PROVE Kept'
<1>1. PICK a \in Arrivals : /\ a.table = subject
                            /\ \E s \in a.requests : slots' = [slots EXCEPT ![i] = s]
  BY Zenon DEF Arrive
<1>2. PICK s \in a.requests : slots' = [slots EXCEPT ![i] = s]
  BY <1>1, Zenon
<1>3. s \in Request /\ Sound(subject, s)
  BY <1>1, ArrivalSound, Zenon
<1>4. UNCHANGED <<subject, row, mcpVars>>
  BY Zenon DEF Arrive
<1> QED BY <1>2, <1>3, <1>4, SlotKept, Untouched, Zenon DEF Kept

LEMMA AnswerKept ==
  ASSUME Kept, NEW i \in Slots, Running(i), NEW code \in {"refused", "failed"},
         code = "refused" => ~slots[i].mask /\ Next1(i) \in Refusing,
         Answer(i, code), UNCHANGED <<subject, row, mcpVars>>
  PROVE  Kept'
<1> DEFINE s == slots[i]
           why == IF code = "refused" /\ s.changed # "" THEN Head(s.todo) ELSE ""
           t == [s EXCEPT !.phase = "answered", !.todo = <<>>, !.seen = Absent,
                          !.outcome = "", !.mask = FALSE, !.code = code, !.why = why]
<1>1. s \in Request /\ Sound(subject, s)
  BY Zenon DEF Kept
<1>2. s.phase = "run" /\ (code = "refused" => ~s.mask /\ Head(s.todo) \in Refusing)
  BY Zenon DEF Running, Next1
<1>3. t \in Request /\ Sound(subject, t)
  <2> HIDE DEF s
  <2> QED BY <1>1, <1>2, AnswerSound, ZenonT(60)
<1>4. slots' = [slots EXCEPT ![i] = t]
  BY Zenon DEF Answer, Next1
<1> HIDE DEF t
<1> QED BY <1>3, <1>4, SlotKept, Untouched, Zenon DEF Kept

LEMMA RefuseKept == ASSUME Kept, NEW i \in Slots, Refuse(i) PROVE Kept'
<1> DEFINE code == IF slots[i].mask THEN "failed" ELSE "refused"
<1>1. Next1(i) \in Refusing
  BY Zenon DEF Refuse, MustRefuse, Refusing
<1>2. code \in {"refused", "failed"} /\ (code = "refused" => ~slots[i].mask)
  BY Zenon
<1>3. Running(i) /\ Answer(i, code) /\ UNCHANGED <<subject, row, mcpVars>>
  BY Zenon DEF Refuse
<1> HIDE DEF code
<1> QED BY <1>1, <1>2, <1>3, AnswerKept, Zenon

LEMMA FailKept == ASSUME Kept, NEW i \in Slots, Fail(i) PROVE Kept'
<1>1. Running(i) /\ Answer(i, "failed") /\ UNCHANGED <<subject, row, mcpVars>>
  BY Zenon DEF Fail
<1> QED BY <1>1, AnswerKept, Zenon

LEMMA StepKept == ASSUME Kept, NEW i \in Slots, Step(i) PROVE Kept'
<1> DEFINE s == slots[i]
           h == Next1(i)
<1>0. s \in Request /\ Sound(subject, s) /\ row \in Row /\ subject \in Tables /\ McpTypeOK
  BY Zenon DEF Kept
<1>1. s.phase = "run" /\ ~MustRefuse(h, s)
  BY Zenon DEF Step, Running
<1>2. PICK new \in Written(h, s) :
        /\ \E outcome \in Outcomes(h, s, new) :
            Go(i, [s EXCEPT
                     !.seen = IF h = "snapshot" THEN row
                              ELSE IF h \in {"write", "ensure"} THEN Absent ELSE @,
                     !.outcome = outcome,
                     !.mask = @ \/ h = "mask" \/ outcome = "inserted",
                     !.changed = Change(s, new),
                     !.excuse = Excuse(h, s, new, outcome)])
        /\ row' = new
  BY Zenon DEF Step
<1>3. PICK outcome \in Outcomes(h, s, new) :
            Go(i, [s EXCEPT
                     !.seen = IF h = "snapshot" THEN row
                              ELSE IF h \in {"write", "ensure"} THEN Absent ELSE @,
                     !.outcome = outcome,
                     !.mask = @ \/ h = "mask" \/ outcome = "inserted",
                     !.changed = Change(s, new),
                     !.excuse = Excuse(h, s, new, outcome)])
  BY <1>2, Zenon
<1> DEFINE seen == IF h = "snapshot" THEN row
                   ELSE IF h \in {"write", "ensure"} THEN Absent ELSE s.seen
           mask == s.mask \/ h = "mask" \/ outcome = "inserted"
           changed == Change(s, new)
           excuse == Excuse(h, s, new, outcome)
           u == [s EXCEPT !.seen = seen, !.outcome = outcome, !.mask = mask,
                          !.changed = changed, !.excuse = excuse]
<1> HIDE DEF s, h
<1>4. Go(i, u)
  BY <1>3, Zenon
<1>5. slots' = [slots EXCEPT ![i] = Advanced(u)]
  <2> HIDE DEF u
  <2> QED BY <1>4, Zenon DEF Go, Advanced
<1>6. new \in Row /\ Noted(s, h, new # row, outcome, changed, excuse)
  BY <1>0, <1>1, <1>2, <1>3, StepNoted, ZenonT(60)
<1>7. h = "bind" => ~s.foreign
  BY <1>1, Zenon DEF MustRefuse
<1>8. h = "human" => s.actor = "user"
  BY <1>1, Zenon DEF MustRefuse
<1>9. seen \in Row /\ mask \in BOOLEAN
  BY <1>0, Rows, Zenon DEF Request
<1>10. Advanced(u) \in Request /\ Sound(subject, Advanced(u))
  <2> DEFINE wrote == new # row
  <2>1. wrote \in BOOLEAN /\ Noted(s, h, wrote, outcome, changed, excuse)
    BY <1>6, Zenon
  <2>2. h = Head(s.todo)
    BY Zenon DEF h, s, Next1
  <2>3. mask <=> s.mask \/ h = "mask" \/ outcome = "inserted"
    BY Zenon
  <2> HIDE DEF wrote, changed, excuse, seen, mask
  <2>4. /\ Noted(s, Head(s.todo), wrote, outcome, changed, excuse)
        /\ Head(s.todo) = "bind" => ~s.foreign
        /\ Head(s.todo) = "human" => s.actor = "user"
        /\ mask <=> s.mask \/ Head(s.todo) = "mask" \/ outcome = "inserted"
    BY <1>7, <1>8, <2>1, <2>2, <2>3, Zenon
  <2> HIDE DEF h
  <2>5. s \in Request /\ Sound(subject, s) /\ s.phase = "run" /\ wrote \in BOOLEAN
    BY <1>0, <1>1, <2>1, ZenonT(60)
  <2>6. seen \in Row /\ mask \in BOOLEAN
    BY <1>9, Zenon
  <2>7. u = Stepped(s, seen, outcome, mask, changed, excuse)
    BY Zenon DEF Stepped
  <2> HIDE DEF u
  <2>8. /\ Advanced(Stepped(s, seen, outcome, mask, changed, excuse)) \in Request
        /\ Sound(subject, Advanced(Stepped(s, seen, outcome, mask, changed, excuse)))
    BY <2>4, <2>5, <2>6, StepSound, Zenon
  <2> QED BY <2>7, <2>8, ZenonT(60)
<1>11. subject' = subject /\ row' = new
  BY <1>2, Zenon DEF Step
<1>12. McpTypeOK'
  <2>1. CASE UNCHANGED mcpVars
    BY <1>0, <2>1, Zenon DEF mcpVars, McpTypeOK
  <2>2. CASE Announce("this")
    BY <1>0, <2>2, AnnounceTyped, Zenon DEF Tokens
  <2> QED BY <2>1, <2>2, Zenon DEF Step
<1> HIDE DEF u
<1>13. slots' \in [Slots -> Request] /\ \A j \in Slots : Sound(subject', slots'[j])
  BY <1>5, <1>10, <1>11, SlotKept, ZenonT(60)
<1> QED BY <1>0, <1>6, <1>11, <1>12, <1>13, Zenon DEF Kept

LEMMA SetAuditSkipKept == ASSUME Kept, NEW i \in Slots, SetAuditSkip(i) PROVE Kept'
<1> DEFINE s == slots[i]
           skip == IF Next1(i) = "skipIdle" THEN s.outcome = "nochange"
                                            ELSE s.outcome # "inserted"
           u == [s EXCEPT !.skip = skip]
<1>0. s \in Request /\ Sound(subject, s)
  BY Zenon DEF Kept
<1>1. s.phase = "run" /\ Head(s.todo) \in Skipping
  BY Zenon DEF SetAuditSkip, Running, Skipping, Next1
<1>2. Go(i, u) /\ UNCHANGED <<subject, row, mcpVars>>
  BY Zenon DEF SetAuditSkip
<1>3. slots' = [slots EXCEPT ![i] = Advanced(u)]
  <2> HIDE DEF u
  <2> QED BY <1>2, Zenon DEF Go, Advanced
<1>4. Advanced(u) \in Request /\ Sound(subject, Advanced(u))
  <2>1. /\ skip \in BOOLEAN
        /\ skip = (IF Head(s.todo) = "skipIdle" THEN s.outcome = "nochange"
                                                ELSE s.outcome # "inserted")
    BY ZenonT(60) DEF Next1
  <2> HIDE DEF s, skip
  <2> QED BY <1>0, <1>1, <2>1, SkipSound, Zenon
<1> HIDE DEF u
<1> QED BY <1>2, <1>3, <1>4, SlotKept, Untouched, Zenon DEF Kept

LEMMA AuditKept == ASSUME Kept, NEW i \in Slots, AuditMiddleware(i) PROVE Kept'
<1> DEFINE s == slots[i]
<1>0. s \in Request /\ Sound(subject, s)
  BY Zenon DEF Kept
<1>1. PICK logged \in IF s.mount # "bare" /\ shouldAudit(s) /\ ~Skipped(s)
                      THEN {s.actor, "lost"} ELSE {"none"} :
        slots' = [slots EXCEPT ![i] = [s EXCEPT !.phase = "closed", !.logged = logged]]
  BY Zenon DEF AuditMiddleware
<1> DEFINE t == [s EXCEPT !.phase = "closed", !.logged = logged]
<1>2. /\ s.phase = "answered" /\ UNCHANGED <<subject, row, mcpVars>>
      /\ slots' = [slots EXCEPT ![i] = t]
  BY <1>1, ZenonT(60) DEF AuditMiddleware
<1> HIDE DEF s
<1>3. /\ s.mount # "bare" /\ shouldAudit(s) /\ ~Skipped(s) => logged \in {s.actor, "lost"}
      /\ logged \in {s.actor, "lost", "none"}
  BY <1>1, Zenon
<1>4. logged \in Text
  <2>1. s.actor \in Text
    BY <1>0, Zenon DEF Request
  <2> QED BY <1>3, <2>1, ZenonT(60) DEF Text
<1>5. t \in Request /\ Sound(subject, t)
  BY <1>0, <1>2, <1>3, <1>4, AuditSound, ZenonT(60)
<1> HIDE DEF t
<1> QED BY <1>2, <1>5, SlotKept, Untouched, Zenon DEF Kept

LEMMA LeaveKept == ASSUME Kept, NEW i \in Slots, Leave(i) PROVE Kept'
<1>1. slots' = [slots EXCEPT ![i] = Idle] /\ UNCHANGED <<subject, row, mcpVars>>
  BY Zenon DEF Leave
<1>2. Idle \in Request /\ Sound(subject, Idle)
  BY IdleFields, IdleSound, ZenonT(60)
<1> QED BY <1>1, <1>2, SlotKept, Untouched, Zenon DEF Kept

LEMMA CascadeKept == ASSUME Kept, Cascade PROVE Kept'
<1>0. row \in Row /\ Present /\ UNCHANGED <<subject, slots, mcpVars>>
  BY Zenon DEF Kept, Cascade
<1>1. row' \in {Absent, Ended(row)}
  BY Zenon DEF Cascade
<1>2. row' \in Row
  <2>1. Ended(row) \in Row
    BY <1>0, RowThere, Zenon DEF Present, Ended
  <2> QED BY <1>1, <2>1, Rows, Zenon
<1> QED BY <1>0, <1>2, Zenon DEF Kept, mcpVars, McpTypeOK

LEMMA KeptStep == Kept /\ [Next]_vars => Kept'
<1> SUFFICES ASSUME Kept, [Next]_vars PROVE Kept'
  BY Zenon
<1>1. ASSUME NEW i \in Slots,
             \/ Arrive(i) \/ Refuse(i) \/ Fail(i) \/ Step(i) \/ SetAuditSkip(i)
             \/ AuditMiddleware(i) \/ Leave(i)
      PROVE  Kept'
  BY <1>1, ArriveKept, RefuseKept, FailKept, StepKept, SetAuditSkipKept, AuditKept, LeaveKept, ZenonT(60)
<1>2. CASE McpNext(Active) /\ UNCHANGED <<subject, row, slots>>
  BY <1>2, McpStepTyped, Zenon DEF Kept
<1>3. CASE UNCHANGED vars
  BY <1>3, Zenon DEF Kept, vars, mcpVars, McpTypeOK
<1> QED BY <1>1, <1>2, <1>3, CascadeKept, Zenon DEF Next

(* Every request, however its steps interleave with those of the others,   *)
(* stays inside the invariant, and the row and the variables of the MCP    *)
(* server keep their types.                                                *)
THEOREM AlwaysKept == Spec => []Kept
  BY KeptInit, KeptStep, PTL DEF Spec

(* A request has steps left exactly while it runs and an answer from then  *)
(* on, and every variable of the access layer keeps its type, with any     *)
(* number of requests and calls.                                           *)
THEOREM AccessTypeCorrect == Spec => []TypeOK
<1>1. Kept => TypeOK
  <2> SUFFICES ASSUME Kept, NEW i \in Slots
               PROVE  /\ slots[i].phase \in {"idle", "run", "answered", "closed"}
                      /\ slots[i].seen \in Row
                      /\ slots[i].phase = "run" <=> slots[i].todo # <<>>
                      /\ slots[i].phase \in {"answered", "closed"} <=> slots[i].code # ""
    BY Zenon DEF Kept, TypeOK
  <2>1. slots[i] \in Request /\ Staged(slots[i])
    BY Zenon DEF Kept, Sound
  <2> QED BY <2>1, Zenon DEF Request, Staged
<1> QED BY <1>1, AlwaysKept, PTL

(* Everything the audit log is meant to hold is in it, whatever requests   *)
(* run between the statements of a handler: the audit middleware leaves    *)
(* out a bare read, the settings, an OIDC handshake, and a change          *)
(* SetAuditSkip could not see, and nothing else.                           *)
THEOREM AlwaysTraceable == Spec => []Traceable
<1>1. Kept => Traceable
  <2> SUFFICES ASSUME Kept, NEW i \in Slots, slots[i].phase = "closed", Owed(slots[i])
               PROVE  LET s == slots[i] IN
                      \/ s.logged \in {s.actor, "lost"}
                      \/ Unaudited(s)
                      \/ OidcHandshake(s)
                      \/ s.skip /\ s.excuse # ""
    BY Zenon DEF Traceable, Closed
  <2>1. Accounted(subject, slots[i])
    BY Zenon DEF Kept, Sound
  <2> QED BY <2>1, Zenon DEF Accounted, Unaudited
<1> QED BY <1>1, AlwaysKept, PTL

(* The middleware and the handlers never let a caller change the row       *)
(* beyond its scopes: readers change nothing outside /v1/auth/, writers    *)
(* end nothing that asks for the delete scope.                             *)
THEOREM ChangesAlwaysNeedTheirScope == Spec => []ChangesNeedTheirScope
<1>1. Kept => ChangesNeedTheirScope
  <2> SUFFICES ASSUME Kept, NEW i \in Slots
               PROVE  LET s == slots[i] IN
                      /\ s.rank = "reader" /\ s.changed # "" => s.path = "auth"
                      /\ s.rank = "writer" /\ s.changed = "gone" =>
                             \/ s.path = "auth"
                             \/ subject \in {"cluster_policies", "policy_reports", "flow_references"}
    BY Zenon DEF ChangesNeedTheirScope
  <2>1. WithinScope(subject, slots[i])
    BY Zenon DEF Kept, Sound
  <2> QED BY <2>1, Zenon DEF WithinScope, WriterEnds
<1> QED BY <1>1, AlwaysKept, PTL

(* A request that is answered 4xx has left the row alone, with the         *)
(* exceptions the code makes, whatever happened to the row between its     *)
(* statements.                                                             *)
THEOREM RefusedAlwaysMeansUntouched == Spec => []RefusedMeansUntouched
<1>1. Kept => RefusedMeansUntouched
  <2> SUFFICES ASSUME Kept, NEW i \in Slots, slots[i].code = "refused", slots[i].changed # ""
               PROVE  LET s == slots[i] IN
                      \/ s.why = "find"
                      \/ subject = "users" /\ s.verb = "PATCH" /\ s.why \in {"guard", "update"}
                      \/ subject = "cloud_accounts" /\ s.why = "bind"
                      \/ subject = "users" /\ s.verb = "POST" /\ s.why = "deny"
    BY ZenonT(60) DEF RefusedMeansUntouched, Closed
  <2>1. RefusalsMasked(subject, slots[i])
    BY Zenon DEF Kept, Sound
  <2> QED BY <2>1, Zenon DEF RefusalsMasked, Excepted
<1> QED BY <1>1, AlwaysKept, PTL

(* A collector token never changes what belongs to another account, except *)
(* by registration and by the image backfill, which end and delete nothing:*)
(* every other plan looks at the binding of the token before it writes.    *)
THEOREM AccountsAlwaysApart == Spec => []AccountsApart
<1>1. Kept => AccountsApart
  <2> SUFFICES ASSUME Kept, NEW i \in Slots, slots[i].foreign, slots[i].changed # ""
               PROVE  /\ subject \in {"cloud_accounts", "nodes"} /\ slots[i].verb = "POST"
                      /\ slots[i].changed = "written"
    BY Zenon DEF AccountsApart
  <2>1. WithinBinding(subject, slots[i])
    BY Zenon DEF Kept, Sound
  <2> QED BY <2>1, Zenon DEF WithinBinding, Unbound
<1> QED BY <1>1, AlwaysKept, PTL

-----------------------------------------------------------------------------
(***************************************************************************)
(* The bound on a stale entry of the MCP cache, for any number of calls    *)
(* and requests, any TTL and any channel, however full.  StaleWithinTTL is *)
(* not inductive: it says nothing while `quiet` is small.  What every step *)
(* keeps is that the time an entry has left and the time the token has     *)
(* been quiet never add up to more than the TTL.                           *)
(***************************************************************************)
Clocks ==
    /\ entry \in NoEntry..TTL
    /\ quiet \in 0..(TTL + 1)
    /\ entry # NoEntry => entry + quiet <= TTL

LEMMA InitClocks == Init => Clocks
  BY McpAssumption DEF Init, McpInit, Clocks, NoEntry

LEMMA PutClocks == ASSUME NEW c, Put(c) PROVE Clocks'
  BY McpAssumption DEF Put, Clocks, NoEntry

LEMMA TickClocks == ASSUME Clocks, NEW active, Tick(active) PROVE Clocks'
<1>1. entry' \in NoEntry..TTL /\ quiet' \in 0..(TTL + 1)
  BY McpAssumption DEF Tick, Clocks, NoEntry
<1>2. ASSUME entry' # NoEntry PROVE entry' + quiet' <= TTL
  <2>1. entry # NoEntry /\ entry' = entry - 1 /\ entry + quiet <= TTL
    BY <1>2, Zenon DEF Tick, Clocks
  <2>2. quiet' = 0 \/ quiet' = quiet \/ quiet' = quiet + 1
    BY Zenon DEF Tick
  <2>3. entry \in Nat /\ quiet \in Nat /\ TTL \in Nat
    BY <2>1, McpAssumption DEF Clocks, NoEntry
  <2> QED  BY <2>1, <2>2, <2>3
<1> QED  BY <1>1, <1>2, Zenon DEF Clocks

(* The entry is removed, or neither clock moves. *)
LEMMA OtherClocks ==
  ASSUME Clocks, entry' \in {entry, NoEntry}, quiet' = quiet
  PROVE  Clocks'
<1>1. CASE entry' = entry
  BY <1>1, Zenon DEF Clocks, NoEntry
<1>2. CASE entry' = NoEntry
  BY <1>2, McpAssumption DEF Clocks, NoEntry
<1> QED  BY <1>1, <1>2, Zenon

LEMMA McpNextClocks == ASSUME Clocks, NEW active, McpNext(active) PROVE Clocks'
<1>1. ASSUME NEW c \in Calls, Put(c) PROVE Clocks'
  BY <1>1, PutClocks, Zenon
<1>2. CASE Tick(active)
  BY <1>2, TickClocks, Zenon
<1>3. ASSUME NEW c \in Calls,
             \/ Get(c) \/ GetMiss(c) \/ GetActiveTokenByPrefix(c, active)
             \/ RejectFound(c) \/ Finish(c)
      PROVE  Clocks'
  <2>1. entry' = entry /\ quiet' = quiet
    BY <1>3, Zenon DEF Get, GetMiss, GetActiveTokenByPrefix, RejectFound, Finish
  <2> QED  BY <2>1, OtherClocks, Zenon
<1>4. CASE EvictOldest \/ Announce("other") \/ Invalidate \/ Expire
  <2>1. entry' \in {entry, NoEntry} /\ quiet' = quiet
    BY <1>4, Zenon DEF EvictOldest, Announce, Invalidate, Expire
  <2> QED  BY <2>1, OtherClocks, Zenon
<1> QED  BY <1>1, <1>2, <1>3, <1>4, Zenon DEF McpNext

(* A request touches the clocks in no step; a revocation only announces. *)
LEMMA RequestClocks ==
  ASSUME NEW i \in Slots,
         \/ Arrive(i) \/ Refuse(i) \/ Fail(i) \/ Step(i)
         \/ SetAuditSkip(i) \/ AuditMiddleware(i) \/ Leave(i)
  PROVE  entry' = entry /\ quiet' = quiet
<1>1. CASE Step(i)
  BY <1>1, Zenon DEF Step, Announce, mcpVars
<1>2. CASE Arrive(i) \/ Refuse(i) \/ Fail(i) \/ SetAuditSkip(i)
           \/ AuditMiddleware(i) \/ Leave(i)
  BY <1>2, Zenon DEF Arrive, Refuse, Fail, SetAuditSkip, AuditMiddleware, Leave,
                     mcpVars
<1> QED  BY <1>1, <1>2, Zenon

LEMMA NextClocks == Clocks /\ [Next]_vars => Clocks'
<1> SUFFICES ASSUME Clocks, [Next]_vars PROVE Clocks'
  BY Zenon
<1>1. ASSUME NEW i \in Slots,
             \/ Arrive(i) \/ Refuse(i) \/ Fail(i) \/ Step(i)
             \/ SetAuditSkip(i) \/ AuditMiddleware(i) \/ Leave(i)
      PROVE  Clocks'
  BY <1>1, RequestClocks, OtherClocks, Zenon
<1>2. CASE Cascade \/ UNCHANGED vars
  <2>1. entry' = entry /\ quiet' = quiet
    BY <1>2, Zenon DEF Cascade, vars, mcpVars
  <2> QED  BY <2>1, OtherClocks, Zenon
<1>3. CASE McpNext(Active)
  BY <1>3, McpNextClocks, Zenon
<1> QED  BY <1>1, <1>2, <1>3, Zenon DEF Next

(* Whatever requests and tool calls do, an entry of the MCP cache outlives *)
(* the last moment its token could be found by at most the TTL.            *)
THEOREM EntryOutlivesTokenByTTL == Spec => []StaleWithinTTL
<1>1. Clocks => StaleWithinTTL
  BY McpAssumption DEF Clocks, StaleWithinTTL, NoEntry
<1> QED  BY <1>1, InitClocks, NextClocks, PTL DEF Spec
=============================================================================
