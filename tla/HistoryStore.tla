---------------------------- MODULE HistoryStore ----------------------------
(***************************************************************************)
(* The time-travel history of one inventory entity (ADR-0021): the         *)
(* transactions of internal/store that write a cluster, namespace, node or *)
(* workload row, and timetravel.Capture, which all but the hard deletes    *)
(* call before they commit.                                                *)
(*                                                                         *)
(* The four kinds go through the same statements, so one row stands for    *)
(* any of them; only clusters are written by EnsureCluster and the other   *)
(* three by an upsert; nodes and workloads can also be hard-deleted.  The  *)
(* image columns of a node are in no history and are left out.  A          *)
(* transaction is a sequence of SQL statements, each one a step.           *)
(* PostgreSQL runs them at READ COMMITTED: a statement sees what was       *)
(* committed when it began and what its own transaction wrote; an UPDATE   *)
(* waits for the lock of a row that matched its snapshot and then checks   *)
(* the row again.  The insert of the history row is the last statement of  *)
(* the transaction and is one step with the commit.                        *)
(***************************************************************************)
EXTENDS Integers, Sequences

CONSTANTS Txs,        \* transactions, each run once
          Values,     \* contents of the watched fields
          MaxToggles, \* bound on the changes of time_travel_enabled
          Nobody      \* holder of a free row lock

\* The operations of internal/store on a cluster, and on the other kinds.
ClusterOps == {"ensure", "update", "softdelete"}
ChildOps == {"upsert", "update", "softdelete", "sweep", "delete"}
States == {"absent", "live", "terminated", "deleted"}
ChangeTypes == {"create", "update", "soft_delete", "restore"}

ASSUME HistoryAssumption ==
  /\ MaxToggles \in Nat
  /\ Nobody \notin Txs

VARIABLES row,      \* the committed row: its state and its watched fields
          lock,     \* the transaction that holds the row lock
          hist,     \* the committed history rows, in commit order
          clock,    \* time.Now, one tick per reading
          enabled, toggles,      \* settings.time_travel_enabled
          pc, op, value,         \* per transaction: its place and its input
          seen,     \* the state its first SELECT found
          mine,     \* the row as the transaction sees it
          snap, now, closing,    \* Capture's snapshot, timestamp and the open
                                 \* rows its UPDATE works on
          stray     \* history variable: a row was written without a capture,
                    \* or captured by a transaction without the row lock

tx == <<pc, op, value, seen, mine, snap, now, closing>>
settings == <<enabled, toggles>>
vars == <<row, lock, hist, clock, settings, tx, stray>>

Rows == [state : States, data : Values]
HistRow == [from : Nat, to : Nat, type : ChangeTypes, row : Rows]

\* valid_to IS NULL.
Open == 0
OpenRows == {i \in 1..Len(hist) : hist[i].to = Open}

Active(t) == pc[t] \in {"write", "snap", "close", "closing", "insert", "commit"}

\* The history rows on which another transaction holds the lock.
HeldByOthers(t) == UNION {closing[o] : o \in {x \in Txs \ {t} : pc[x] = "insert"}}

\* What a statement of t sees of the row.
View(t) == IF lock = t THEN mine[t] ELSE row

Free(t) == lock \in {t, Nobody}

\* The row is not in its table: it never was, or it was hard-deleted and its
\* id does not come back.
Missing == row.state \in {"absent", "deleted"}

Terminating(t) == op[t] \in {"softdelete", "sweep"}

\* detectNodeUpsertChangeType: from the row its SELECT found.
ChangeType(t) ==
  IF Terminating(t) THEN "soft_delete"
  ELSE IF op[t] = "update" THEN "update"
  ELSE IF seen[t] = "absent" THEN "create"
  ELSE IF seen[t] = "terminated" THEN "restore"
  ELSE "update"

-----------------------------------------------------------------------------
\* A database with no such row, or with one that was captured since its
\* creation.
Init ==
  /\ \E s \in States \ {"deleted"}, d \in Values :
       /\ row = [state |-> s, data |-> d]
       /\ hist = IF s = "absent" THEN <<>>
                 ELSE IF s = "live"
                 THEN <<[from |-> 1, to |-> Open, type |-> "create", row |-> row]>>
                 ELSE <<[from |-> 1, to |-> 2, type |-> "create",
                         row |-> [state |-> "live", data |-> d]],
                        [from |-> 2, to |-> Open, type |-> "soft_delete",
                         row |-> row]>>
  /\ lock = Nobody
  /\ clock = 3
  /\ enabled = TRUE /\ toggles = 0
  /\ pc = [t \in Txs |-> "idle"]
  /\ op \in [Txs -> ClusterOps] \cup [Txs -> ChildOps]
  /\ value \in [Txs -> Values]
  /\ seen = [t \in Txs |-> "absent"]
  /\ mine = [t \in Txs |-> row]
  /\ snap = [t \in Txs |-> row]
  /\ now = [t \in Txs |-> 0]
  /\ closing = [t \in Txs |-> {}]
  /\ stray = FALSE

Goto(t, l) == pc' = [pc EXCEPT ![t] = l]

\* UpdateSettings: an operator switches time travel off or on.
UpdateSettings ==
  /\ toggles < MaxToggles
  /\ toggles' = toggles + 1
  /\ enabled' = ~enabled
  /\ UNCHANGED <<row, lock, hist, clock, tx, stray>>

\* The SELECT by name with which upserts, EnsureCluster and the sweeps start.
ReadExisting(t) ==
  /\ pc[t] = "idle"
  /\ op[t] \in {"upsert", "ensure", "sweep"}
  /\ seen' = [seen EXCEPT ![t] = IF Missing THEN "absent" ELSE row.state]
  /\ Goto(t, "write")
  /\ UNCHANGED <<row, lock, hist, clock, settings, op, value, mine, snap, now,
                 closing, stray>>

\* SoftDeleteNamespace lists the children first, not the row.
ListChildren(t) ==
  /\ pc[t] = "idle"
  /\ op[t] = "softdelete"
  /\ Goto(t, "write")
  /\ UNCHANGED <<row, lock, hist, clock, settings, op, value, seen, mine, snap,
                 now, closing, stray>>

\* UpdateNamespace: the previous row FOR UPDATE.
ReadForUpdate(t) ==
  /\ pc[t] = "idle"
  /\ op[t] = "update"
  /\ ~Missing
  /\ lock = Nobody
  /\ lock' = t
  /\ mine' = [mine EXCEPT ![t] = row]
  /\ snap' = [snap EXCEPT ![t] = row]
  /\ seen' = [seen EXCEPT ![t] = row.state]
  /\ Goto(t, "write")
  /\ UNCHANGED <<row, hist, clock, settings, op, value, now, closing, stray>>

\* UpdateNamespace or DeleteNode of an id that does not exist: ErrNotFound.
UpdateMissing(t) ==
  /\ pc[t] = "idle"
  /\ op[t] \in {"update", "delete"}
  /\ Missing
  /\ Goto(t, "done")
  /\ UNCHANGED <<row, lock, hist, clock, settings, op, value, seen, mine, snap,
                 now, closing, stray>>

\* DeleteNode and DeleteWorkload: one DELETE, outside any transaction, and no
\* capture; the last history row stays open.
HardDelete(t) ==
  /\ pc[t] = "idle"
  /\ op[t] = "delete"
  /\ ~Missing
  /\ lock = Nobody
  /\ row' = [row EXCEPT !.state = "deleted"]
  /\ stray' = TRUE
  /\ Goto(t, "done")
  /\ UNCHANGED <<lock, hist, clock, settings, op, value, seen, mine, snap, now,
                 closing>>

-----------------------------------------------------------------------------
\* The statement that writes the row takes its lock and holds it until the
\* transaction ends.
Write(t, r) ==
  /\ Free(t)
  /\ lock' = t
  /\ mine' = [mine EXCEPT ![t] = r]
  /\ UNCHANGED <<row, hist, clock, settings, op, value, seen, snap, now, closing,
                 stray>>

\* The statement matched no row and locked nothing.
NoMatch(t) ==
  UNCHANGED <<row, lock, hist, clock, settings, op, value, seen, mine, snap, now,
              closing, stray>>

\* INSERT ... ON CONFLICT DO UPDATE SET ..., terminated_at = NULL.
UpsertWrite(t) ==
  /\ pc[t] = "write" /\ op[t] = "upsert"
  /\ row.state # "deleted"
  /\ Write(t, [state |-> "live", data |-> value[t]])
  /\ Goto(t, "snap")

\* ... after a hard delete it inserts another entity, with a new id and a
\* history of its own.
UpsertOther(t) ==
  /\ pc[t] = "write" /\ op[t] = "upsert"
  /\ row.state = "deleted"
  /\ NoMatch(t)
  /\ Goto(t, "done")

\* UPDATE namespaces SET ... WHERE id, under the lock of ReadForUpdate.
UpdateWrite(t) ==
  /\ pc[t] = "write" /\ op[t] = "update"
  /\ Write(t, [row EXCEPT !.data = value[t]])
  /\ Goto(t, "snap")

\* EnsureCluster, branch RESTORE: the UPDATE is by id alone.
EnsureRestore(t) ==
  /\ pc[t] = "write" /\ op[t] = "ensure"
  /\ seen[t] = "terminated"
  /\ Write(t, [row EXCEPT !.state = "live"])
  /\ Goto(t, "snap")

\* EnsureCluster, branch NO-OP: last_seen_at only, and no capture.
EnsureHeartbeat(t) ==
  /\ pc[t] = "write" /\ op[t] = "ensure"
  /\ seen[t] = "live"
  /\ Write(t, row)
  /\ Goto(t, "commit")

\* EnsureCluster, branch CREATE.
EnsureCreate(t) ==
  /\ pc[t] = "write" /\ op[t] = "ensure"
  /\ seen[t] = "absent" /\ row.state = "absent"
  /\ Write(t, [state |-> "live", data |-> value[t]])
  /\ Goto(t, "snap")

\* ... ON CONFLICT DO NOTHING: a concurrent transaction inserted first.
EnsureLost(t) ==
  /\ pc[t] = "write" /\ op[t] = "ensure"
  /\ seen[t] = "absent" /\ row.state # "absent"
  /\ NoMatch(t)
  /\ Goto(t, "done")

\* UPDATE ... SET terminated_at = NOW() WHERE ... AND terminated_at IS NULL.
\* SoftDeleteNamespace goes on to capture the row whatever it matched; the
\* sweep captures the ids its SELECT listed.
AfterTerminate(t) ==
  IF op[t] = "softdelete" \/ seen[t] = "live" THEN "snap" ELSE "commit"

TerminateWrite(t) ==
  /\ pc[t] = "write" /\ Terminating(t)
  /\ row.state = "live"
  /\ Write(t, [row EXCEPT !.state = "terminated"])
  /\ Goto(t, AfterTerminate(t))

\* ... of a row that is already terminated: nothing is locked.
TerminateNoMatch(t) ==
  /\ pc[t] = "write" /\ Terminating(t)
  /\ row.state = "terminated"
  /\ NoMatch(t)
  /\ Goto(t, AfterTerminate(t))

\* ... of a row that does not exist.
TerminateMissing(t) ==
  /\ pc[t] = "write" /\ Terminating(t)
  /\ Missing
  /\ NoMatch(t)
  /\ Goto(t, "done")

-----------------------------------------------------------------------------
\* Capture's early returns: time travel is off, or an update that has the
\* previous row changed no watched field.  Nor is there anything to capture
\* when the row is gone by the time it is read.
Skips(t) ==
  \/ ~enabled
  \/ op[t] = "update" /\ View(t) = snap[t]
  \/ View(t).state = "deleted"

\* namespaceRowMapNoLock, then Capture up to its timestamp.
Snapshot(t) ==
  /\ pc[t] = "snap"
  /\ ~Skips(t)
  /\ snap' = [snap EXCEPT ![t] = View(t)]
  /\ now' = [now EXCEPT ![t] = clock]
  /\ clock' = clock + 1
  /\ stray' = (stray \/ lock # t)
  /\ Goto(t, IF ChangeType(t) = "create" THEN "insert" ELSE "close")
  /\ UNCHANGED <<row, lock, hist, settings, op, value, seen, mine, closing>>

SkipCapture(t) ==
  /\ pc[t] = "snap"
  /\ Skips(t)
  /\ Goto(t, "commit")
  /\ UNCHANGED <<row, lock, hist, clock, settings, op, value, seen, mine, snap,
                 now, closing, stray>>

\* UPDATE ..._history SET valid_to: its snapshot is the rows open now ...
CloseBegin(t) ==
  /\ pc[t] = "close"
  /\ closing' = [closing EXCEPT ![t] = OpenRows]
  /\ Goto(t, "closing")
  /\ UNCHANGED <<row, lock, hist, clock, settings, op, value, seen, mine, snap,
                 now, stray>>

\* ... and it waits for those that another transaction is closing, and closes
\* the ones that are still open.
CloseEnd(t) ==
  /\ pc[t] = "closing"
  /\ closing[t] \cap HeldByOthers(t) = {}
  /\ closing' = [closing EXCEPT ![t] = closing[t] \cap OpenRows]
  /\ Goto(t, "insert")
  /\ UNCHANGED <<row, lock, hist, clock, settings, op, value, seen, mine, snap,
                 now, stray>>

\* The unique index on the create rows of an entity.
DuplicateCreate(t) ==
  ChangeType(t) = "create" /\ \E i \in 1..Len(hist) : hist[i].type = "create"

\* Mutant: valid_to is a second reading of the clock.
ClosedLater(t) ==
  [i \in 1..Len(hist) |->
     IF i \in closing[t] THEN [hist[i] EXCEPT !.to = clock] ELSE hist[i]]

\* The history with the rows that t closed.
Closed(t) ==
  [i \in 1..Len(hist) |->
     IF i \in closing[t] THEN [hist[i] EXCEPT !.to = now[t]] ELSE hist[i]]

NewRow(t) ==
  [from |-> now[t], to |-> Open, type |-> ChangeType(t), row |-> snap[t]]

\* The end of a transaction: its locks go, its locals are dead.
End(t) ==
  /\ Goto(t, "done")
  /\ lock' = IF lock = t THEN Nobody ELSE lock
  /\ closing' = [closing EXCEPT ![t] = {}]
  /\ UNCHANGED <<clock, settings, op, value, seen, mine, snap, now>>

\* insertHistoryRow, and the commit.
InsertAndCommit(t) ==
  /\ pc[t] = "insert"
  /\ ~DuplicateCreate(t)
  /\ row' = View(t)
  /\ hist' = Append(Closed(t), NewRow(t))
  /\ stray' = stray
  /\ End(t)

\* The insert violates the index.  Its error is dropped, but the transaction
\* is aborted and the commit fails.
InsertFails(t) ==
  /\ pc[t] = "insert"
  /\ DuplicateCreate(t)
  /\ UNCHANGED <<row, hist, stray>>
  /\ End(t)

\* Commit of a transaction that captured nothing.
Commit(t) ==
  /\ pc[t] = "commit"
  /\ row' = View(t)
  /\ stray' = (stray \/ View(t) # row)
  /\ hist' = hist
  /\ End(t)

\* A cancelled context or a lost connection rolls back.
Rollback(t) ==
  /\ Active(t)
  /\ UNCHANGED <<row, hist, stray>>
  /\ End(t)

Finished ==
  /\ \A t \in Txs : pc[t] = "done"
  /\ UNCHANGED vars

TxStep(t) ==
  \/ ReadExisting(t) \/ ListChildren(t) \/ ReadForUpdate(t) \/ UpdateMissing(t)
  \/ HardDelete(t) \/ UpsertWrite(t) \/ UpsertOther(t) \/ UpdateWrite(t)
  \/ EnsureRestore(t) \/ EnsureHeartbeat(t) \/ EnsureCreate(t) \/ EnsureLost(t)
  \/ TerminateWrite(t) \/ TerminateNoMatch(t) \/ TerminateMissing(t)
  \/ Snapshot(t) \/ SkipCapture(t) \/ CloseBegin(t) \/ CloseEnd(t)
  \/ InsertAndCommit(t) \/ InsertFails(t) \/ Commit(t) \/ Rollback(t)

Next == UpdateSettings \/ (\E t \in Txs : TxStep(t)) \/ Finished

Spec == Init /\ [][Next]_vars

-----------------------------------------------------------------------------
\* Every variable stays within its domain.
TypeOK ==
  /\ row \in Rows
  /\ lock \in Txs \cup {Nobody}
  /\ hist \in Seq(HistRow)
  /\ clock \in Nat
  /\ enabled \in BOOLEAN
  /\ toggles \in 0..MaxToggles
  /\ pc \in [Txs -> {"idle", "write", "snap", "close", "closing", "insert",
                     "commit", "done"}]
  /\ op \in [Txs -> ClusterOps \cup ChildOps]
  /\ value \in [Txs -> Values]
  /\ seen \in [Txs -> States]
  /\ mine \in [Txs -> Rows]
  /\ snap \in [Txs -> Rows]
  /\ now \in [Txs -> Nat]
  /\ closing \in [Txs -> SUBSET Nat]
  /\ stray \in BOOLEAN

\* The validity windows of an entity follow one another without a gap, only
\* the newest is open, and it shows the row as it is committed: GetEntityAsOf
\* has one answer for every instant, and the answer for now is the row.
Timeline ==
  /\ hist = <<>> <=> row.state = "absent"
  /\ \A i \in 1..Len(hist) :
       hist[i].to = IF i = Len(hist) THEN Open ELSE hist[i + 1].from
  /\ \A i \in 1..(Len(hist) - 1) : hist[i].from < hist[i + 1].from
  /\ hist # <<>> => hist[Len(hist)].row = row

\* As long as every transaction that changed the row captured it under the
\* row lock, the history is a timeline of the row, whatever the interleaving.
\* A change without a capture (time travel switched off, a hard delete) ends
\* the promise for the entity.
CapturedTimeline == ~stray => Timeline

\* Capture is best-effort: it never makes the transaction it runs in fail.
CaptureNeverAborts ==
  \A t \in Txs : ~(pc[t] = "insert" /\ DuplicateCreate(t))
=============================================================================
