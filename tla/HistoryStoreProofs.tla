------------------------- MODULE HistoryStoreProofs -------------------------
(***************************************************************************)
(* Proofs about HistoryStore: the type invariant, and the timeline of an   *)
(* entity whose every write was captured under the row lock, for any       *)
(* number of transactions, operations and switches of time travel.         *)
(***************************************************************************)
EXTENDS HistoryStore, TLAPS

Capturing == {"snap", "close", "closing", "insert"}

\* What each transaction knows of the row, captured or not.
LockOK(t) ==
  lock = t => /\ Active(t) /\ mine[t].state # "absent"
              /\ pc[t] = "write" => op[t] = "update"
SeenOK(t) == seen[t] # "absent" => row.state # "absent"
UpdateOK(t) == (op[t] = "update" /\ Active(t)) => (lock = t /\ seen[t] # "absent")
ExistsOK(t) ==
  (pc[t] \in Capturing /\ ChangeType(t) # "create") => row.state # "absent"
IdleOK(t) == pc[t] \notin {"closing", "insert"} => closing[t] = {}
KindOK(t) == pc[t] \in {"close", "closing"} => ChangeType(t) # "create"

Base ==
  /\ TypeOK
  /\ \A t \in Txs : /\ LockOK(t) /\ SeenOK(t) /\ UpdateOK(t)
                    /\ ExistsOK(t) /\ IdleOK(t) /\ KindOK(t)

\* What holds besides, as long as nothing strayed: only the holder of the row
\* lock captures, its timestamp is later than every history row, and its
\* UPDATE of the open rows has found the newest one.
CaptureOK(t) ==
  pc[t] \in {"close", "closing", "insert"} =>
    /\ lock = t
    /\ snap[t] = mine[t]
    /\ now[t] < clock
    /\ \A i \in 1..Len(hist) : hist[i].from < now[t]
CloseOK(t) ==
  pc[t] \in {"closing", "insert"} =>
    closing[t] = IF ChangeType(t) = "create" THEN {} ELSE OpenRows
Origin == hist # <<>> => hist[1].type = "create"
Past == \A i \in 1..Len(hist) : hist[i].from < clock

Clean ==
  ~stray => /\ Timeline /\ Origin /\ Past
            /\ \A t \in Txs : CaptureOK(t) /\ CloseOK(t)

-----------------------------------------------------------------------------
\* ChangeType is one of the values the history tables accept.
LEMMA ChangeTypeKnown ==
  ASSUME NEW t \in Txs
  PROVE  ChangeType(t) \in ChangeTypes
  BY Zenon DEF ChangeType, ChangeTypes

\* Closing rows keeps the history a sequence of history rows.
LEMMA ClosedSeq ==
  ASSUME TypeOK, NEW t \in Txs
  PROVE  /\ Closed(t) \in Seq(HistRow)
         /\ Len(Closed(t)) = Len(hist)
         /\ \A i \in 1..Len(hist) :
              Closed(t)[i] = IF i \in closing[t] THEN [hist[i] EXCEPT !.to = now[t]]
                             ELSE hist[i]
<1>1. hist \in Seq(HistRow) /\ Len(hist) \in Nat /\ now[t] \in Nat
  BY DEF TypeOK
<1>2. ASSUME NEW i \in 1..Len(hist)
      PROVE  (IF i \in closing[t] THEN [hist[i] EXCEPT !.to = now[t]] ELSE hist[i])
               \in HistRow
  <2>1. hist[i] \in HistRow
    BY <1>1
  <2>2. [hist[i] EXCEPT !.to = now[t]] \in HistRow
    BY <1>1, <2>1, Zenon DEF HistRow
  <2>. QED  BY <2>1, <2>2, Zenon
<1>3. Closed(t) \in [1..Len(hist) -> HistRow]
  BY <1>2, Zenon DEF Closed
<1>. QED  BY <1>1, <1>3 DEF Closed

\* What a statement sees of the row is a row.
LEMMA ViewRow ==
  ASSUME TypeOK, NEW t \in Txs
  PROVE  View(t) \in Rows
  BY Zenon DEF TypeOK, View

LEMMA TypeInit == Init => TypeOK
<1>. SUFFICES ASSUME Init PROVE TypeOK
  BY Zenon
<1>. USE HistoryAssumption
<1>1. row \in Rows
  BY DEF Init, Rows
<1>2. hist \in Seq(HistRow)
  <2>1. PICK s \in States \ {"deleted"}, d \in Values :
          /\ row = [state |-> s, data |-> d]
          /\ hist = IF s = "absent" THEN <<>>
                 ELSE IF s = "live"
                 THEN <<[from |-> 1, to |-> Open, type |-> "create", row |-> row]>>
                 ELSE <<[from |-> 1, to |-> 2, type |-> "create",
                         row |-> [state |-> "live", data |-> d]],
                        [from |-> 2, to |-> Open, type |-> "soft_delete",
                         row |-> row]>>
    BY Zenon DEF Init
  <2>2. [from |-> 1, to |-> Open, type |-> "create", row |-> row] \in HistRow
    BY <1>1, Zenon DEF HistRow, ChangeTypes, Open
  <2>3. [from |-> 2, to |-> Open, type |-> "soft_delete", row |-> row] \in HistRow
    BY <1>1, Zenon DEF HistRow, ChangeTypes, Open
  <2>4. [state |-> "live", data |-> d] \in Rows
    BY Zenon DEF Rows, States
  <2>5. [from |-> 1, to |-> 2, type |-> "create",
          row |-> [state |-> "live", data |-> d]] \in HistRow
    BY <2>4, Zenon DEF HistRow, ChangeTypes
  <2>6. CASE s = "absent"
    BY <2>1, <2>6
  <2>7. CASE s = "live"
    BY <2>1, <2>2, <2>7
  <2>8. CASE s \notin {"absent", "live"}
    <3>. DEFINE a == [from |-> 1, to |-> 2, type |-> "create",
                      row |-> [state |-> "live", data |-> d]]
                b == [from |-> 2, to |-> Open, type |-> "soft_delete", row |-> row]
    <3>1. hist = <<a, b>>
      BY <2>1, <2>8, Zenon
    <3>2. a \in HistRow /\ b \in HistRow
      BY <2>3, <2>5, Zenon
    <3>. HIDE DEF a, b
    <3>. QED  BY <3>1, <3>2
  <2>. QED  BY <2>6, <2>7, <2>8, Zenon
<1>3. /\ lock \in Txs \cup {Nobody} /\ clock \in Nat /\ enabled \in BOOLEAN
      /\ toggles \in 0..MaxToggles /\ stray \in BOOLEAN
  <2>1. /\ lock = Nobody /\ clock = 3 /\ enabled = TRUE /\ toggles = 0
        /\ stray = FALSE
    BY Zenon DEF Init
  <2>2. enabled \in BOOLEAN /\ stray \in BOOLEAN
    BY <2>1, Zenon
  <2>3. lock \in Txs \cup {Nobody} /\ clock \in Nat /\ toggles \in 0..MaxToggles
    BY <2>1
  <2>. QED  BY <2>2, <2>3, Zenon
<1>4. /\ pc \in [Txs -> {"idle", "write", "snap", "close", "closing", "insert",
                     "commit", "done"}]
      /\ op \in [Txs -> ClusterOps \cup ChildOps]
      /\ value \in [Txs -> Values]
      /\ seen \in [Txs -> States]
      /\ mine \in [Txs -> Rows]
      /\ snap \in [Txs -> Rows]
      /\ now \in [Txs -> Nat]
      /\ closing \in [Txs -> SUBSET Nat]
  BY <1>1, Zenon DEF Init, States
<1>. QED  BY <1>1, <1>2, <1>3, <1>4, Zenon DEF TypeOK

LEMMA BaseInit == Init => Base
<1>. SUFFICES ASSUME Init PROVE Base
  BY Zenon
<1>1. TypeOK
  BY TypeInit, Zenon
<1>2. ASSUME NEW t \in Txs
      PROVE  /\ LockOK(t) /\ SeenOK(t) /\ UpdateOK(t)
             /\ ExistsOK(t) /\ IdleOK(t) /\ KindOK(t)
  <2>1. pc[t] = "idle" /\ lock # t /\ seen[t] = "absent" /\ closing[t] = {}
    BY HistoryAssumption, Zenon DEF Init
  <2>. QED
    BY <2>1, Zenon DEF LockOK, SeenOK, UpdateOK, ExistsOK, IdleOK, KindOK, Active, Capturing
<1>. QED  BY <1>1, <1>2, Zenon DEF Base

LEMMA CleanInit == Init => Clean
<1>. SUFFICES ASSUME Init PROVE Clean
  BY Zenon
<1>1. PICK s \in States \ {"deleted"}, d \in Values :
          /\ row = [state |-> s, data |-> d]
          /\ hist = IF s = "absent" THEN <<>>
                 ELSE IF s = "live"
                 THEN <<[from |-> 1, to |-> Open, type |-> "create", row |-> row]>>
                 ELSE <<[from |-> 1, to |-> 2, type |-> "create",
                         row |-> [state |-> "live", data |-> d]],
                        [from |-> 2, to |-> Open, type |-> "soft_delete",
                         row |-> row]>>
  BY Zenon DEF Init
<1>2. clock = 3 /\ \A t \in Txs : pc[t] = "idle"
  BY Zenon DEF Init
<1>3. \A t \in Txs : CaptureOK(t) /\ CloseOK(t)
  BY <1>2, Zenon DEF CaptureOK, CloseOK
<1>4. Timeline /\ Origin /\ Past
  <2>1. CASE s = "absent"
    BY <1>1, <1>2, <2>1 DEF Timeline, Origin, Past
  <2>2. CASE s = "live"
    BY <1>1, <1>2, <2>2 DEF Timeline, Origin, Past, Open
  <2>3. CASE s = "terminated"
    <3>1. /\ Len(hist) = 2 /\ hist[1].from = 1 /\ hist[1].to = 2
          /\ hist[1].type = "create" /\ hist[2].from = 2 /\ hist[2].to = 0
          /\ hist[2].row = row /\ hist # <<>> /\ row.state # "absent"
      BY <1>1, <2>3, Zenon DEF Open
    <3>. QED  BY <1>2, <3>1 DEF Timeline, Origin, Past, Open
  <2>. QED  BY <2>1, <2>2, <2>3, Zenon DEF States
<1>. QED  BY <1>3, <1>4, Zenon DEF Clean

-----------------------------------------------------------------------------
\* A step that writes one transaction's own row and takes the lock.
LEMMA WriteType ==
  ASSUME TypeOK, NEW t \in Txs, NEW r \in Rows, Write(t, r),
         NEW l \in {"snap", "commit"}, Goto(t, l)
  PROVE  TypeOK'
  BY Zenon DEF TypeOK, Write, Goto, settings

LEMMA NoMatchType ==
  ASSUME TypeOK, NEW t \in Txs, NoMatch(t),
         NEW l \in {"snap", "commit", "done"}, Goto(t, l)
  PROVE  TypeOK'
  BY Zenon DEF TypeOK, NoMatch, Goto, settings

LEMMA EndType ==
  ASSUME TypeOK, NEW t \in Txs, End(t),
         row' \in Rows, hist' \in Seq(HistRow), stray' \in BOOLEAN
  PROVE  TypeOK'
  BY Zenon DEF TypeOK, End, Goto, settings

LEMMA TypeStep == TypeOK /\ [Next]_vars => TypeOK'
<1>. SUFFICES ASSUME TypeOK, [Next]_vars PROVE TypeOK'
  BY Zenon
<1>. USE HistoryAssumption
<1>1. CASE UpdateSettings
  BY <1>1 DEF TypeOK, UpdateSettings, tx
<1>2. CASE UNCHANGED vars
  BY <1>2, Zenon DEF TypeOK, vars, tx, settings
<1>3. ASSUME NEW t \in Txs, TxStep(t)
      PROVE  TypeOK'
  <2>0. row \in Rows /\ row.state \in States /\ row.data \in Values
        /\ value[t] \in Values
    BY Zenon DEF TypeOK, Rows
  <2>1. CASE ReadExisting(t)
    <3>1. (IF Missing THEN "absent" ELSE row.state) \in States
      BY <2>0, Zenon DEF States
    <3>. QED  BY <2>1, <3>1, Zenon DEF TypeOK, ReadExisting, Goto, settings
  <2>2. CASE ListChildren(t)
    BY <2>2, Zenon DEF TypeOK, ListChildren, Goto, settings
  <2>3. CASE ReadForUpdate(t)
    BY <2>0, <2>3, Zenon DEF TypeOK, ReadForUpdate, Goto, settings
  <2>4. CASE UpdateMissing(t)
    BY <2>4, Zenon DEF TypeOK, UpdateMissing, Goto, settings
  <2>20. CASE HardDelete(t)
    <3>1. [row EXCEPT !.state = "deleted"] \in Rows
      BY <2>0, Zenon DEF Rows, States
    <3>. QED  BY <2>20, <3>1, Zenon DEF TypeOK, HardDelete, Goto, settings
  <2>5. CASE UpsertWrite(t) \/ EnsureCreate(t)
    <3>1. [state |-> "live", data |-> value[t]] \in Rows
      BY <2>0, Zenon DEF Rows, States
    <3>. QED  BY <2>5, <3>1, WriteType, Zenon DEF UpsertWrite, EnsureCreate
  <2>6. CASE UpdateWrite(t)
    <3>1. [row EXCEPT !.data = value[t]] \in Rows
      BY <2>0, Zenon DEF Rows, States
    <3>. QED  BY <2>6, <3>1, WriteType, Zenon DEF UpdateWrite
  <2>7. CASE EnsureRestore(t)
    <3>1. [row EXCEPT !.state = "live"] \in Rows
      BY <2>0, Zenon DEF Rows, States
    <3>. QED  BY <2>7, <3>1, WriteType, Zenon DEF EnsureRestore
  <2>8. CASE EnsureHeartbeat(t)
    BY <2>0, <2>8, WriteType, Zenon DEF EnsureHeartbeat
  <2>9. CASE EnsureLost(t) \/ TerminateMissing(t) \/ UpsertOther(t)
    BY <2>9, NoMatchType, Zenon DEF EnsureLost, TerminateMissing, UpsertOther
  <2>10. AfterTerminate(t) \in {"snap", "commit"}
    BY Zenon DEF AfterTerminate
  <2>11. CASE TerminateWrite(t)
    <3>1. [row EXCEPT !.state = "terminated"] \in Rows
      BY <2>0, Zenon DEF Rows, States
    <3>. QED  BY <2>10, <2>11, <3>1, WriteType, Zenon DEF TerminateWrite
  <2>12. CASE TerminateNoMatch(t)
    BY <2>10, <2>12, NoMatchType, Zenon DEF TerminateNoMatch
  <2>13. CASE Snapshot(t)
    <3>1. View(t) \in Rows
      BY ViewRow, Zenon
    <3>. QED  BY <2>13, <3>1 DEF TypeOK, Snapshot, Goto, settings
  <2>14. CASE SkipCapture(t)
    BY <2>14, Zenon DEF TypeOK, SkipCapture, Goto, settings
  <2>15. CASE CloseBegin(t)
    <3>1. OpenRows \in SUBSET Nat
      BY DEF OpenRows, TypeOK
    <3>. QED  BY <2>15, <3>1, Zenon DEF TypeOK, CloseBegin, Goto, settings
  <2>16. CASE CloseEnd(t)
    BY <2>16, Zenon DEF TypeOK, CloseEnd, Goto, settings
  <2>17. CASE InsertAndCommit(t)
    <3>1. NewRow(t) \in HistRow
      BY ChangeTypeKnown, Zenon DEF NewRow, HistRow, TypeOK, Open
    <3>2. hist' \in Seq(HistRow)
      BY <2>17, <3>1, ClosedSeq DEF InsertAndCommit
    <3>3. row' \in Rows /\ stray' \in BOOLEAN
      BY <2>17, ViewRow, Zenon DEF InsertAndCommit, TypeOK
    <3>. QED  BY <2>17, <3>2, <3>3, EndType, Zenon DEF InsertAndCommit
  <2>18. CASE InsertFails(t) \/ Rollback(t)
    <3>1. row' \in Rows /\ hist' \in Seq(HistRow) /\ stray' \in BOOLEAN
      BY <2>18, Zenon DEF InsertFails, Rollback, TypeOK
    <3>. QED  BY <2>18, <3>1, EndType, Zenon DEF InsertFails, Rollback
  <2>19. CASE Commit(t)
    <3>1. row' \in Rows /\ hist' \in Seq(HistRow) /\ stray' \in BOOLEAN
      BY <2>19, ViewRow, Zenon DEF Commit, TypeOK
    <3>. QED  BY <2>19, <3>1, EndType, Zenon DEF Commit
  <2>. QED
    BY <1>3, <2>1, <2>2, <2>3, <2>4, <2>5, <2>6, <2>7, <2>8, <2>9, <2>11, <2>12,
       <2>13, <2>14, <2>15, <2>16, <2>17, <2>18, <2>19, <2>20, Zenon DEF TxStep
<1>. QED  BY <1>1, <1>2, <1>3, Zenon DEF Next, Finished

-----------------------------------------------------------------------------
\* What one transaction's row facts say once the step of another leaves its
\* variables alone and the row, if it was there, is still there.
LEMMA OthersKeepBase ==
  ASSUME Base, NEW t \in Txs, NEW o \in Txs, o # t,
         pc'[o] = pc[o], op' = op, seen'[o] = seen[o], mine'[o] = mine[o],
         closing'[o] = closing[o],
         lock' = o <=> lock = o,
         row.state # "absent" => row'.state # "absent"
  PROVE  (LockOK(o) /\ SeenOK(o) /\ UpdateOK(o) /\ ExistsOK(o) /\ IdleOK(o) /\ KindOK(o))'
  BY Zenon DEF Base, LockOK, SeenOK, UpdateOK, ExistsOK, IdleOK, KindOK, Active, ChangeType,
         Terminating

\* The lock is taken by t when it was free, dropped by t, or left alone.
LockMoves(t) == \/ lock' = lock
                \/ lock \in {t, Nobody} /\ lock' \in {t, Nobody}

LEMMA BaseStep == Base /\ [Next]_vars => Base'
<1>. SUFFICES ASSUME Base, [Next]_vars PROVE Base'
  BY Zenon
<1>. USE HistoryAssumption
<1>0. TypeOK /\ TypeOK'
  BY TypeStep, Zenon DEF Base
<1>1. CASE UpdateSettings
  BY <1>0, <1>1, Zenon DEF Base, UpdateSettings, tx, LockOK, SeenOK, UpdateOK, ExistsOK,
       IdleOK, KindOK, Active, ChangeType, Terminating
<1>2. CASE UNCHANGED vars
  BY <1>0, <1>2, Zenon DEF Base, vars, tx, settings, LockOK, SeenOK, UpdateOK, ExistsOK,
       IdleOK, KindOK, Active, ChangeType, Terminating
<1>3. ASSUME NEW t \in Txs, TxStep(t)
      PROVE  Base'
  <2>. DEFINE Mine(x) == /\ LockOK(x) /\ SeenOK(x) /\ UpdateOK(x)
                         /\ ExistsOK(x) /\ IdleOK(x) /\ KindOK(x)
  <2>a. Mine(t)
    BY Zenon DEF Base
  <2>b. t # Nobody
    BY HistoryAssumption, Zenon
  <2>0. ASSUME /\ \A o \in Txs \ {t} : /\ pc'[o] = pc[o] /\ seen'[o] = seen[o]
                                      /\ mine'[o] = mine[o]
                                      /\ closing'[o] = closing[o],
               op' = op,
               LockMoves(t),
               row.state # "absent" => row'.state # "absent",
               Mine(t)'
        PROVE  Base'
    <3>1. ASSUME NEW o \in Txs, o # t PROVE Mine(o)'
      <4>1. lock' = o <=> lock = o
        BY <2>0, <3>1 DEF LockMoves
      <4>2. pc'[o] = pc[o] /\ seen'[o] = seen[o] /\ mine'[o] = mine[o] /\ closing'[o] = closing[o]
        BY <2>0, <3>1, Zenon
      <4>. QED  BY <2>0, <3>1, <4>1, <4>2, OthersKeepBase, Zenon
    <3>. HIDE DEF Mine
    <3>2. \A o \in Txs : Mine(o)'
      BY <2>0, <3>1, Zenon
    <3>. QED  BY <1>0, <3>2, Zenon DEF Base, Mine
  <2>. USE DEF LockMoves
  <2>c. /\ pc \in [Txs -> {"idle", "write", "snap", "close", "closing", "insert",
                     "commit", "done"}]
        /\ seen \in [Txs -> States] /\ mine \in [Txs -> Rows]
        /\ closing \in [Txs -> SUBSET Nat] /\ row \in Rows
    BY <1>0, Zenon DEF TypeOK
  <2>1. CASE ReadExisting(t)
    BY <2>a, <2>b, <2>c, <2>0, <2>1, Zenon
       DEF ReadExisting, Missing, Goto, LockOK, SeenOK, UpdateOK, ExistsOK, IdleOK, KindOK,
           Active, Capturing
  <2>2. CASE ListChildren(t)
    BY <2>a, <2>b, <2>c, <2>0, <2>2, Zenon
       DEF ListChildren, Goto, LockOK, SeenOK, UpdateOK, ExistsOK, IdleOK, KindOK,
           Active, Capturing
  <2>3. CASE ReadForUpdate(t)
    BY <2>a, <2>b, <2>c, <2>0, <2>3, Zenon
       DEF ReadForUpdate, Missing, Goto, LockOK, SeenOK, UpdateOK, ExistsOK, IdleOK, KindOK,
           Active, Capturing
  <2>4. CASE UpdateMissing(t)
    BY <2>a, <2>b, <2>c, <2>0, <2>4, Zenon
       DEF UpdateMissing, Goto, LockOK, SeenOK, UpdateOK, ExistsOK, IdleOK, KindOK,
           Active, Capturing
  <2>25. CASE HardDelete(t)
    <3>1. row'.state = "deleted"
      BY <2>25, <2>c, Zenon DEF HardDelete, Rows
    <3>. QED  BY <2>a, <2>b, <2>c, <2>0, <2>25, <3>1, Zenon
         DEF HardDelete, Goto, LockOK, SeenOK, UpdateOK, ExistsOK, IdleOK, KindOK,
             Active, Capturing
  <2>5. ASSUME NEW r, Write(t, r), r.state # "absent", pc[t] = "write",
               NEW l \in {"snap", "commit"}, Goto(t, l),
               (l = "snap" /\ ChangeType(t) # "create") => row.state # "absent"
        PROVE  Base'
    <3>1. ChangeType(t)' = ChangeType(t)
      BY <2>5, Zenon DEF Write, ChangeType, Terminating
    <3>2. mine'[t] = r /\ pc'[t] = l /\ lock' = t
      BY <2>5, <2>c, Zenon DEF Write, Goto
    <3>3. Mine(t)'
      BY <2>a, <2>b, <2>c, <2>5, <3>1, <3>2, Zenon
         DEF Write, Goto, LockOK, SeenOK, UpdateOK, ExistsOK, IdleOK, KindOK, Active,
             Capturing
    <3>. QED  BY <2>0, <2>c, <2>5, <3>2, <3>3, Zenon DEF Write, Goto, Free
  <2>6. ASSUME NoMatch(t), pc[t] = "write",
               NEW l \in {"snap", "commit", "done"}, Goto(t, l), op[t] # "update",
               (l = "snap" /\ ChangeType(t) # "create") => row.state # "absent"
        PROVE  Base'
    <3>0. lock # t
      BY <2>a, <2>6, Zenon DEF LockOK
    <3>1. ChangeType(t)' = ChangeType(t)
      BY <2>6, Zenon DEF NoMatch, ChangeType, Terminating
    <3>2. pc'[t] = l
      BY <2>6, <2>c, Zenon DEF Goto
    <3>3. Mine(t)'
      BY <2>a, <2>b, <2>c, <2>6, <3>0, <3>1, <3>2, Zenon
         DEF NoMatch, LockOK, SeenOK, UpdateOK, ExistsOK, IdleOK, KindOK, Active,
             Capturing
    <3>. QED  BY <2>0, <2>c, <2>6, <3>3, Zenon DEF NoMatch, Goto
  <2>7. CASE UpsertWrite(t)
    <3>1. ChangeType(t) # "create" => row.state # "absent"
      BY <2>a, <2>7, Zenon DEF UpsertWrite, ChangeType, Terminating, SeenOK
    <3>. QED  BY <2>5, <2>7, <3>1, Zenon DEF UpsertWrite
  <2>8. CASE UpdateWrite(t)
    <3>1. row.state # "absent"
      BY <2>a, <2>8, Zenon DEF UpdateWrite, UpdateOK, SeenOK, Active
    <3>2. [row EXCEPT !.data = value[t]].state # "absent"
      BY <2>c, <3>1, Zenon DEF Rows
    <3>. QED  BY <2>5, <2>8, <3>1, <3>2, Zenon DEF UpdateWrite
  <2>9. CASE EnsureRestore(t)
    <3>1. row.state # "absent"
      BY <2>a, <2>9, Zenon DEF EnsureRestore, SeenOK
    <3>2. [row EXCEPT !.state = "live"].state # "absent"
      BY <2>c, Zenon DEF Rows
    <3>. QED  BY <2>5, <2>9, <3>1, <3>2, Zenon DEF EnsureRestore
  <2>10. CASE EnsureHeartbeat(t)
    <3>1. row.state # "absent"
      BY <2>a, <2>10, Zenon DEF EnsureHeartbeat, SeenOK
    <3>. QED  BY <2>5, <2>10, <3>1, Zenon DEF EnsureHeartbeat
  <2>11. CASE EnsureCreate(t)
    <3>1. ChangeType(t) = "create"
      BY <2>11, Zenon DEF EnsureCreate, ChangeType, Terminating
    <3>. QED  BY <2>5, <2>11, <3>1, Zenon DEF EnsureCreate
  <2>12. CASE EnsureLost(t) \/ UpsertOther(t)
    BY <2>6, <2>12, Zenon DEF EnsureLost, UpsertOther
  <2>13. AfterTerminate(t) \in {"snap", "commit"}
    BY Zenon DEF AfterTerminate
  <2>14. CASE TerminateWrite(t)
    <3>1. [row EXCEPT !.state = "terminated"].state # "absent"
      BY <2>c, Zenon DEF Rows
    <3>2. row.state # "absent"
      BY <2>14, Zenon DEF TerminateWrite
    <3>. QED  BY <2>5, <2>13, <2>14, <3>1, <3>2, Zenon DEF TerminateWrite
  <2>15. CASE TerminateNoMatch(t)
    <3>1. op[t] # "update" /\ row.state # "absent"
      BY <2>15, Zenon DEF TerminateNoMatch, Terminating
    <3>. QED  BY <2>6, <2>13, <2>15, <3>1, Zenon DEF TerminateNoMatch
  <2>16. CASE TerminateMissing(t)
    <3>1. op[t] # "update"
      BY <2>16, Zenon DEF TerminateMissing, Terminating
    <3>. QED  BY <2>6, <2>16, <3>1, Zenon DEF TerminateMissing
  <2>17. ASSUME pc[t] \in Capturing, NEW l \in {"close", "closing", "insert", "commit"},
                Goto(t, l), op' = op, seen' = seen, mine' = mine, lock' = lock,
                row' = row,
                \A o \in Txs \ {t} : closing'[o] = closing[o],
                l \in {"close", "closing"} => ChangeType(t) # "create",
                l \in {"close", "commit"} => closing'[t] = {}
         PROVE  Base'
    <3>1. ChangeType(t)' = ChangeType(t)
      BY <2>17, Zenon DEF ChangeType, Terminating
    <3>2. pc'[t] = l
      BY <2>17, <2>c, Zenon DEF Goto
    <3>3. Mine(t)'
      BY <2>a, <2>b, <2>c, <2>17, <3>1, <3>2, Zenon
         DEF LockOK, SeenOK, UpdateOK, ExistsOK, IdleOK, KindOK, Active, Capturing
    <3>. QED  BY <2>0, <2>c, <2>17, <3>3, Zenon DEF Goto
  <2>18. CASE Snapshot(t)
    <3>1. closing[t] = {}
      BY <2>a, <2>18, Zenon DEF Snapshot, IdleOK
    <3>. QED  BY <2>17, <2>18, <3>1, Zenon DEF Snapshot, Capturing
  <2>19. CASE SkipCapture(t)
    <3>1. closing[t] = {}
      BY <2>a, <2>19, Zenon DEF SkipCapture, IdleOK
    <3>. QED  BY <2>17, <2>19, <3>1, Zenon DEF SkipCapture, Capturing
  <2>20. CASE CloseBegin(t)
    <3>1. ChangeType(t) # "create"
      BY <2>a, <2>20, Zenon DEF CloseBegin, KindOK
    <3>. QED  BY <2>c, <2>17, <2>20, <3>1, Zenon DEF CloseBegin, Capturing
  <2>21. CASE CloseEnd(t)
    BY <2>c, <2>17, <2>21, Zenon DEF CloseEnd, Capturing
  <2>22. ASSUME End(t), row.state # "absent" => row'.state # "absent"
         PROVE  Base'
    <3>1. pc'[t] = "done" /\ lock' # t /\ closing'[t] = {} /\ seen' = seen
      BY <2>b, <2>c, <2>22, Zenon DEF End, Goto
    <3>2. Mine(t)'
      BY <2>a, <2>22, <3>1, Zenon
         DEF LockOK, SeenOK, UpdateOK, ExistsOK, IdleOK, KindOK, Active, Capturing
    <3>. QED  BY <2>0, <2>c, <2>22, <3>2, Zenon DEF End, Goto
  <2>23. row.state # "absent" => View(t).state # "absent"
    BY <2>a, Zenon DEF View, LockOK
  <2>24. CASE InsertAndCommit(t) \/ InsertFails(t) \/ Commit(t) \/ Rollback(t)
    BY <2>22, <2>23, <2>24, Zenon DEF InsertAndCommit, InsertFails, Commit, Rollback
  <2>. QED
    BY <1>3, <2>1, <2>2, <2>3, <2>4, <2>7, <2>8, <2>9, <2>10, <2>11, <2>12, <2>14,
       <2>15, <2>16, <2>18, <2>19, <2>20, <2>21, <2>24, <2>25, Zenon DEF TxStep
<1>. QED  BY <1>1, <1>2, <1>3, Zenon DEF Next, Finished

-----------------------------------------------------------------------------
\* Appending the captured row to the closed history: the heart of the proof.
\* A create finds no history; any other change finds the newest row open.
LEMMA AppendKeepsTimeline ==
  ASSUME Base, NEW t \in Txs, Timeline, Origin, Past, CaptureOK(t), CloseOK(t),
         InsertAndCommit(t)
  PROVE  (Timeline /\ Origin /\ Past)'
<1>. DEFINE n == Len(hist)
<1>0. /\ TypeOK /\ hist \in Seq(HistRow) /\ n \in Nat /\ now[t] \in Nat
      /\ pc[t] = "insert" /\ clock \in Nat
  BY DEF Base, TypeOK, InsertAndCommit
<1>1. /\ lock = t /\ snap[t] = mine[t] /\ now[t] < clock
      /\ \A i \in 1..n : hist[i].from < now[t]
  BY <1>0, Zenon DEF CaptureOK
<1>2. /\ row' = mine[t] /\ mine[t].state # "absent" /\ clock' = clock
      /\ hist' = Append(Closed(t), NewRow(t))
  BY <1>1, Zenon DEF InsertAndCommit, View, End, Base, LockOK
<1>3. /\ Closed(t) \in Seq(HistRow) /\ Len(Closed(t)) = n
      /\ \A i \in 1..n :
           Closed(t)[i] = IF i \in closing[t] THEN [hist[i] EXCEPT !.to = now[t]]
                          ELSE hist[i]
  BY <1>0, ClosedSeq, Zenon
<1>4. NewRow(t) \in HistRow
  BY <1>0, ChangeTypeKnown, Zenon DEF NewRow, HistRow, TypeOK, Open
<1>5. /\ Len(hist') = n + 1
      /\ hist'[n + 1] = NewRow(t)
      /\ \A i \in 1..n : hist'[i] = Closed(t)[i]
      /\ hist' # <<>>
  BY <1>0, <1>2, <1>3, <1>4
<1>6. /\ NewRow(t).from = now[t] /\ NewRow(t).to = Open
      /\ NewRow(t).type = ChangeType(t) /\ NewRow(t).row = snap[t]
  BY Zenon DEF NewRow
<1>7. CASE ChangeType(t) = "create"
  <2>1. n = 0
    <3>1. \A i \in 1..n : hist[i].type # "create"
      BY <1>7, Zenon DEF InsertAndCommit, DuplicateCreate
    <3>2. hist = <<>>
      BY <1>0, <3>1 DEF Origin
    <3>. QED  BY <3>2, Zenon
  <2>2. Len(hist') = 1 /\ hist'[1] = NewRow(t)
    BY <1>5, <2>1
  <2>3. Timeline'
    BY <1>1, <1>2, <1>5, <1>6, <2>2, SMTT(30) DEF Timeline
  <2>4. Origin' /\ Past'
    BY <1>0, <1>1, <1>2, <1>5, <1>6, <1>7, <2>2, SMTT(30) DEF Origin, Past
  <2>. QED
    BY <2>3, <2>4, Zenon
<1>8. CASE ChangeType(t) # "create"
  <2>1. row.state # "absent"
    BY <1>0, <1>8, Zenon DEF Base, ExistsOK, Capturing
  <2>2. n > 0
    BY <1>0, <2>1 DEF Timeline
  <2>3. \A i \in 1..n : hist[i] \in HistRow
    BY <1>0
  <2>4. ASSUME NEW i \in 1..n
        PROVE  /\ hist[i].from \in Nat
               /\ i \in closing[t] <=> i = n
    <3>1. hist[i].from \in Nat /\ hist[i].to \in Nat
      BY <2>3, Zenon DEF HistRow
    <3>2. closing[t] = OpenRows
      BY <1>0, <1>8, Zenon DEF CloseOK
    <3>3. CASE i = n
      <4>1. hist[i].to = Open
        BY <3>3, Zenon DEF Timeline
      <4>. QED  BY <3>1, <3>2, <3>3, <4>1, Zenon DEF OpenRows
    <3>4. CASE i # n
      <4>1. i + 1 \in 1..n /\ i \in 1..(n - 1)
        BY <1>0, <3>4
      <4>2. hist[i].to = hist[i + 1].from /\ hist[i].from < hist[i + 1].from
        BY <1>0, <3>4, <4>1, Zenon DEF Timeline
      <4>3. hist[i + 1].from \in Nat
        BY <2>3, <4>1, Zenon DEF HistRow
      <4>4. hist[i].to # Open
        BY <3>1, <4>2, <4>3 DEF Open
      <4>. QED  BY <3>1, <3>2, <3>4, <4>4, Zenon DEF OpenRows
    <3>. QED  BY <3>1, <3>3, <3>4, Zenon
  <2>5. ASSUME NEW i \in 1..n
        PROVE  /\ hist'[i].from = hist[i].from
               /\ hist'[i].type = hist[i].type
               /\ hist'[i].to = IF i = n THEN now[t] ELSE hist[i].to
    <3>1. hist[i] \in HistRow
      BY <2>3, Zenon
    <3>2. CASE i = n
      <4>1. hist'[i] = [hist[i] EXCEPT !.to = now[t]]
        BY <1>3, <1>5, <2>4, <3>2, Zenon
      <4>. QED  BY <3>1, <3>2, <4>1, Zenon DEF HistRow
    <3>3. CASE i # n
      <4>0. i \notin closing[t]
        BY <2>4, <3>3, Zenon
      <4>1. hist'[i] = hist[i]
        BY <1>3, <1>5, <4>0, Zenon
      <4>. QED  BY <3>3, <4>1, Zenon
    <3>. QED  BY <3>2, <3>3, Zenon
  <2>6. \A i \in 1..(n + 1) : i \in 1..n \/ i = n + 1
    BY <1>0
  <2>7. \A i \in 1..(n + 1) :
           hist'[i].to = IF i = n + 1 THEN Open ELSE hist'[i + 1].from
    <3>. TAKE i \in 1..(n + 1)
    <3>1. CASE i = n + 1
      BY <1>5, <1>6, <3>1, Zenon
    <3>2. CASE i = n
      BY <1>0, <1>5, <1>6, <2>5, <3>2
    <3>3. CASE i \notin {n, n + 1}
      <4>1. i \in 1..n /\ i + 1 \in 1..n
        BY <1>0, <3>3
      <4>2. hist[i].to = hist[i + 1].from
        BY <3>3, <4>1, Zenon DEF Timeline
      <4>. QED  BY <1>0, <2>5, <3>3, <4>1, <4>2, Zenon
    <3>. QED  BY <3>1, <3>2, <3>3, Zenon
  <2>8. \A i \in 1..n : hist'[i].from < hist'[i + 1].from
    <3>. SUFFICES ASSUME NEW i \in 1..n PROVE hist'[i].from < hist'[i + 1].from
      BY Zenon
    <3>1. CASE i = n
      BY <1>0, <1>1, <1>5, <1>6, <2>5, <3>1, Zenon
    <3>2. CASE i # n
      <4>1. i \in 1..(n - 1) /\ i + 1 \in 1..n
        BY <1>0, <3>2
      <4>2. hist[i].from < hist[i + 1].from
        BY <4>1, Zenon DEF Timeline
      <4>. QED  BY <2>5, <4>1, <4>2, Zenon
    <3>. QED  BY <3>1, <3>2, Zenon
  <2>9. hist'[Len(hist')].row = row'
    BY <1>1, <1>2, <1>5, <1>6, Zenon
  <2>10. row'.state # "absent"
    BY <1>2, Zenon
  <2>11. Timeline'
    <3>1. Len(hist') - 1 = n
      BY <1>0, <1>5
    <3>2. \A i \in 1..(Len(hist') - 1) : hist'[i].from < hist'[i + 1].from
      BY <2>8, <3>1, Zenon
    <3>3. \A i \in 1..Len(hist') :
             hist'[i].to = IF i = Len(hist') THEN Open ELSE hist'[i + 1].from
      BY <1>5, <2>7, Zenon
    <3>. QED  BY <1>5, <2>9, <2>10, <3>2, <3>3, Zenon DEF Timeline
  <2>12. Origin'
    <3>1. hist # <<>>
      BY <1>0, <2>2
    <3>. QED  BY <1>0, <2>2, <2>5, <3>1 DEF Origin
  <2>13. Past'
    BY <1>0, <1>1, <1>2, <1>5, <1>6, <2>5, <2>6, Zenon DEF Past
  <2>. QED  BY <2>11, <2>12, <2>13, Zenon
<1>. QED  BY <1>7, <1>8, Zenon

LEMMA CleanStep == Base /\ Clean /\ [Next]_vars => Clean'
<1>. SUFFICES ASSUME Base, Clean, [Next]_vars, ~stray' PROVE Clean'
  BY Zenon DEF Clean
<1>. USE HistoryAssumption
<1>0. TypeOK /\ clock \in Nat
  BY Zenon DEF Base, TypeOK
<1>1. CASE UpdateSettings
  BY <1>1, ZenonT(60) DEF UpdateSettings, tx, Clean, Timeline, Origin, Past, CaptureOK, CloseOK,
       ChangeType, Terminating, OpenRows
<1>2. CASE UNCHANGED vars
  BY <1>2, Zenon DEF vars, tx, settings, Clean, Timeline, Origin, Past, CaptureOK, CloseOK,
       ChangeType, Terminating, OpenRows
<1>3. ASSUME NEW t \in Txs, TxStep(t)
      PROVE  Clean'
  <2>a. ~stray
    BY <1>3, Zenon DEF TxStep, ReadExisting, ListChildren, ReadForUpdate, UpdateMissing,
         HardDelete, UpsertWrite, UpsertOther, UpdateWrite, EnsureRestore,
         EnsureHeartbeat, EnsureCreate,
         EnsureLost, TerminateWrite, TerminateNoMatch, TerminateMissing, Write,
         NoMatch, Snapshot, SkipCapture, CloseBegin, CloseEnd, InsertAndCommit,
         InsertFails, Commit, Rollback
  <2>b. /\ Timeline /\ Origin /\ Past
        /\ \A o \in Txs : CaptureOK(o) /\ CloseOK(o)
    BY <2>a, Zenon DEF Clean
  <2>c. /\ pc \in [Txs -> {"idle", "write", "snap", "close", "closing", "insert",
                     "commit", "done"}]
        /\ seen \in [Txs -> States] /\ mine \in [Txs -> Rows]
        /\ snap \in [Txs -> Rows] /\ now \in [Txs -> Nat]
        /\ closing \in [Txs -> SUBSET Nat] /\ row \in Rows
    BY <1>0, Zenon DEF TypeOK
  <2>d. t # Nobody
    BY HistoryAssumption, Zenon
  <2>0. ASSUME row' = row, hist' = hist, clock' \in {clock, clock + 1}, op' = op,
               \A o \in Txs \ {t} : /\ pc'[o] = pc[o] /\ seen'[o] = seen[o]
                                   /\ mine'[o] = mine[o] /\ snap'[o] = snap[o]
                                   /\ now'[o] = now[o] /\ closing'[o] = closing[o],
               LockMoves(t),
               CaptureOK(t)', CloseOK(t)'
        PROVE  Clean'
    <3>1. ASSUME NEW o \in Txs, o # t PROVE (CaptureOK(o) /\ CloseOK(o))'
      <4>1. lock = o => lock' = o
        BY <2>0, <3>1, Zenon DEF LockMoves
      <4>2. /\ pc'[o] = pc[o] /\ seen'[o] = seen[o] /\ mine'[o] = mine[o]
            /\ snap'[o] = snap[o] /\ now'[o] = now[o] /\ closing'[o] = closing[o]
        BY <2>0, <3>1, Zenon
      <4>3. ChangeType(o)' = ChangeType(o) /\ OpenRows' = OpenRows
        BY <2>0, <4>2, Zenon DEF ChangeType, Terminating, OpenRows
      <4>4. CaptureOK(o) /\ CloseOK(o) /\ now[o] \in Nat
        BY <2>b, <2>c, Zenon
      <4>5. CaptureOK(o)'
        BY <1>0, <2>0, <4>1, <4>2, <4>4 DEF CaptureOK
      <4>6. CloseOK(o)'
        BY <4>2, <4>3, <4>4, Zenon DEF CloseOK
      <4>. QED  BY <4>5, <4>6, Zenon
    <3>2. \A o \in Txs : (CaptureOK(o) /\ CloseOK(o))'
      BY <2>0, <3>1, Zenon
    <3>3. (Timeline /\ Origin)'
      BY <2>0, <2>b, ZenonT(60) DEF Timeline, Origin
    <3>4. Past'
      <4>. SUFFICES ASSUME NEW i \in 1..Len(hist) PROVE hist[i].from < clock'
        BY <2>0, ZenonT(60) DEF Past
      <4>1. hist[i].from < clock /\ hist[i].from \in Nat
        <5>1. hist[i] \in HistRow
          BY <1>0 DEF TypeOK
        <5>. QED  BY <2>b, <5>1, Zenon DEF Past, HistRow
      <4>. QED  BY <1>0, <2>0, <4>1
    <3>. QED  BY <3>2, <3>3, <3>4, Zenon DEF Clean
  <2>1. ASSUME row' = row, hist' = hist, clock' \in {clock, clock + 1}, op' = op,
               \A o \in Txs \ {t} : /\ pc'[o] = pc[o] /\ seen'[o] = seen[o]
                                   /\ mine'[o] = mine[o] /\ snap'[o] = snap[o]
                                   /\ now'[o] = now[o] /\ closing'[o] = closing[o],
               LockMoves(t),
               pc'[t] \notin {"close", "closing", "insert"}
        PROVE  Clean'
    <3>1. CaptureOK(t)' /\ CloseOK(t)'
      BY <2>1, Zenon DEF CaptureOK, CloseOK
    <3>. QED  BY <2>0, <2>1, <3>1, Zenon
  <2>2. CASE ReadExisting(t)
    BY <2>1, <2>2, <2>c, Zenon DEF ReadExisting, Goto, LockMoves
  <2>3. CASE ListChildren(t)
    BY <2>1, <2>3, <2>c, Zenon DEF ListChildren, Goto, LockMoves
  <2>4. CASE ReadForUpdate(t)
    BY <2>1, <2>4, <2>c, Zenon DEF ReadForUpdate, Goto, LockMoves
  <2>5. CASE UpdateMissing(t)
    BY <2>1, <2>5, <2>c, Zenon DEF UpdateMissing, Goto, LockMoves
  <2>6. ASSUME NEW r, Write(t, r), NEW l \in {"snap", "commit"}, Goto(t, l)
        PROVE  Clean'
    BY <2>1, <2>6, <2>c, Zenon DEF Write, Goto, Free, LockMoves
  <2>7. ASSUME NoMatch(t), NEW l \in {"snap", "commit", "done"}, Goto(t, l)
        PROVE  Clean'
    BY <2>1, <2>7, <2>c, Zenon DEF NoMatch, Goto, LockMoves
  <2>8. CASE UpsertWrite(t) \/ UpdateWrite(t) \/ EnsureRestore(t) \/ EnsureHeartbeat(t)
             \/ EnsureCreate(t)
    BY <2>6, <2>8, Zenon DEF UpsertWrite, UpdateWrite, EnsureRestore, EnsureHeartbeat,
         EnsureCreate
  <2>9. CASE EnsureLost(t) \/ TerminateMissing(t) \/ UpsertOther(t)
    BY <2>7, <2>9, Zenon DEF EnsureLost, TerminateMissing, UpsertOther
  <2>19. ~HardDelete(t)
    BY Zenon DEF HardDelete
  <2>10. AfterTerminate(t) \in {"snap", "commit"}
    BY Zenon DEF AfterTerminate
  <2>11. CASE TerminateWrite(t)
    BY <2>6, <2>10, <2>11, Zenon DEF TerminateWrite
  <2>12. CASE TerminateNoMatch(t)
    BY <2>7, <2>10, <2>12, Zenon DEF TerminateNoMatch
  <2>13. CASE Snapshot(t)
    <3>1. lock = t /\ lock' = t /\ View(t) = mine[t]
      BY <2>13, ZenonT(60) DEF Snapshot, View
    <3>2. /\ snap'[t] = mine[t] /\ mine' = mine /\ now'[t] = clock
          /\ clock' = clock + 1 /\ hist' = hist
      BY <2>13, <2>c, <3>1, Zenon DEF Snapshot
    <3>3. CaptureOK(t)'
      BY <1>0, <2>b, <3>1, <3>2, SMTT(30) DEF CaptureOK, Past
    <3>4. closing[t] = {} /\ closing' = closing
      BY <2>13, Zenon DEF Snapshot, Base, IdleOK
    <3>5. ChangeType(t)' = ChangeType(t)
      BY <2>13, Zenon DEF Snapshot, ChangeType, Terminating
    <3>6. CloseOK(t)'
      BY <2>13, <2>c, <3>4, <3>5, Zenon DEF CloseOK, Snapshot, Goto
    <3>. QED  BY <2>0, <2>13, <2>c, <3>3, <3>6, Zenon DEF Snapshot, Goto, LockMoves
  <2>14. CASE SkipCapture(t)
    BY <2>1, <2>14, <2>c, Zenon DEF SkipCapture, Goto, LockMoves
  <2>15. CASE CloseBegin(t) \/ CloseEnd(t)
    <3>1. /\ UNCHANGED <<row, lock, hist, clock, op, seen, mine, snap, now>>
          /\ pc[t] \in {"close", "closing"} /\ pc'[t] \in {"closing", "insert"}
          /\ \A o \in Txs \ {t} : pc'[o] = pc[o] /\ closing'[o] = closing[o]
      BY <2>15, <2>c, Zenon DEF CloseBegin, CloseEnd, Goto
    <3>2. CaptureOK(t)'
      BY <2>b, <3>1, Zenon DEF CaptureOK
    <3>3. ChangeType(t)' = ChangeType(t) /\ ChangeType(t) # "create" /\ OpenRows' = OpenRows
      BY <3>1, Zenon DEF ChangeType, Terminating, OpenRows, Base, KindOK
    <3>4. closing'[t] = OpenRows
      <4>1. CASE CloseBegin(t)
        BY <2>c, <4>1, Zenon DEF CloseBegin
      <4>2. CASE CloseEnd(t)
        <5>1. closing[t] = OpenRows
          BY <2>b, <3>3, <4>2, Zenon DEF CloseEnd, CloseOK
        <5>2. closing'[t] = closing[t] \cap OpenRows
          BY <2>c, <4>2, Zenon DEF CloseEnd
        <5>. QED  BY <5>1, <5>2, Zenon
      <4>. QED  BY <2>15, <4>1, <4>2, Zenon
    <3>5. CloseOK(t)'
      BY <3>3, <3>4, Zenon DEF CloseOK
    <3>. QED  BY <2>0, <3>1, <3>2, <3>5, Zenon DEF LockMoves
  <2>16. CASE InsertAndCommit(t)
    <3>1. pc[t] = "insert" /\ pc'[t] = "done" /\ lock = t
      BY <2>16, <2>b, <2>c, Zenon DEF InsertAndCommit, End, Goto, CaptureOK
    <3>2. (Timeline /\ Origin /\ Past)'
      BY <2>16, <2>b, AppendKeepsTimeline, Zenon
    <3>3. ASSUME NEW o \in Txs PROVE (CaptureOK(o) /\ CloseOK(o))'
      <4>1. pc'[o] \notin {"close", "closing", "insert"}
        BY <2>16, <2>b, <2>c, <3>1, Zenon DEF CaptureOK, InsertAndCommit, End, Goto
      <4>. QED  BY <4>1, Zenon DEF CaptureOK, CloseOK
    <3>. QED  BY <3>2, <3>3, Zenon DEF Clean
  <2>17. ASSUME End(t), row' = row, hist' = hist
         PROVE  Clean'
    BY <2>1, <2>17, <2>c, <2>d, Zenon DEF End, Goto, LockMoves
  <2>18. CASE InsertFails(t) \/ Commit(t) \/ Rollback(t)
    BY <2>17, <2>18, Zenon DEF InsertFails, Commit, Rollback
  <2>. QED
    BY <1>3, <2>2, <2>3, <2>4, <2>5, <2>8, <2>9, <2>11, <2>12, <2>13, <2>14, <2>15,
       <2>16, <2>18, <2>19, Zenon DEF TxStep
<1>. QED  BY <1>1, <1>2, <1>3, Zenon DEF Next, Finished

\* Every variable of the history model stays within its domain.
THEOREM TypeCorrect == Spec => []TypeOK
  BY TypeInit, TypeStep, PTL DEF Spec

\* If every write of the row was captured under the row lock, the history of
\* the entity is a gapless timeline whose only open row shows the row as it
\* is committed.
THEOREM TimelineKept == Spec => []CapturedTimeline
<1>1. Init => Base /\ Clean
  BY BaseInit, CleanInit, Zenon
<1>2. (Base /\ Clean) /\ [Next]_vars => (Base /\ Clean)'
  BY BaseStep, CleanStep, Zenon
<1>3. Base /\ Clean => CapturedTimeline
  BY Zenon DEF Clean, CapturedTimeline
<1>. QED  BY <1>1, <1>2, <1>3, PTL DEF Spec
=============================================================================
