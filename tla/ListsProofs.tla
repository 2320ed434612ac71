----------------------------- MODULE ListsProofs -----------------------------
(***************************************************************************)
(* Paged lists: the order of a list and its resumption, the abstract       *)
(* sweep, and that every list of the catalogue is such a sweep.            *)
(***************************************************************************)
EXTENDS ListRules, FiniteSetTheorems, TLAPS

USE SpanAssumption

-----------------------------------------------------------------------------
(***************************************************************************)
(* The order of a list and its resumption, for any ids and sort values:    *)
(* ORDER BY is a strict total order of the rows, and the keyset condition  *)
(* holds of exactly the rows that come after the cursor's row in it.       *)
(* keysetCond and orderBy write the two in SQL separately.                 *)
(***************************************************************************)
\* What a sort column may hold: NULL only where the specification says so.
Holds(col) == IF col.nullable THEN Int \cup {Null} ELSE Int

\* The rows keysetCond selects are the rows orderBy puts after the cursor's row.
THEOREM KeysetIsAfterCursor ==
  ASSUME NEW col, NEW dir \in {"asc", "desc"}, NEW cur, Null \notin Int,
         cur.id \in Int, cur.val \in Holds(col),
         NEW id \in Int, NEW v \in Holds(col)
  PROVE  keysetCond(col, dir, cur, id, v) <=> Before(col, dir, cur.id, cur.val, id, v)
<1>1. CASE cur.val = Null
  <2>1. col.nullable
    BY <1>1, Zenon DEF Holds
  <2> QED  BY <1>1, <2>1, Zenon DEF keysetCond, Before, Past, Holds
<1>2. CASE cur.val # Null /\ v = Null
  <2>1. col.nullable
    BY <1>2, Zenon DEF Holds
  <2> QED  BY <1>2, <2>1, Zenon DEF keysetCond, Before, Past, Holds
<1>3. CASE cur.val # Null /\ v # Null
  <2>1. cur.val \in Int /\ v \in Int
    BY <1>3, Zenon DEF Holds
  <2> QED  BY <1>3, <2>1, Zenon DEF keysetCond, Before, Past
<1> QED  BY <1>1, <1>2, <1>3, Zenon

\* ORDER BY with the id as tie-breaker leaves no two rows unordered and has no
\* cycle: a page boundary is always between two definite rows.
THEOREM OrderByIsTotal ==
  ASSUME NEW col, NEW dir \in {"asc", "desc"}, Null \notin Int,
         NEW i \in Int, NEW j \in Int, NEW k \in Int,
         NEW u \in Int \cup {Null}, NEW v \in Int \cup {Null}, NEW w \in Int \cup {Null}
  PROVE  /\ i # j => (Before(col, dir, i, u, j, v) <=> ~Before(col, dir, j, v, i, u))
         /\ Before(col, dir, i, u, j, v) /\ Before(col, dir, j, v, k, w)
              => Before(col, dir, i, u, k, w)
         /\ ~Before(col, dir, i, u, i, u)
<1>1. CASE dir = "asc"
  BY <1>1 DEF Before, Past
<1>2. CASE dir = "desc" /\ col.nullable
  BY <1>2 DEF Before, Past
<1>3. CASE dir = "desc" /\ ~col.nullable
  BY <1>3 DEF Before, Past
<1> QED  BY <1>1, <1>2, <1>3, Zenon

-----------------------------------------------------------------------------
(***************************************************************************)
(* Scan, for any set of rows: every sweep returns the rows that stayed put,*)
(* each once.  Two facts make the statements inductive: a row that stayed  *)
(* put is still there, and while the sweep is open it has been returned    *)
(* exactly when the mark has passed it.                                    *)
(***************************************************************************)

LineTypeOK ==
  /\ Placed \in [Ids -> Line!Places]
  /\ MarkOf \in Nat
  /\ kept \subseteq Ids
  /\ Standing \in {"idle", "open", "done", "off"}

KeptIsThere == \A i \in kept : Placed[i] # None

PassedIsSeen ==
  Standing = "open" => \A i \in kept : (i \in seen) <=> ~(Placed[i] > MarkOf)

LineInv == LineTypeOK /\ KeptIsThere /\ PassedIsSeen /\ Line!Complete /\ Line!OnceEach

LEMMA SweepInit == Line!Init => LineInv
  BY DEF Line!Init, LineInv, LineTypeOK, KeptIsThere, PassedIsSeen, Line!Complete, Line!OnceEach

LEMMA SweepBegin == Line!Begin => LineInv'
<1> SUFFICES ASSUME Line!Begin PROVE LineInv'
  BY Zenon
<1>1. LineTypeOK' /\ KeptIsThere'
  BY Zenon DEF Line!Begin, LineTypeOK, KeptIsThere
<1>2. \A i \in kept' : Placed'[i] > MarkOf' /\ i \notin seen'
  <2> SUFFICES ASSUME NEW i \in kept' PROVE Placed'[i] > MarkOf' /\ i \notin seen'
    BY Zenon
  <2>1. Placed'[i] \in Nat \ {0} /\ MarkOf' = 0 /\ seen' = {}
    BY Zenon DEF Line!Begin, Line!Places, Line!Points
  <2> QED  BY <2>1
<1>3. PassedIsSeen' /\ Line!Complete' /\ Line!OnceEach'
  BY <1>2, Zenon DEF Line!Begin, PassedIsSeen, Line!Complete, Line!OnceEach
<1> QED  BY <1>1, <1>3, Zenon DEF LineInv

LEMMA SweepFetch == LineInv /\ Line!Fetch => LineInv'
<1> SUFFICES ASSUME LineInv, Line!Fetch PROVE LineInv'
  BY Zenon
<1>1. LineTypeOK' /\ KeptIsThere' /\ Standing = "open" /\ Standing' = "open"
  BY Zenon DEF LineInv, Line!Fetch, LineTypeOK, KeptIsThere, Line!Points
<1>2. \A i \in kept : Placed[i] \in Nat /\ MarkOf \in Nat /\ MarkOf' \in Nat /\ MarkOf' > MarkOf /\ i \in Ids
  BY Zenon DEF LineInv, Line!Fetch, LineTypeOK, KeptIsThere, Line!Points, Line!Places
<1>3. \A i \in kept : Line!Ahead(i) <=> i \notin seen
  BY <1>1, Zenon DEF LineInv, PassedIsSeen, KeptIsThere, Line!Ahead
<1>4. PassedIsSeen'
  <2> SUFFICES ASSUME NEW i \in kept PROVE (i \in seen') <=> ~(Placed[i] > MarkOf')
    BY <1>1, Zenon DEF PassedIsSeen, Line!Fetch
  <2>1. (i \in seen') <=> (i \in seen \/ (Line!Ahead(i) /\ Placed[i] <= MarkOf'))
    BY <1>2, Zenon DEF Line!Fetch, Line!Return, Line!UpTo
  <2>2. (i \in seen) <=> ~(Placed[i] > MarkOf)
    BY <1>1, Zenon DEF LineInv, PassedIsSeen
  <2>3. Line!Ahead(i) <=> Placed[i] > MarkOf
    BY Zenon DEF LineInv, KeptIsThere, Line!Ahead
  <2> QED  BY <1>2, <2>1, <2>2, <2>3
<1>5. Line!OnceEach'
  BY <1>3, Zenon DEF LineInv, Line!OnceEach, Line!Fetch, Line!Return, Line!UpTo
<1>6. Line!Complete'
  BY <1>1, Zenon DEF Line!Complete
<1> QED  BY <1>1, <1>4, <1>5, <1>6, Zenon DEF LineInv

LEMMA SweepFinish == LineInv /\ Line!Finish => LineInv'
<1> SUFFICES ASSUME LineInv, Line!Finish PROVE LineInv'
  BY Zenon
<1>1. LineTypeOK' /\ KeptIsThere' /\ PassedIsSeen'
  BY Zenon DEF LineInv, Line!Finish, LineTypeOK, KeptIsThere, PassedIsSeen
<1>2. \A i \in kept : i \in Ids /\ (Line!Ahead(i) <=> i \notin seen)
  BY Zenon DEF LineInv, Line!Finish, LineTypeOK, PassedIsSeen, KeptIsThere, Line!Ahead
<1>3. Line!Complete' /\ Line!OnceEach'
  BY <1>2, Zenon DEF LineInv, Line!Finish, Line!Complete, Line!OnceEach, Line!Return, Line!AllAhead
<1> QED  BY <1>1, <1>3, Zenon DEF LineInv

\* A reader turned away was in the middle of a sweep, or had none.
LEMMA SweepTurnAway == LineInv /\ Line!TurnAway => LineInv'
<1> SUFFICES ASSUME LineInv, Line!TurnAway PROVE LineInv'
  BY Zenon
<1>1. LineTypeOK' /\ KeptIsThere' /\ PassedIsSeen' /\ Line!Complete'
  BY Zenon DEF LineInv, Line!TurnAway, LineTypeOK, KeptIsThere, PassedIsSeen, Line!Complete
<1>2. Line!OnceEach'
  <2>1. CASE UNCHANGED <<seen, again>>
    BY <2>1, Zenon DEF LineInv, Line!OnceEach
  <2>2. CASE Standing = "open" /\ \E i \in Ids : Line!Ahead(i) /\ Line!Return(Line!UpTo(Placed[i]))
    <3>1. \A i \in kept : Line!Ahead(i) => i \notin seen
      BY <2>2, Zenon DEF LineInv, PassedIsSeen, Line!Ahead
    <3> QED  BY <2>2, <3>1, Zenon DEF LineInv, Line!OnceEach, Line!Return, Line!UpTo
  <2> QED  BY <2>1, <2>2, Zenon DEF Line!TurnAway
<1> QED  BY <1>1, <1>2, Zenon DEF LineInv

LEMMA SweepChange == LineInv /\ Line!Change => LineInv'
<1> SUFFICES ASSUME LineInv, Line!Change PROVE LineInv'
  BY Zenon
<1>1. PICK i \in Ids : kept' = kept \ {i} /\ \A j \in Ids \ {i} : Placed'[j] = Placed[j]
  BY Zenon DEF Line!Change
<1>2. \A j \in kept' : j \in kept /\ Placed'[j] = Placed[j]
  BY <1>1, Zenon DEF LineInv, LineTypeOK
<1>3. LineTypeOK'
  BY <1>1, Zenon DEF LineInv, LineTypeOK, Line!Change
<1>4. KeptIsThere' /\ PassedIsSeen' /\ Line!Complete' /\ Line!OnceEach'
  BY <1>2, Zenon DEF LineInv, KeptIsThere, PassedIsSeen, Line!Complete, Line!OnceEach, Line!Change
<1> QED  BY <1>3, <1>4, Zenon DEF LineInv

LEMMA SweepStutter == LineInv /\ UNCHANGED Line!vars => LineInv'
  BY Zenon DEF Line!vars, LineInv, LineTypeOK, KeptIsThere, PassedIsSeen, Line!Complete, Line!OnceEach

\* A sweep that came to its end has returned every row that stayed where it
\* was, and none of them twice: what a paged list of the server promises its
\* client while rows are added, removed and moved between the pages.
THEOREM SweepIsExact == Line!Spec => [](Line!Complete /\ Line!OnceEach)
<1>1. LineInv /\ [Line!Next]_(Line!vars) => LineInv'
  BY SweepBegin, SweepFetch, SweepFinish, SweepTurnAway, SweepChange, SweepStutter, Zenon DEF Line!Next
<1>2. LineInv => Line!Complete /\ Line!OnceEach
  BY Zenon DEF LineInv
<1> QED  BY SweepInit, <1>1, <1>2, PTL DEF Line!Spec

LEMMA Constants ==
  /\ \A i \in Ids : i \in 1..Span /\ MemberKind[i] \in 1..3
  /\ \A v \in Vals : v \in 1..Span /\ Lower[v] \in 1..Span
  /\ Null \notin 0..Span /\ None \notin Nat /\ None \notin Row /\ None \notin Cursors
<1>1. /\ Ids \subseteq 1..Span /\ Vals \subseteq 1..Span /\ Lower \in [Vals -> Vals]
      /\ MemberKind \in [Ids -> 1..3] /\ Null \notin 0..Span
      /\ None \notin Nat /\ None \notin Row /\ None \notin Cursors
  BY ListsAssumption, Zenon
<1>2. \A i \in Ids : i \in 1..Span /\ MemberKind[i] \in 1..3
  BY <1>1, Zenon
<1>3. ASSUME NEW v \in Vals PROVE v \in 1..Span /\ Lower[v] \in 1..Span
  <2>1. Lower[v] \in Vals
    BY <1>1, Zenon
  <2>2. Vals \subseteq 1..Span
    BY <1>1, Zenon
  <2> QED BY <2>1, <2>2, Zenon
<1> QED BY <1>1, <1>2, <1>3, Zenon


-----------------------------------------------------------------------------
(* Places on the line. *)

SortVals == 0..Span \cup {Null}

\* The form of a value is a small number again, or NULL where the column may be.
LEMMA FormTyped ==
  ASSUME NEW col, GoodCol(col), NEW id \in Ids, NEW v \in Vals \cup {Null}
  PROVE  /\ expr(col, id, v) \in SortVals
         /\ (v = Null => col.null) => (expr(col, id, v) = Null => col.nullable)
         /\ \A key : sortVal(key, col, id, v) = expr(col, id, v)
<1>0. \A key : sortVal(key, col, id, v) = expr(col, id, v)
  BY Zenon DEF sortVal, expr, GoodCol
<1>a. id \in 0..Span /\ (v # Null => v \in 0..Span /\ Lower[v] \in 0..Span) /\ Null \notin 0..Span
  BY Constants
<1>1. CASE col.expr = "key"
  BY <1>0, <1>1, <1>a, Zenon DEF expr, Form, SortVals
<1>2. CASE col.expr = "rank"
  BY <1>0, <1>2, <1>a DEF expr, Form, SortVals
<1>3. CASE col.expr = "lower"
  <2>1. expr(col, id, v) = IF v = Null THEN Null ELSE Lower[v]
    BY <1>3, Zenon DEF expr, Form
  <2>2. (v = Null => col.null) => (expr(col, id, v) = Null => col.nullable)
    BY <1>3, <1>a, <2>1, Zenon DEF GoodCol
  <2> QED BY <1>0, <1>a, <2>1, <2>2, Zenon DEF SortVals
<1>4. CASE col.expr = "plain"
  BY <1>0, <1>4, <1>a, Zenon DEF expr, Form, SortVals, GoodCol
<1> QED BY <1>1, <1>2, <1>3, <1>4, Zenon DEF GoodCol

Directions == {"asc", "desc"}

Points == Nat \ {0}

LEMMA Stretches ==
  ASSUME NEW w \in Nat \ {0}, NEW k \in Nat, NEW l \in Nat, k < l
  PROVE  w * k \in Nat /\ w * l \in Nat /\ w * k + w <= w * l
  OBVIOUS

\* Places are ordered by their stretch, and inside it by the offset.
LEMMA SpotOrder ==
  ASSUME NEW k \in Nat, NEW l \in Nat, NEW a \in 0..Span, NEW b \in 0..Span
  PROVE  /\ Spot(k, a) \in Nat /\ (k > 0 \/ a > 0 => Spot(k, a) \in Points)
         /\ Spot(k, a) < Spot(l, b) <=> k < l \/ (k = l /\ a < b)
         /\ Spot(k, a) <= Spot(l, b) <=> k < l \/ (k = l /\ a <= b)
         /\ Spot(k, a) = Spot(l, b) <=> k = l /\ a = b
<1> DEFINE w == Span + 1
           x == w * k
           y == w * l
<1>1. w \in Nat \ {0} /\ a < w /\ b < w
  OBVIOUS
<1>2. x \in Nat /\ y \in Nat /\ Spot(k, a) = x + a /\ Spot(l, b) = y + b
  BY DEF Spot
<1>3. (k < l => x + w <= y) /\ (l < k => y + w <= x) /\ (k = l => x = y)
  <2> HIDE DEF w
  <2>1. ASSUME k < l PROVE x + w <= y
    BY <1>1, <2>1, Stretches, Zenon
  <2>2. ASSUME l < k PROVE y + w <= x
    BY <1>1, <2>2, Stretches, Zenon
  <2> QED BY <2>1, <2>2, Zenon
<1>4. k > 0 => x > 0
  <2> HIDE DEF w
  <2>1. ASSUME k > 0 PROVE w * 0 + w <= x
    BY <1>1, <2>1, Stretches, Zenon
  <2> QED BY <1>1, <1>2, <2>1
<1> HIDE DEF w, x, y
<1> QED BY <1>1, <1>2, <1>3, <1>4 DEF Points

LEMMA SpotTyped ==
  ASSUME NEW k \in Nat, NEW a \in 0..Span
  PROVE  Spot(k, a) \in Nat /\ (k > 0 => Spot(k, a) \in Points)
  BY SpotOrder, Zenon

\* Behind every place of a sorted list.
End == Spot(Span + 3, 0)

\* The stretch of a value and the offset of an id.
LEMMA StretchTyped ==
  ASSUME NEW p, NEW i \in 1..Span, NEW v \in SortVals
  PROVE  /\ Stretch(p, v) \in Nat /\ Stretch(p, v) \in 1..(Span + 2) /\ Offset(p, i) \in 0..Span
<1>1. Offset(p, i) \in 0..Span
  BY DEF Offset
<1>2. CASE v = Null
  BY <1>1, <1>2 DEF Stretch
<1>3. CASE v # Null
  BY <1>1, <1>3 DEF Stretch, SortVals
<1> QED BY <1>2, <1>3, Zenon

LEMMA RankTyped ==
  ASSUME NEW p, NEW i \in 1..Span, NEW v \in SortVals
  PROVE  Rank(p, i, v) \in Points /\ Rank(p, i, v) < End /\ End \in Nat
<1>1. /\ Stretch(p, v) \in Nat /\ Stretch(p, v) > 0 /\ Stretch(p, v) < Span + 3
      /\ Offset(p, i) \in 0..Span /\ Span + 3 \in Nat /\ 0 \in 0..Span
  BY StretchTyped
<1> QED BY <1>1, SpotOrder DEF Rank, End

LEMMA RankInjective ==
  ASSUME NEW p, NEW i \in 1..Span, NEW v \in SortVals, NEW j \in 1..Span, NEW w \in SortVals, i # j
  PROVE  Rank(p, i, v) # Rank(p, j, w)
<1>1. /\ Stretch(p, v) \in Nat /\ Offset(p, i) \in 0..Span
      /\ Stretch(p, w) \in Nat /\ Offset(p, j) \in 0..Span
  BY StretchTyped, Zenon
<1>2. Offset(p, i) # Offset(p, j)
  BY DEF Offset
<1> QED BY <1>1, <1>2, SpotOrder DEF Rank

\* The place sorts by the value, then by the id, with NULL at the end.
LEMMA RankOrder ==
  ASSUME NEW p, p.dir \in Directions, Null \notin 0..Span,
         NEW i \in 1..Span, NEW v \in SortVals, NEW j \in 1..Span, NEW w \in SortVals
  PROVE  Rank(p, i, v) < Rank(p, j, w) <=>
           \/ v # Null /\ w = Null
           \/ v # Null /\ w # Null /\ (IF p.dir = "asc" THEN v < w ELSE w < v)
           \/ v = w /\ (IF p.dir = "asc" THEN i < j ELSE j < i)
<1>1. /\ Stretch(p, v) \in Nat /\ Offset(p, i) \in 0..Span
      /\ Stretch(p, w) \in Nat /\ Offset(p, j) \in 0..Span
  BY StretchTyped, Zenon
<1>2. Rank(p, i, v) < Rank(p, j, w) <=>
        \/ Stretch(p, v) < Stretch(p, w)
        \/ Stretch(p, v) = Stretch(p, w) /\ Offset(p, i) < Offset(p, j)
  BY <1>1, SpotOrder, Zenon DEF Rank
<1>3. Offset(p, i) < Offset(p, j) <=> IF p.dir = "asc" THEN i < j ELSE j < i
  BY DEF Offset
<1>4. CASE v = Null \/ w = Null
  BY <1>2, <1>3, <1>4 DEF Stretch, SortVals
<1>5. CASE v # Null /\ w # Null
  BY <1>2, <1>3, <1>5 DEF Stretch, SortVals
<1> QED BY <1>4, <1>5, Zenon

\* ORDER BY sorts by the place.
LEMMA BeforeIsRank ==
  ASSUME NEW p, p.dir \in Directions, Null \notin 0..Span,
         NEW i \in 1..Span, NEW v \in SortVals, NEW j \in 1..Span, NEW w \in SortVals,
         v = Null \/ w = Null => p.col.nullable
  PROVE  Before(p.col, p.dir, i, v, j, w) <=> Rank(p, i, v) < Rank(p, j, w)
<1>1. Rank(p, i, v) < Rank(p, j, w) <=>
        \/ v # Null /\ w = Null
        \/ v # Null /\ w # Null /\ (IF p.dir = "asc" THEN v < w ELSE w < v)
        \/ v = w /\ (IF p.dir = "asc" THEN i < j ELSE j < i)
  BY RankOrder
<1>2. CASE v = Null \/ w = Null
  BY <1>1, <1>2, Zenon DEF Before, Past, SortVals
<1>3. CASE v # Null /\ w # Null
  BY <1>1, <1>3, Zenon DEF Before, Past, SortVals
<1> QED BY <1>2, <1>3, Zenon

\* The keyset condition holds of the rows behind the cursor's place.
LEMMA KeysetIsRank ==
  ASSUME NEW p, p.dir \in Directions, Null \notin 0..Span,
         NEW cur, cur.id \in 1..Span, cur.val \in SortVals,
         NEW i \in 1..Span, NEW v \in SortVals,
         v = Null \/ cur.val = Null => p.col.nullable
  PROVE  keysetCond(p.col, p.dir, cur, i, v) <=> Rank(p, cur.id, cur.val) < Rank(p, i, v)
<1>1. Rank(p, cur.id, cur.val) < Rank(p, i, v) <=>
        \/ cur.val # Null /\ v = Null
        \/ cur.val # Null /\ v # Null /\ (IF p.dir = "asc" THEN cur.val < v ELSE v < cur.val)
        \/ cur.val = v /\ (IF p.dir = "asc" THEN cur.id < i ELSE i < cur.id)
  BY RankOrder
<1>2. CASE cur.val = Null \/ v = Null
  BY <1>1, <1>2, Zenon DEF keysetCond, Past, SortVals
<1>3. CASE cur.val # Null /\ v # Null
  BY <1>1, <1>3, Zenon DEF keysetCond, Past, SortVals
<1> QED BY <1>2, <1>3, Zenon

-----------------------------------------------------------------------------
(* The first n of a set, by a place that tells its members apart. *)

LEMMA EmptyCount == Cardinality({}) = 0
  BY FS_EmptySet, Zenon

LEMMA IntervalCount ==
  ASSUME NEW a \in Int, NEW b \in Int, a <= b + 1
  PROVE  IsFiniteSet(a..b) /\ Cardinality(a..b) = b - a + 1
<1>1. IsFiniteSet(a..b) /\ Cardinality(a..b) = IF a > b THEN 0 ELSE b - a + 1
  BY FS_Interval, Zenon
<1> QED BY <1>1

Lines == {r \in [Ids -> Points] : /\ \A i \in Ids : r[i] < End
                                 /\ \A i, j \in Ids : r[i] = r[j] => i = j}

LEMMA LineFacts ==
  ASSUME NEW r \in Lines
  PROVE  /\ \A i \in Ids : r[i] \in Points /\ r[i] \in Int /\ r[i] < End
         /\ \A i, j \in Ids : i # j => r[i] < r[j] \/ r[j] < r[i]
<1>1. \A i \in Ids : r[i] \in Points /\ r[i] < End
  BY Zenon DEF Lines
<1>2. \A i, j \in Ids : i # j => r[i] # r[j]
  BY Zenon DEF Lines
<1>3. ASSUME NEW i \in Ids, NEW j \in Ids, i # j PROVE r[i] < r[j] \/ r[j] < r[i]
  <2>1. r[i] \in Int /\ r[j] \in Int /\ r[i] # r[j]
    BY <1>1, <1>2, <1>3 DEF Points
  <2> QED BY <2>1
<1>4. \A i \in Ids : r[i] \in Int
  BY <1>1 DEF Points
<1> QED BY <1>1, <1>3, <1>4, Zenon

Low(S, r, i) == {j \in S : r[j] < r[i]}

Top(S, r, n) == {i \in S : Cardinality(Low(S, r, i)) < n}

LEMMA Small ==
  ASSUME NEW S \in SUBSET Ids
  PROVE  /\ IsFiniteSet(S) /\ Cardinality(S) \in 0..Span
         /\ \A T \in SUBSET S : Cardinality(T) <= Cardinality(S)
         /\ \A x \in S : Cardinality(S \ {x}) = Cardinality(S) - 1
<1>1. IsFiniteSet(1..Span) /\ Cardinality(1..Span) = Span
  <2>1. 1 \in Int /\ Span \in Int /\ 1 <= Span + 1 /\ Span - 1 + 1 = Span
    OBVIOUS
  <2>2. IsFiniteSet(1..Span) /\ Cardinality(1..Span) = Span - 1 + 1
    BY <2>1, IntervalCount, Zenon
  <2> QED BY <2>1, <2>2, Zenon
<1>2. S \in SUBSET (1..Span)
  BY Constants, Zenon
<1>3. IsFiniteSet(S) /\ Cardinality(S) <= Span
  BY <1>1, <1>2, FS_Subset, ZenonT(30)
<1>4. Cardinality(S) \in Nat
  BY <1>3, FS_CardinalityType, Zenon
<1>5. \A T \in SUBSET S : Cardinality(T) <= Cardinality(S)
  BY <1>3, FS_Subset, Zenon
<1>6. \A x \in S : Cardinality(S \ {x}) = Cardinality(S) - 1
  BY <1>3, FS_RemoveElement, Zenon
<1> QED BY <1>3, <1>4, <1>5, <1>6

LEMMA LeastMember ==
  ASSUME NEW r \in Lines, NEW S \in SUBSET Ids, S # {}
  PROVE  \E x \in S : \A y \in S \ {x} : r[x] < r[y]
<1> DEFINE T == {r[i] : i \in S}
<1>1. T \in SUBSET Nat /\ T # {}
  BY LineFacts, Zenon DEF Points
<1>2. PICK m \in T : \A y \in T : ~(<<y, m>> \in OpToRel(<, Nat))
  BY <1>1, WFMin, NatLessThanWellFounded, ZenonT(60)
<1>3. \A y \in T : ~(y < m)
  BY <1>1, <1>2, Zenon DEF OpToRel
<1>4. PICK x \in S : m = r[x]
  BY Zenon
<1>5. ASSUME NEW y \in S \ {x} PROVE r[x] < r[y]
  <2>1. r[y] \in T /\ y \in Ids /\ x \in Ids
    BY Zenon
  <2> QED BY <1>3, <1>4, <2>1, LineFacts, Zenon
<1> QED BY <1>5, Zenon

LEMMA EndTyped == End \in Nat
<1>1. Span + 3 \in Nat /\ 0 \in 0..Span
  OBVIOUS
<1> QED BY <1>1, SpotOrder, Zenon DEF End

LEMMA Mirror == \A a, b \in Int : End - a < End - b => b < a
  BY EndTyped

LEMMA GreatestMember ==
  ASSUME NEW r \in Lines, NEW S \in SUBSET Ids, S # {}
  PROVE  \E x \in S : \A y \in S \ {x} : r[y] < r[x]
<1> DEFINE q == [i \in Ids |-> End - r[i]]
<1>1. \A i \in Ids : q[i] = End - r[i] /\ r[i] \in Points /\ r[i] < End
  BY LineFacts, Zenon
<1>2. q = [i \in Ids |-> q[i]]
  BY Zenon
<1> HIDE DEF q
<1>3. \A i \in Ids : q[i] \in Points /\ q[i] < End
  BY <1>1, EndTyped DEF Points
<1>4. \A i, j \in Ids : q[i] = q[j] => i = j
  BY <1>1, LineFacts, EndTyped
<1>5. q \in Lines
  BY <1>2, <1>3, <1>4, Zenon DEF Lines
<1>6. PICK x \in S : \A y \in S \ {x} : q[x] < q[y]
  BY <1>5, LeastMember, Zenon
<1>7. ASSUME NEW y \in S \ {x} PROVE r[y] < r[x]
  <2>1. q[x] < q[y] /\ x \in Ids /\ y \in Ids
    BY <1>6, Zenon
  <2>2. q[x] = End - r[x] /\ q[y] = End - r[y] /\ r[x] \in Int /\ r[y] \in Int
    BY <1>1, <2>1, LineFacts, Zenon
  <2>3. End - r[x] < End - r[y] /\ r[x] \in Int /\ r[y] \in Int
    BY <2>1, <2>2, Zenon
  <2> QED BY <2>3, Mirror, Zenon
<1> QED BY <1>7, Zenon

\* What is before a member of the first n is among them.
LEMMA TopClosed ==
  ASSUME NEW r \in Lines, NEW S \in SUBSET Ids, NEW n \in Int,
         NEW i \in Top(S, r, n), NEW j \in S, r[j] < r[i]
  PROVE  j \in Top(S, r, n)
<1>1. Low(S, r, j) \in SUBSET Low(S, r, i) /\ Low(S, r, i) \in SUBSET Ids
  <2>1. i \in Ids /\ j \in Ids
    BY Zenon DEF Top
  <2>2. \A k \in S : r[k] < r[j] => r[k] < r[i]
    BY <2>1, LineFacts
  <2> QED BY <2>2, Zenon DEF Low
<1>2. /\ Cardinality(Low(S, r, j)) <= Cardinality(Low(S, r, i))
      /\ Cardinality(Low(S, r, j)) \in Int /\ Cardinality(Low(S, r, i)) \in Int
  BY <1>1, Small
<1> QED BY <1>2 DEF Top

\* With limit+1 rows fetched: what is returned is a beginning of what matches,
\* all of it when the extra row is missing, and not empty when it is there.
LEMMA PageOfTop ==
  ASSUME NEW r \in Lines, NEW S \in SUBSET Ids, NEW n \in Nat \ {0},
         NEW rows, rows = Top(S, r, n + 1), NEW page, page = Top(rows, r, n)
  PROVE  /\ page \in SUBSET S
         /\ \A i \in page, j \in S : r[j] < r[i] => j \in page
         /\ ~(Cardinality(rows) > n) => page = S
         /\ Cardinality(rows) > n => page # {}
<1>0. rows \in SUBSET S /\ page \in SUBSET rows /\ rows \in SUBSET Ids
  BY Zenon DEF Top
<1>1. \A i \in rows, j \in S : r[j] < r[i] => j \in rows
  BY TopClosed
<1>2. \A i \in page, j \in rows : r[j] < r[i] => j \in page
  BY <1>0, TopClosed
<1>3. \A i \in page, j \in S : r[j] < r[i] => j \in page
  BY <1>0, <1>1, <1>2, Zenon
<1>4. ASSUME ~(Cardinality(rows) > n) PROVE page = S
  <2>1. rows = S
    <3> SUFFICES ASSUME S \ rows # {} PROVE FALSE
      BY <1>0, Zenon
    <3>1. PICK x \in S \ rows : \A y \in (S \ rows) \ {x} : r[x] < r[y]
      BY LeastMember, Zenon
    <3>2. Low(S, r, x) \in SUBSET rows
      <4> SUFFICES ASSUME NEW y \in S, r[y] < r[x], y \notin rows PROVE FALSE
        BY Zenon DEF Low
      <4>1. y # x
        BY LineFacts
      <4> QED BY <3>1, <4>1, LineFacts
    <3>3. ~(Cardinality(Low(S, r, x)) < n + 1)
      BY <3>1, Zenon DEF Top
    <3>4. /\ Cardinality(Low(S, r, x)) <= Cardinality(rows)
          /\ Cardinality(rows) \in Int
      BY <1>0, <3>2, Small
    <3>5. Cardinality(Low(S, r, x)) \in Int
      BY <1>0, <3>2, Small
    <3> QED BY <1>4, <3>3, <3>4, <3>5
  <2>2. ASSUME NEW i \in rows PROVE i \in page
    <3>1. Low(rows, r, i) \in SUBSET (rows \ {i})
      <4>1. ~(r[i] < r[i])
        BY <1>0, LineFacts
      <4> QED BY <4>1, ZenonT(60) DEF Low
    <3>2. /\ Cardinality(rows \ {i}) = Cardinality(rows) - 1
          /\ Cardinality(rows) \in Int
      BY <1>0, Small
    <3>3. /\ Cardinality(Low(rows, r, i)) <= Cardinality(rows \ {i})
          /\ Cardinality(Low(rows, r, i)) \in Int
      BY <1>0, <3>1, Small
    <3>4. Cardinality(Low(rows, r, i)) < n
      BY <1>4, <3>2, <3>3
    <3> QED BY <3>4, Zenon DEF Top
  <2> QED BY <1>0, <2>1, <2>2, ZenonT(60)
<1>5. ASSUME Cardinality(rows) > n PROVE page # {}
  <2>1. rows # {}
    BY <1>5, EmptyCount
  <2>2. PICK x \in rows : \A y \in rows \ {x} : r[x] < r[y]
    BY <1>0, <2>1, LeastMember
  <2>3. Low(rows, r, x) = {}
    <3>1. \A y \in rows : ~(r[y] < r[x])
      BY <1>0, <2>2, LineFacts
    <3> QED BY <3>1, Zenon DEF Low
  <2>4. Cardinality(Low(rows, r, x)) = 0
    BY <2>3, EmptyCount, Zenon
  <2> QED BY <2>4 DEF Top
<1> QED BY <1>0, <1>3, <1>4, <1>5, Zenon

-----------------------------------------------------------------------------
(* A page of a sorted list. *)

TableOK(t) == t \in [Ids -> Row \cup {None}]

Sorted(p) == p.dir \in Directions /\ p.key \in Keys /\ GoodCol(p.col)

\* A cursor minted by a list that is read by p.
Minted(cur, p) ==
  /\ cur \in Cursors /\ cur.col = p.key /\ cur.dir = p.dir
  /\ cur.id \in Ids /\ cur.val \in SortVals
  /\ cur.val = Null => p.col.nullable

LineOf(p) == [i \in Ids |-> Rank(p, i, IF table[i] = None THEN 0 ELSE ExprOf(p, i))]

LEMMA ExprTyped ==
  ASSUME TableOK(table), NEW p, Sorted(p), Fits(p, table), NEW i \in Ids, table[i] # None
  PROVE  /\ ExprOf(p, i) \in SortVals
         /\ ExprOf(p, i) = Null => p.col.nullable
         /\ \A key : sortVal(key, p.col, i, table[i].val) = ExprOf(p, i)
<1>1. table[i].val \in Vals \cup {Null}
  BY Zenon DEF TableOK, Row
<1>2. table[i].val = Null => p.col.null
  BY Zenon DEF Fits
<1> QED BY <1>1, <1>2, FormTyped, Zenon DEF Sorted, ExprOf

LEMMA LineOfTyped ==
  ASSUME TableOK(table), NEW p, Sorted(p), Fits(p, table)
  PROVE  /\ LineOf(p) \in Lines
         /\ \A i \in Ids : table[i] # None => LineOf(p)[i] = Rank(p, i, ExprOf(p, i))
<1> DEFINE x(i) == IF table[i] = None THEN 0 ELSE ExprOf(p, i)
<1>1. \A i \in Ids : x(i) \in SortVals /\ i \in 1..Span
  BY ExprTyped, ListsAssumption DEF SortVals
<1>2. \A i \in Ids : LineOf(p)[i] = Rank(p, i, x(i))
  BY Zenon DEF LineOf
<1>3. \A i \in Ids : table[i] # None => x(i) = ExprOf(p, i)
  BY Zenon
<1>4. DOMAIN LineOf(p) = Ids /\ LineOf(p) = [i \in Ids |-> LineOf(p)[i]]
  BY Zenon DEF LineOf
<1> HIDE DEF x
<1>5. \A i \in Ids : LineOf(p)[i] \in Points /\ LineOf(p)[i] < End
  BY <1>1, <1>2, RankTyped, Zenon
<1>6. ASSUME NEW i \in Ids, NEW j \in Ids, LineOf(p)[i] = LineOf(p)[j] PROVE i = j
  <2>1. Rank(p, i, x(i)) = Rank(p, j, x(j))
    BY <1>2, <1>6, Zenon
  <2> QED BY <1>1, <2>1, RankInjective, ZenonT(60)
<1> QED BY <1>2, <1>3, <1>4, <1>5, <1>6, Zenon DEF Lines

LEMMA FirstRowsIsTop ==
  ASSUME TableOK(table), NEW p, Sorted(p), Fits(p, table),
         NEW S \in SUBSET {i \in Ids : table[i] # None}, NEW n
  PROVE  FirstRows(p, S, n) = Top(S, LineOf(p), n)
<1>1. ASSUME NEW i \in S, NEW j \in S
      PROVE  Before(p.col, p.dir, j, ExprOf(p, j), i, ExprOf(p, i)) <=> LineOf(p)[j] < LineOf(p)[i]
  <2>1. /\ ExprOf(p, i) \in SortVals /\ ExprOf(p, j) \in SortVals
        /\ ExprOf(p, j) = Null \/ ExprOf(p, i) = Null => p.col.nullable
    BY ExprTyped, Zenon
  <2>2. i \in 1..Span /\ j \in 1..Span /\ Null \notin 0..Span
    BY ListsAssumption, Zenon
  <2>3. Before(p.col, p.dir, j, ExprOf(p, j), i, ExprOf(p, i))
          <=> Rank(p, j, ExprOf(p, j)) < Rank(p, i, ExprOf(p, i))
    BY <2>1, <2>2, BeforeIsRank, Zenon DEF Sorted
  <2> QED BY <2>3, LineOfTyped, Zenon
<1>2. ASSUME NEW i \in S
      PROVE  {j \in S : Before(p.col, p.dir, j, ExprOf(p, j), i, ExprOf(p, i))} = Low(S, LineOf(p), i)
  BY <1>1, Zenon DEF Low
<1> QED BY <1>2, Zenon DEF FirstRows, Top

LEMMA MatchingIsAhead ==
  ASSUME TableOK(table), NEW p, Sorted(p), Fits(p, table), NEW cur, cur = None \/ Minted(cur, p)
  PROVE  Matching(p, cur) =
           {i \in Ids : /\ Visible(p, table[i])
                        /\ cur # None => Rank(p, cur.id, cur.val) < LineOf(p)[i]}
<1>1. ASSUME NEW i \in Ids, Visible(p, table[i]), cur # None
      PROVE  keysetCond(p.col, p.dir, cur, i, ExprOf(p, i))
               <=> Rank(p, cur.id, cur.val) < LineOf(p)[i]
  <2>1. table[i] # None
    BY <1>1, Zenon DEF Visible
  <2>2. ExprOf(p, i) \in SortVals /\ (ExprOf(p, i) = Null => p.col.nullable)
    BY <2>1, ExprTyped, Zenon
  <2>3. cur.id \in 1..Span /\ cur.val \in SortVals /\ (cur.val = Null => p.col.nullable)
    BY <1>1, ListsAssumption, Zenon DEF Minted
  <2>4. i \in 1..Span /\ Null \notin 0..Span
    BY ListsAssumption, Zenon
  <2>5. keysetCond(p.col, p.dir, cur, i, ExprOf(p, i))
          <=> Rank(p, cur.id, cur.val) < Rank(p, i, ExprOf(p, i))
    BY <2>2, <2>3, <2>4, KeysetIsRank, ZenonT(60) DEF Sorted
  <2> QED BY <2>1, <2>5, LineOfTyped, Zenon
<1> QED BY <1>1, Zenon DEF Matching

\* A page of the rows A of a list read by p: a beginning of them by the place r,
\* and a cursor minted from the last, or all of them.
Paged(pg, p, r, A) ==
  /\ r \in Lines /\ A \in SUBSET Ids /\ pg.items \in SUBSET A
  /\ \A i \in pg.items, j \in A : r[j] < r[i] => j \in pg.items
  /\ pg.next = None => pg.items = A
  /\ pg.next # None =>
       /\ Minted(pg.next, p)
       /\ \E x \in pg.items : /\ \A y \in pg.items \ {x} : r[y] < r[x]
                              /\ Rank(p, pg.next.id, pg.next.val) = r[x]

\* What one page returns.
LEMMA PageFacts ==
  ASSUME TableOK(table), NEW p, Sorted(p), Fits(p, table), NEW cur, cur = None \/ Minted(cur, p),
         NEW n \in Nat \ {0}, NEW r, r = LineOf(p), NEW A, A = Matching(p, cur),
         NEW pg, pg = KeysetPage(p, cur, n)
  PROVE  Paged(pg, p, r, A)
<1> DEFINE rows == FirstRows(p, A, n + 1)
           page == FirstRows(p, rows, n)
           last == LastOf(p, page)
           cursr == encodeListCursor(p.key, sortVal(p.key, p.col, last, table[last].val), last, p.dir)
<1>1. r \in Lines /\ \A i \in Ids : table[i] # None => r[i] = Rank(p, i, ExprOf(p, i))
  BY LineOfTyped, Zenon
<1>2. A \in SUBSET {i \in Ids : table[i] # None}
  BY Zenon DEF Matching, Visible
<1>3. rows = Top(A, r, n + 1)
  BY <1>2, FirstRowsIsTop, Zenon
<1>4. rows \in SUBSET {i \in Ids : table[i] # None}
  BY <1>2, <1>3, ZenonT(60) DEF Top
<1>5. page = Top(rows, r, n)
  BY <1>4, FirstRowsIsTop, Zenon
<1>6. pg.items = page /\ pg.next = IF Cardinality(rows) > n THEN cursr ELSE None
  BY ZenonT(60) DEF KeysetPage
<1> HIDE DEF rows, page
<1>7. /\ page \in SUBSET A
      /\ \A i \in page, j \in A : r[j] < r[i] => j \in page
      /\ ~(Cardinality(rows) > n) => page = A
      /\ Cardinality(rows) > n => page # {}
  BY <1>1, <1>2, <1>3, <1>5, PageOfTop
<1>8. ASSUME Cardinality(rows) > n
      PROVE  /\ Minted(cursr, p) /\ cursr # None
             /\ last \in page /\ \A y \in page \ {last} : r[y] < r[last]
             /\ Rank(p, cursr.id, cursr.val) = r[last]
  <2>1. page \in SUBSET Ids /\ page # {} /\ \A i \in page : table[i] # None
    BY <1>2, <1>7, <1>8, Zenon
  <2>2. ASSUME NEW i \in page, NEW j \in page
        PROVE  Before(p.col, p.dir, j, ExprOf(p, j), i, ExprOf(p, i)) <=> r[j] < r[i]
    <3>1. /\ ExprOf(p, i) \in SortVals /\ ExprOf(p, j) \in SortVals
          /\ ExprOf(p, j) = Null \/ ExprOf(p, i) = Null => p.col.nullable
      BY <2>1, ExprTyped, Zenon
    <3>2. i \in 1..Span /\ j \in 1..Span /\ Null \notin 0..Span
      BY <2>1, ListsAssumption, Zenon
    <3>3. Before(p.col, p.dir, j, ExprOf(p, j), i, ExprOf(p, i))
            <=> Rank(p, j, ExprOf(p, j)) < Rank(p, i, ExprOf(p, i))
      BY <3>1, <3>2, BeforeIsRank, Zenon DEF Sorted
    <3> QED BY <1>1, <2>1, <3>3, Zenon
  <2>3. \E x \in page : \A y \in page \ {x} : r[y] < r[x]
    BY <1>1, <2>1, GreatestMember, ZenonT(60)
  <2>4. \E x \in page : \A y \in page \ {x} :
           Before(p.col, p.dir, y, ExprOf(p, y), x, ExprOf(p, x))
    BY <2>2, <2>3, Zenon
  <2>5. last \in page /\ \A y \in page \ {last} :
           Before(p.col, p.dir, y, ExprOf(p, y), last, ExprOf(p, last))
    BY <2>4, Zenon DEF LastOf
  <2> HIDE DEF last
  <2>6. \A y \in page \ {last} : r[y] < r[last]
    BY <2>2, <2>5, Zenon
  <2>7. /\ ExprOf(p, last) \in SortVals /\ (ExprOf(p, last) = Null => p.col.nullable)
        /\ sortVal(p.key, p.col, last, table[last].val) = ExprOf(p, last)
    BY <2>1, <2>5, ExprTyped, Zenon
  <2>8. cursr = [col |-> p.key, val |-> ExprOf(p, last), id |-> last, dir |-> p.dir]
    BY <2>7, Zenon DEF encodeListCursor
  <2>9. last \in Ids
    BY <2>1, <2>5, Zenon
  <2> HIDE DEF cursr
  <2>10. cursr \in Cursors
    BY <2>7, <2>8, <2>9, Zenon DEF Cursors, Sorted, Keys, SortVals, Directions
  <2>11. Minted(cursr, p) /\ cursr # None
    BY <2>7, <2>8, <2>9, <2>10, ListsAssumption, ZenonT(60) DEF Minted
  <2>12. Rank(p, cursr.id, cursr.val) = r[last]
    BY <1>1, <2>1, <2>5, <2>8, <2>9, ZenonT(60)
  <2> QED BY <2>5, <2>6, <2>11, <2>12, Zenon
<1> HIDE DEF cursr, last
<1>9. A \in SUBSET Ids
  BY <1>2, Zenon
<1>10. pg.next = None => pg.items = A
  BY <1>6, <1>7, <1>8, Zenon
<1>11. ASSUME pg.next # None
       PROVE  /\ Minted(pg.next, p)
              /\ \E x \in pg.items : /\ \A y \in pg.items \ {x} : r[y] < r[x]
                                     /\ Rank(p, pg.next.id, pg.next.val) = r[x]
  <2>1. Cardinality(rows) > n /\ pg.next = cursr
    BY <1>6, <1>11, Zenon
  <2> QED BY <1>6, <1>8, <2>1, ZenonT(60)
<1> QED BY <1>1, <1>6, <1>7, <1>9, <1>10, <1>11, ZenonT(60) DEF Paged

-----------------------------------------------------------------------------
(* The invariant of the walk. *)

\* A sorted list is being read.
Browsing ==
  /\ plan.by \in {"client"} \cup Caps /\ plan.max \in Nat \ {0}
  /\ {"key", "col", "dir"} \subseteq DOMAIN plan /\ Sorted(plan) /\ Fits(plan, table)
  /\ cursor = None \/ Minted(cursor, plan)

\* The members of an application are being read.
Numbering ==
  /\ plan.by = "members" /\ plan.max \in Nat \ {0} /\ plan.kind \in 0..3
  /\ \A i \in Ids : table[i] # None => table[i].val # Null
  /\ cursor = None \/ (cursor \in [kind : 1..3, off : 0..Span] /\ plan.kind \in {0, cursor.kind})

Walk ==
  /\ TableOK(table) /\ seen \subseteq Ids /\ todo \in Seq(Legs)
  /\ status \in {"idle", "open", "done", "rejected"}
  /\ status = "idle" => plan.by = "nobody"
  /\ plan.by \notin Caps => todo = <<>> /\ ~cut
  /\ \/ plan = NoPlan /\ cursor = None /\ status \in {"idle", "rejected"}
     \/ Browsing
     \/ Numbering

LEMMA WalkInit == Init => Walk
<1> SUFFICES ASSUME Init PROVE Walk
  BY Zenon
<1>1. table \in [Ids -> Row \cup {None}]
  <2>1. Tables \subseteq [Ids -> Row \cup {None}]
    BY ListsAssumption, Zenon
  <2> QED BY <2>1, Zenon DEF Init
<1>2. plan = NoPlan /\ plan.by = "nobody" /\ "nobody" \notin Caps
  BY Zenon DEF Init, NoPlan, Caps
<1>3. <<>> \in Seq(Legs)
  OBVIOUS
<1> QED BY <1>1, <1>2, <1>3, ZenonT(60) DEF Init, Walk, TableOK

\* On a sorted list, the rows ahead of the mark are those that match.
AlongTheOrder ==
  /\ Placed \in [Ids -> Points \cup {None}] /\ MarkOf \in Nat
  /\ cursor # None => MarkOf = Rank(plan, cursor.id, cursor.val)
  /\ cursor = None => MarkOf = 0
  /\ \A i \in Ids : Placed[i] # None <=> Visible(plan, table[i])
  /\ \A i \in Ids : Placed[i] # None /\ Placed[i] > MarkOf <=> i \in Matching(plan, cursor)
  /\ \A i \in Ids : Placed[i] # None => Placed[i] = LineOf(plan)[i]

LEMMA PlacedSorted == TableOK(table) /\ Browsing => AlongTheOrder
<1> SUFFICES ASSUME TableOK(table), Browsing PROVE AlongTheOrder
  BY Zenon
<1>0. plan.by # "members" /\ plan.by # "nobody"
  BY Zenon DEF Browsing, Caps
<1>1. /\ LineOf(plan) \in Lines
      /\ \A i \in Ids : table[i] # None => LineOf(plan)[i] = Rank(plan, i, ExprOf(plan, i))
  BY LineOfTyped, Zenon DEF Browsing
<1>2. \A i \in Ids : Visible(plan, table[i]) => table[i] # None
  BY Zenon DEF Visible
<1>3. \A i \in Ids : Placed[i] = IF Visible(plan, table[i]) THEN LineOf(plan)[i] ELSE None
  BY <1>0, <1>1, <1>2, Zenon DEF Placed, Place
<1>4. ASSUME NEW i \in Ids PROVE LineOf(plan)[i] \in Points /\ LineOf(plan)[i] # None
  <2>1. LineOf(plan)[i] \in Points
    BY <1>1, LineFacts, Zenon
  <2>2. None \notin Points
    BY Constants, Zenon DEF Points
  <2> QED BY <2>1, <2>2, Zenon
<1>5. Placed \in [Ids -> Points \cup {None}]
  <2>1. Placed = [i \in Ids |-> Placed[i]]
    BY Zenon DEF Placed
  <2> QED BY <1>3, <1>4, <2>1, Zenon
<1>6. MarkOf = IF cursor = None THEN 0 ELSE Rank(plan, cursor.id, cursor.val)
  BY <1>0, Zenon DEF MarkOf
<1>7. MarkOf \in Nat
  <2>1. ASSUME cursor # None PROVE Rank(plan, cursor.id, cursor.val) \in Nat
    <3>1. cursor.id \in Ids /\ cursor.val \in SortVals
      BY <2>1, Zenon DEF Browsing, Minted
    <3>2. cursor.id \in 1..Span
      BY <3>1, Constants, Zenon
    <3> QED BY <3>1, <3>2, RankTyped, Zenon DEF Points
  <2>2. CASE cursor = None
    BY <1>6, <2>2, Zenon
  <2>3. CASE cursor # None
    BY <1>6, <2>1, <2>3, Zenon
  <2> QED BY <2>2, <2>3, Zenon
<1>8. Matching(plan, cursor) =
        {i \in Ids : /\ Visible(plan, table[i])
                     /\ cursor # None => Rank(plan, cursor.id, cursor.val) < LineOf(plan)[i]}
  BY MatchingIsAhead, Zenon DEF Browsing
<1>9. ASSUME NEW i \in Ids PROVE Placed[i] # None /\ Placed[i] > MarkOf <=> i \in Matching(plan, cursor)
  <2>1. Placed[i] = IF Visible(plan, table[i]) THEN LineOf(plan)[i] ELSE None
    BY <1>3, Zenon
  <2>2. LineOf(plan)[i] \in Nat \ {0} /\ LineOf(plan)[i] # None
    BY <1>4, Zenon DEF Points
  <2>3. i \in Matching(plan, cursor) <=>
          /\ Visible(plan, table[i])
          /\ cursor # None => Rank(plan, cursor.id, cursor.val) < LineOf(plan)[i]
    BY <1>8, ZenonT(60)
  <2>4. CASE cursor = None
    BY <1>6, <2>1, <2>2, <2>3, <2>4
  <2>5. CASE cursor # None
    BY <1>6, <1>7, <2>1, <2>2, <2>3, <2>5, ZenonT(60)
  <2> QED BY <2>4, <2>5, Zenon
<1>10. ASSUME NEW i \in Ids
       PROVE  /\ Placed[i] # None <=> Visible(plan, table[i])
              /\ Placed[i] # None => Placed[i] = LineOf(plan)[i]
  BY <1>3, <1>4, Zenon
<1>11. /\ cursor # None => MarkOf = Rank(plan, cursor.id, cursor.val)
       /\ cursor = None => MarkOf = 0
  BY <1>6, Zenon
<1> QED BY <1>5, <1>7, <1>9, <1>10, <1>11, ZenonT(60) DEF AlongTheOrder

LEMMA PlacedSortedNext == ASSUME TableOK(table)', Browsing' PROVE AlongTheOrder'
<1>1. (TableOK(table) /\ Browsing => AlongTheOrder)'
  BY PlacedSorted, PTL
<1> QED BY <1>1, Zenon

-----------------------------------------------------------------------------
(* A page of an application's members. *)

\* The position of a member in its source is its own, from 1 to their number.
LEMMA Positions ==
  ASSUME TableOK(table), \A i \in Ids : table[i] # None => table[i].val # Null, NEW k \in 1..3
  PROVE  /\ MembersOf(k) \in SUBSET Ids /\ Cardinality(MembersOf(k)) \in 0..Span
         /\ \A i \in MembersOf(k) : Position(i) \in 1..Cardinality(MembersOf(k))
         /\ \A i, j \in MembersOf(k) : Position(i) = Position(j) => i = j
<1> DEFINE M == MembersOf(k)
           p == [dir |-> "asc", col |-> [nullable |-> FALSE]]
           r == [i \in Ids |-> Rank(p, i, IF table[i] = None THEN 0 ELSE table[i].val)]
<1>1. M \in SUBSET Ids /\ \A i \in M : table[i] # None /\ MemberKind[i] = k
  BY Zenon DEF MembersOf
<1>2. \A i \in Ids : table[i] # None => table[i].val \in 1..Span
  <2>1. ASSUME NEW i \in Ids, table[i] # None PROVE table[i].val \in Vals
    BY <2>1, Zenon DEF TableOK, Row
  <2> QED BY <2>1, Constants, Zenon
<1>3. \A i \in Ids : i \in 1..Span
  BY Constants, Zenon
<1>4. r \in Lines
  <2>1. \A i \in Ids : (IF table[i] = None THEN 0 ELSE table[i].val) \in SortVals
    BY <1>2 DEF SortVals
  <2> DEFINE x(i) == IF table[i] = None THEN 0 ELSE table[i].val
  <2>2. r = [i \in Ids |-> r[i]] /\ \A i \in Ids : r[i] = Rank(p, i, x(i))
    BY Zenon
  <2>3. \A i \in Ids : x(i) \in SortVals
    BY <2>1, Zenon
  <2> HIDE DEF r, x, p
  <2>4. \A i \in Ids : r[i] \in Points /\ r[i] < End
    BY <1>3, <2>2, <2>3, RankTyped, Zenon
  <2>5. ASSUME NEW i \in Ids, NEW j \in Ids, r[i] = r[j] PROVE i = j
    <3>1. Rank(p, i, x(i)) = Rank(p, j, x(j))
      BY <2>2, <2>5, ZenonT(60)
    <3> QED BY <1>3, <2>3, <3>1, RankInjective, ZenonT(60)
  <2> QED BY <2>2, <2>4, <2>5, ZenonT(60) DEF Lines
<1>5. ASSUME NEW i \in M, NEW j \in M
      PROVE  Before(PlainCol, "asc", j, table[j].val, i, table[i].val) <=> r[j] < r[i]
  <2>1. /\ table[i].val \in 1..Span /\ table[j].val \in 1..Span /\ i \in 1..Span /\ j \in 1..Span
        /\ table[i] # None /\ table[j] # None /\ i \in Ids /\ j \in Ids
    BY <1>1, <1>2, <1>3, ZenonT(60)
  <2>2. Null \notin 1..Span
    BY ListsAssumption
  <2>3. r[j] < r[i] <=>
          table[j].val < table[i].val \/ (table[j].val = table[i].val /\ j < i)
    <3>1. r[i] = Rank(p, i, table[i].val) /\ r[j] = Rank(p, j, table[j].val) /\ p.dir = "asc"
      BY <2>1, ZenonT(60)
    <3>2. /\ table[i].val \in SortVals /\ table[j].val \in SortVals /\ Null \notin 0..Span
          /\ table[i].val # Null /\ table[j].val # Null
      BY <2>1, <2>2, Constants DEF SortVals
    <3> HIDE DEF r, p
    <3>3. Rank(p, j, table[j].val) < Rank(p, i, table[i].val) <=>
            table[j].val < table[i].val \/ (table[j].val = table[i].val /\ j < i)
      BY <2>1, <3>1, <3>2, RankOrder DEF Directions
    <3> QED BY <3>1, <3>3, Zenon
  <2>4. Before(PlainCol, "asc", j, table[j].val, i, table[i].val) <=>
          table[i].val > table[j].val \/ (table[j].val = table[i].val /\ i > j)
    BY <2>1, <2>2, ZenonT(60) DEF Before, Past
  <2> HIDE DEF r
  <2> QED BY <2>1, <2>3, <2>4, Zenon
<1> HIDE DEF r, M
<1>6. \A i \in M : Position(i) = Cardinality(Low(M, r, i)) + 1
  <2> SUFFICES ASSUME NEW i \in M PROVE Position(i) = Cardinality(Low(M, r, i)) + 1
    BY Zenon
  <2>1. MembersOf(MemberKind[i]) = M
    BY <1>1, Zenon DEF M
  <2>2. {j \in M : Before(PlainCol, "asc", j, table[j].val, i, table[i].val)} = Low(M, r, i)
    BY <1>5, Zenon DEF Low
  <2> QED BY <2>1, <2>2, ZenonT(60) DEF Position
<1>7. Cardinality(M) \in 0..Span
  BY <1>1, Small, ZenonT(60)
<1>8. ASSUME NEW i \in M PROVE Cardinality(Low(M, r, i)) \in 0..(Cardinality(M) - 1)
  <2>1. Low(M, r, i) \in SUBSET (M \ {i}) /\ M \ {i} \in SUBSET Ids
    <3>1. ~(r[i] < r[i])
      BY <1>1, <1>4, LineFacts
    <3> QED BY <1>1, <3>1, ZenonT(60) DEF Low
  <2>2. Cardinality(M \ {i}) = Cardinality(M) - 1
    BY <1>1, Small, Zenon
  <2>3. /\ Cardinality(Low(M, r, i)) <= Cardinality(M \ {i})
    BY <2>1, Small, Zenon
  <2>4. Cardinality(Low(M, r, i)) \in 0..Span
    BY <2>1, <1>1, Small, ZenonT(60)
  <2> QED BY <1>7, <2>2, <2>3, <2>4
<1>9. ASSUME NEW i \in M, NEW j \in M, r[i] < r[j]
      PROVE  Cardinality(Low(M, r, i)) < Cardinality(Low(M, r, j))
  <2> DEFINE L == Low(M, r, j)
  <2>1. L \in SUBSET Ids /\ i \in L /\ Low(M, r, i) \in SUBSET (L \ {i})
    <3>1. i \in Ids /\ j \in Ids
      BY <1>1, Zenon
    <3>2. \A y \in M : r[y] < r[i] => r[y] < r[j] /\ y # i
      BY <1>1, <1>4, <1>9, <3>1, LineFacts
    <3> QED BY <1>1, <1>9, <3>2, Zenon DEF Low
  <2>2. L \ {i} \in SUBSET Ids
    BY <2>1, Zenon
  <2> HIDE DEF L
  <2>3. Cardinality(L \ {i}) = Cardinality(L) - 1 /\ Cardinality(L) \in 0..Span
    BY <2>1, Small, Zenon
  <2>4. Cardinality(Low(M, r, i)) <= Cardinality(L \ {i})
    BY <2>1, <2>2, Small, Zenon
  <2>5. Cardinality(Low(M, r, i)) \in 0..(Cardinality(M) - 1)
    BY <1>8, Zenon
  <2> QED BY <1>7, <2>3, <2>4, <2>5 DEF L
<1>10. ASSUME NEW i \in M, NEW j \in M, Position(i) = Position(j) PROVE i = j
  <2>1. Cardinality(Low(M, r, i)) = Cardinality(Low(M, r, j))
    BY <1>6, <1>7, <1>8, <1>10
  <2>2. i # j => r[i] < r[j] \/ r[j] < r[i]
    BY <1>1, <1>4, LineFacts, ZenonT(60)
  <2>3. ~(r[i] < r[j]) /\ ~(r[j] < r[i])
    BY <1>7, <1>8, <1>9, <2>1
  <2> QED BY <2>2, <2>3, Zenon
<1>11. ASSUME NEW i \in M PROVE Position(i) \in 1..Cardinality(M)
  BY <1>6, <1>7, <1>8
<1> QED BY <1>1, <1>7, <1>10, <1>11, ZenonT(60) DEF M

\* The rows of one source on a page: no more than there is room for.
Cuts(s, k, n, off) ==
  /\ s.page \in SUBSET MembersOf(k) /\ Cardinality(s.page) \in 0..n
  /\ s.page = {i \in MembersOf(k) : off < Position(i) /\ Position(i) <= off + n}
  /\ s.full \in BOOLEAN /\ (s.full => off + n \in 0..Span)
  /\ ~s.full => s.page = {i \in MembersOf(k) : off < Position(i)}

LEMMA SegmentFacts ==
  ASSUME TableOK(table), \A i \in Ids : table[i] # None => table[i].val # Null,
         NEW k \in 1..3, NEW n \in Nat, NEW off \in Nat, NEW s, s = Segment(k, n, off)
  PROVE  Cuts(s, k, n, off)
<1> DEFINE M == MembersOf(k)
<1>1. /\ M \in SUBSET Ids /\ Cardinality(M) \in 0..Span
      /\ \A i \in M : Position(i) \in 1..Cardinality(M)
      /\ \A i, j \in M : Position(i) = Position(j) => i = j
  BY Positions, Zenon
<1>2. /\ s.page = {i \in M : off < Position(i) /\ Position(i) <= off + n}
      /\ s.full <=> Cardinality(M) > off + n
      /\ s.full \in BOOLEAN
  <2>1. s = [page |-> {i \in M : off < Position(i) /\ Position(i) <= off + n},
             full |-> Cardinality(M) > off + n]
    BY Zenon DEF Segment
  <2>2. (Cardinality(M) > off + n) \in BOOLEAN
    OBVIOUS
  <2>3. s.page = {i \in M : off < Position(i) /\ Position(i) <= off + n}
    BY <2>1
  <2>4. s.full = (Cardinality(M) > off + n)
    BY <2>1
  <2> QED BY <2>2, <2>3, <2>4, Zenon
<1> HIDE DEF M
<1>3. s.page \in SUBSET Ids
  BY <1>1, <1>2, Zenon
<1>4. Cardinality(s.page) \in 0..Span
  BY <1>3, Small, Zenon
<1>5. Cardinality(s.page) <= n
  <2> DEFINE f == [i \in s.page |-> Position(i)]
             T == (off + 1)..(off + n)
  <2>1. IsFiniteSet(T) /\ Cardinality(T) = n
    <3>1. off + 1 \in Int /\ off + n \in Int /\ off + 1 <= (off + n) + 1
      OBVIOUS
    <3>2. IsFiniteSet(T) /\ Cardinality(T) = (off + n) - (off + 1) + 1
      BY <3>1, IntervalCount, ZenonT(60)
    <3> QED BY <3>2
  <2>2. f \in [s.page -> T]
    BY <1>1, <1>2
  <2>3. \A x, y \in s.page : f[x] = f[y] => x = y
    BY <1>1, <1>2, Zenon
  <2>4. IsFiniteSet(s.page)
    BY <1>3, Small, Zenon
  <2> HIDE DEF f, T
  <2>5. ~(Cardinality(T) < Cardinality(s.page))
    <3> SUFFICES ASSUME Cardinality(T) < Cardinality(s.page) PROVE FALSE
      BY Zenon
    <3>1. \E x, y \in s.page : x # y /\ f[x] = f[y]
      BY <2>1, <2>2, <2>4, FS_PigeonHole
    <3> QED BY <2>3, <3>1, Zenon
  <2> QED BY <1>4, <2>1, <2>5
<1>6. ASSUME ~s.full PROVE s.page = {i \in M : off < Position(i)}
  BY <1>1, <1>2, <1>6
<1>7. s.full => off + n \in 0..Span
  BY <1>1, <1>2
<1>8. Cardinality(s.page) \in 0..n
  BY <1>4, <1>5
<1>9. s.page \in SUBSET M
  BY <1>2, ZenonT(60)
<1> QED BY <1>2, <1>6, <1>7, <1>8, <1>9, ZenonT(60) DEF M, Cuts

\* The place of a member, source by source.
At(i) == Spot(MemberKind[i], Position(i))

Members(only) == {i \in Ids : table[i] # None /\ only \in {0, MemberKind[i]}}

MemberCursors == [kind : 1..3, off : 0..Span]

\* An answer that goes on behind place m: it returns everything up to its own
\* cursor, or everything there is.
Serves(pg, only, m) ==
  /\ pg.next = None => pg.items = {i \in Members(only) : At(i) > m}
  /\ pg.next # None =>
       /\ pg.next \in MemberCursors /\ only \in {0, pg.next.kind}
       /\ Spot(pg.next.kind, pg.next.off) > m
       /\ pg.items = {i \in Members(only) : /\ At(i) > m
                                            /\ At(i) <= Spot(pg.next.kind, pg.next.off)}

Reached(got, only, m, k, off) ==
  got = {i \in Members(only) : At(i) > m /\ At(i) <= Spot(k, off)}

LEMMA AtTyped ==
  ASSUME TableOK(table), \A i \in Ids : table[i] # None => table[i].val # Null,
         NEW only \in 0..3, NEW i \in Members(only)
  PROVE  /\ i \in Ids /\ MemberKind[i] \in 1..3 /\ Position(i) \in 1..Span
         /\ i \in MembersOf(MemberKind[i]) /\ only \in {0, MemberKind[i]}
         /\ \A k \in 1..3 : i \in MembersOf(k) <=> MemberKind[i] = k
<1>1. i \in Ids /\ MemberKind[i] \in 1..3 /\ table[i] # None /\ only \in {0, MemberKind[i]}
  BY ListsAssumption, Zenon DEF Members
<1>2. \A k \in 1..3 : i \in MembersOf(k) <=> MemberKind[i] = k
  BY <1>1, Zenon DEF MembersOf
<1>3. /\ Cardinality(MembersOf(MemberKind[i])) \in 0..Span
      /\ Position(i) \in 1..Cardinality(MembersOf(MemberKind[i]))
  BY <1>1, <1>2, Positions, Zenon
<1> QED BY <1>1, <1>2, <1>3

\* A member's place, against the place of a cursor.
LEMMA AtOrder ==
  ASSUME TableOK(table), \A i \in Ids : table[i] # None => table[i].val # Null,
         NEW only \in 0..3, NEW i \in Members(only), NEW k \in 1..4, NEW off \in 0..Span
  PROVE  /\ At(i) \in Points /\ Spot(k, off) \in Points
         /\ At(i) <= Spot(k, off) <=> MemberKind[i] < k \/ (MemberKind[i] = k /\ Position(i) <= off)
<1>1. MemberKind[i] \in 1..3 /\ Position(i) \in 1..Span
  BY AtTyped, Zenon
<1>2. /\ MemberKind[i] \in Nat /\ MemberKind[i] > 0 /\ Position(i) \in 0..Span
      /\ k \in Nat /\ k > 0
  BY <1>1
<1> QED BY <1>2, SpotOrder, ZenonT(60) DEF At

\* A cursor further on in the same source.
LEMMA SpotFurther ==
  ASSUME NEW k \in 1..4, NEW off \in Nat, NEW n \in Nat
  PROVE  Spot(k, off) \in Nat /\ Spot(k, off + n) = Spot(k, off) + n
<1>1. (Span + 1) * k \in Nat
  OBVIOUS
<1> QED BY <1>1 DEF Spot

Turned(s, pg, only, m, k, off, n, limit) ==
  /\ s.full /\ pg.next = memberCursor(k, off + n) => Serves(pg, only, m)
  /\ ~s.full /\ (only # 0 \/ k = 3) /\ pg.next = None => Serves(pg, only, m)
  /\ ~s.full /\ only = 0 /\ k < 3 =>
       /\ Reached(pg.items, only, m, k + 1, 0) /\ m < Spot(k + 1, 0)
       /\ Cardinality(pg.items) \in 0..limit

\* One source of the members: its page ends inside it, or the reading is over,
\* or the next source goes on with the room that is left.
LEMMA OneSource ==
  ASSUME TableOK(table), \A i \in Ids : table[i] # None => table[i].val # Null,
         NEW only \in 0..3, NEW k \in 1..3, only \in {0, k}, NEW m \in Nat, NEW off \in 0..Span,
         NEW got, Reached(got, only, m, k, off), m <= Spot(k, off),
         NEW limit \in Nat \ {0}, NEW n \in Nat, Cardinality(got) + n = limit,
         m < Spot(k, off) \/ n > 0, NEW s, s = Segment(k, n, off), NEW pg, pg.items = got \cup s.page
  PROVE  Turned(s, pg, only, m, k, off, n, limit)
<1>0. k \in 1..4 /\ k + 1 \in 1..4 /\ off \in Nat /\ 0 \in 0..Span
  OBVIOUS
<1>1. ASSUME NEW i \in Members(only)
      PROVE  /\ i \in Ids /\ MemberKind[i] \in 1..3 /\ Position(i) \in 1..Span
             /\ i \in MembersOf(MemberKind[i]) /\ only \in {0, MemberKind[i]}
             /\ i \in MembersOf(k) <=> MemberKind[i] = k
  BY AtTyped, Zenon
<1>2. /\ s.page \in SUBSET MembersOf(k) /\ Cardinality(s.page) \in 0..n
      /\ s.page = {i \in MembersOf(k) : off < Position(i) /\ Position(i) <= off + n}
      /\ s.full => off + n \in 0..Span
      /\ ~s.full => s.page = {i \in MembersOf(k) : off < Position(i)}
  <2>1. off \in Nat
    OBVIOUS
  <2>2. Cuts(s, k, n, off)
    BY <2>1, SegmentFacts, Zenon
  <2> QED BY <2>2, Zenon DEF Cuts
<1>3. MembersOf(k) \in SUBSET Members(only)
  BY Zenon DEF MembersOf, Members
<1>4. ASSUME s.full, pg.next = memberCursor(k, off + n) PROVE Serves(pg, only, m)
  <2>1. off + n \in 0..Span
    BY <1>2, <1>4, Zenon
  <2>2. pg.next = [kind |-> k, off |-> off + n]
    BY <1>4, ZenonT(60) DEF memberCursor
  <2>3. pg.next \in MemberCursors /\ pg.next.kind = k /\ pg.next.off = off + n
    BY <2>1, <2>2 DEF MemberCursors
  <2>4. pg.next # None
    BY <2>3, ListsAssumption, ZenonT(60) DEF MemberCursors, Cursors
  <2>5. ASSUME NEW i \in Members(only)
        PROVE  i \in pg.items <=> At(i) > m /\ At(i) <= Spot(k, off + n)
    <3>1. i \in got <=> At(i) > m /\ At(i) <= Spot(k, off)
      BY Zenon DEF Reached
    <3>2. i \in s.page <=> MemberKind[i] = k /\ off < Position(i) /\ Position(i) <= off + n
      BY <1>1, <1>2, Zenon
    <3>3. /\ At(i) \in Points /\ Spot(k, off) \in Points
          /\ At(i) <= Spot(k, off) <=> MemberKind[i] < k \/ (MemberKind[i] = k /\ Position(i) <= off)
          /\ At(i) <= Spot(k, off + n)
               <=> MemberKind[i] < k \/ (MemberKind[i] = k /\ Position(i) <= off + n)
      BY <1>0, <2>1, AtOrder, ZenonT(60)
    <3> QED BY <1>1, <3>1, <3>2, <3>3 DEF Points
  <2>6. pg.items \in SUBSET Members(only)
    BY <1>2, <1>3, Zenon DEF Reached
  <2>7. pg.items = {i \in Members(only) : At(i) > m /\ At(i) <= Spot(k, off + n)}
    BY <2>5, <2>6, ZenonT(60)
  <2>8. Spot(k, off + n) > m
    <3>1. Spot(k, off) \in Nat /\ Spot(k, off + n) = Spot(k, off) + n
      BY <1>0, SpotFurther, ZenonT(60)
    <3> QED BY <3>1
  <2> QED BY <2>3, <2>4, <2>7, <2>8, ZenonT(60) DEF Serves
<1>5. ASSUME ~s.full, NEW i \in Members(only)
      PROVE  i \in pg.items <=> At(i) > m /\ MemberKind[i] <= k
  <2>1. i \in got <=> At(i) > m /\ At(i) <= Spot(k, off)
    BY Zenon DEF Reached
  <2>2. i \in s.page <=> MemberKind[i] = k /\ off < Position(i)
    BY <1>1, <1>2, <1>5, Zenon
  <2>3. /\ At(i) \in Points /\ Spot(k, off) \in Points
        /\ At(i) <= Spot(k, off) <=> MemberKind[i] < k \/ (MemberKind[i] = k /\ Position(i) <= off)
    BY <1>0, AtOrder, ZenonT(60)
  <2> QED BY <1>1, <2>1, <2>2, <2>3 DEF Points
<1>6. pg.items \in SUBSET Members(only)
  BY <1>2, <1>3, Zenon DEF Reached
<1>7. ASSUME ~s.full, only # 0 \/ k = 3, pg.next = None PROVE Serves(pg, only, m)
  <2>1. ASSUME NEW i \in Members(only) PROVE MemberKind[i] <= k
    BY <1>1, <1>7
  <2>2. pg.items = {i \in Members(only) : At(i) > m}
    BY <1>5, <1>6, <1>7, <2>1, ZenonT(60)
  <2> QED BY <1>7, <2>2, ZenonT(60) DEF Serves
<1>8. ASSUME ~s.full, only = 0, k < 3
      PROVE  /\ Reached(pg.items, only, m, k + 1, 0) /\ m < Spot(k + 1, 0)
             /\ Cardinality(pg.items) \in 0..limit
  <2>1. ASSUME NEW i \in Members(only) PROVE At(i) <= Spot(k + 1, 0) <=> MemberKind[i] <= k
    <3>1. At(i) <= Spot(k + 1, 0)
            <=> MemberKind[i] < k + 1 \/ (MemberKind[i] = k + 1 /\ Position(i) <= 0)
      BY <1>0, AtOrder, Zenon
    <3> QED BY <1>1, <3>1
  <2>2. Reached(pg.items, only, m, k + 1, 0)
    BY <1>5, <1>6, <1>8, <2>1, ZenonT(60) DEF Reached
  <2>3. got \in SUBSET Ids /\ s.page \in SUBSET Ids
    BY <1>2, <1>3, ZenonT(60) DEF Reached, Members
  <2>4. IsFiniteSet(got) /\ IsFiniteSet(s.page) /\ IsFiniteSet(got \cap s.page)
    BY <2>3, Small, Zenon
  <2>5. /\ Cardinality(got) \in 0..Span /\ Cardinality(got \cap s.page) \in 0..Span
        /\ Cardinality(got \cup s.page) \in 0..Span
    BY <2>3, Small, Zenon
  <2>6. Cardinality(got \cup s.page)
          = Cardinality(got) + Cardinality(s.page) - Cardinality(got \cap s.page)
    BY <2>4, FS_Union, ZenonT(60)
  <2>7. Cardinality(pg.items) \in 0..limit
    BY <1>2, <2>5, <2>6
  <2>8. m < Spot(k + 1, 0)
    <3>1. /\ Spot(k, off) \in Nat /\ Spot(k + 1, 0) \in Nat
          /\ Spot(k, off) < Spot(k + 1, 0)
      <4>1. k \in Nat /\ k + 1 \in Nat /\ k < k + 1
        OBVIOUS
      <4> QED BY <1>0, <4>1, SpotOrder, ZenonT(60)
    <3> QED BY <3>1
  <2> QED BY <2>2, <2>7, <2>8, ZenonT(60)
<1> QED BY <1>4, <1>7, <1>8, ZenonT(60) DEF Turned

LEMMA MembersServes ==
  ASSUME TableOK(table), \A i \in Ids : table[i] # None => table[i].val # Null,
         NEW only \in 0..3, NEW cur, cur = None \/ (cur \in MemberCursors /\ only \in {0, cur.kind}),
         NEW limit \in Nat \ {0}, NEW m, m = IF cur = None THEN 0 ELSE Spot(cur.kind, cur.off)
  PROVE  Serves(ListApplicationMembers(only, cur, limit), only, m)
<1> DEFINE start == IF only = 0 THEN 1 ELSE only
           c == IF cur = None THEN memberCursor(start, 0) ELSE cur
<1>a. c \in MemberCursors /\ only \in {0, c.kind}
  BY DEF memberCursor, MemberCursors
<1>b. c.kind \in Nat /\ c.kind \in 1..4 /\ c.kind > 0 /\ c.off \in 0..Span
  <2> HIDE DEF c
  <2> QED BY <1>a DEF MemberCursors
<1>1. c \in MemberCursors /\ only \in {0, c.kind} /\ m \in Nat /\ m <= Spot(c.kind, c.off)
  <2>1. Spot(c.kind, c.off) \in Nat
    <3> HIDE DEF c
    <3> QED BY <1>b, SpotTyped, ZenonT(60)
  <2>2. CASE cur = None
    <3>1. m = 0
      BY <2>2, ZenonT(60)
    <3> HIDE DEF c
    <3> QED BY <1>a, <2>1, <3>1
  <2>3. CASE cur # None
    <3>1. m = Spot(c.kind, c.off)
      BY <2>3, Zenon
    <3> HIDE DEF c
    <3> QED BY <1>a, <2>1, <3>1
  <2> QED BY <2>2, <2>3, Zenon
<1>2. Reached({}, only, m, c.kind, c.off)
  <2>1. ASSUME NEW i \in Members(only) PROVE ~(At(i) > m /\ At(i) <= Spot(c.kind, c.off))
    <3>1. MemberKind[i] \in 1..3 /\ Position(i) \in 1..Span /\ only \in {0, MemberKind[i]}
      BY AtTyped, Zenon
    <3>a. /\ At(i) \in Points /\ Spot(c.kind, c.off) \in Points
          /\ At(i) <= Spot(c.kind, c.off)
               <=> MemberKind[i] < c.kind \/ (MemberKind[i] = c.kind /\ Position(i) <= c.off)
      BY <1>b, AtOrder, ZenonT(60)
    <3>2. CASE cur # None
      <4>1. m = Spot(c.kind, c.off)
        BY <3>2, ZenonT(60)
      <4> HIDE DEF c
      <4>2. At(i) \in Nat /\ m \in Nat
        BY <3>a, <4>1, Zenon DEF Points
      <4>3. ~(At(i) > m /\ At(i) <= m)
        BY <4>2
      <4> QED BY <4>1, <4>3, Zenon
    <3>3. CASE cur = None
      <4>1. c.kind = start /\ c.off = 0
        BY <3>3, Zenon DEF memberCursor
      <4> HIDE DEF c
      <4> QED BY <3>1, <3>a, <4>1
    <3> QED BY <3>2, <3>3, Zenon
  <2> QED BY <2>1, Zenon DEF Reached
<1>3. Cardinality({}) = 0
  BY EmptyCount, Zenon
<1>4. c.kind \in 1..3 /\ c.off \in 0..Span
  BY <1>1, Zenon DEF MemberCursors
<1>5. ListApplicationMembers(only, cur, limit) =
        CASE c.kind = 1 -> listWorkloadMembers(only, limit, c.off)
          [] c.kind = 2 -> listVMMembers({}, only, limit, c.off)
          [] c.kind = 3 -> listVMAppMembers({}, limit, c.off)
  BY Zenon DEF ListApplicationMembers
<1>c. 1 + 1 = 2 /\ 2 + 1 = 3 /\ 1 < 3 /\ 2 < 3 /\ 0 \in 0..Span
  OBVIOUS
<1>d. Spot(2, 0) \in Nat /\ Spot(3, 0) \in Nat
  <2>1. 2 \in Nat /\ 3 \in Nat
    BY Zenon
  <2> QED BY <1>c, <2>1, SpotTyped, ZenonT(60)
<1> HIDE DEF c, start
<1>6. ASSUME NEW got, NEW off \in 0..Span, only \in {0, 3}, Reached(got, only, m, 3, off),
             m <= Spot(3, off), Cardinality(got) \in 0..limit,
             m < Spot(3, off) \/ limit - Cardinality(got) > 0
      PROVE  Serves(listVMAppMembers(got, limit, off), only, m)
  <2> DEFINE n == limit - Cardinality(got)
             s == Segment(3, n, off)
             pg == listVMAppMembers(got, limit, off)
  <2>1. n \in Nat /\ Cardinality(got) + n = limit /\ off + limit - Cardinality(got) = off + n
    BY <1>6
  <2>2. /\ pg.items = got \cup s.page
        /\ pg.next = IF s.full THEN memberCursor(3, off + n) ELSE None
    BY <2>1, ZenonT(60) DEF listVMAppMembers
  <2>3. m < Spot(3, off) \/ n > 0
    BY <1>6, Zenon
  <2> HIDE DEF n, s, pg
  <2>4. /\ s.full /\ pg.next = memberCursor(3, off + n) => Serves(pg, only, m)
        /\ ~s.full /\ (only # 0 \/ 3 = 3) /\ pg.next = None => Serves(pg, only, m)
    <3>1. 3 \in 1..3 /\ m <= Spot(3, off)
      BY <1>6
    <3>2. s = Segment(3, n, off)
      BY Zenon DEF s
    <3>3. Turned(s, pg, only, m, 3, off, n, limit)
      BY <1>1, <1>6, <2>1, <2>2, <2>3, <3>1, <3>2, OneSource, ZenonT(60)
    <3> QED BY <3>3, ZenonT(60) DEF Turned
  <2> QED BY <2>2, <2>4, ZenonT(60) DEF pg
<1>7. ASSUME NEW got, NEW off \in 0..Span, only \in {0, 2}, Reached(got, only, m, 2, off),
             m <= Spot(2, off), Cardinality(got) \in 0..limit,
             m < Spot(2, off) \/ limit - Cardinality(got) > 0
      PROVE  Serves(listVMMembers(got, only, limit, off), only, m)
  <2> DEFINE n == limit - Cardinality(got)
             s == Segment(2, n, off)
             pg == [items |-> got \cup s.page,
                    next |-> IF s.full THEN memberCursor(2, off + n) ELSE None]
  <2>1. n \in Nat /\ Cardinality(got) + n = limit /\ off + limit - Cardinality(got) = off + n
    BY <1>7
  <2>2. listVMMembers(got, only, limit, off) =
          IF s.full \/ only # 0 THEN pg ELSE listVMAppMembers(pg.items, limit, 0)
    BY <2>1, ZenonT(60) DEF listVMMembers
  <2>3. m < Spot(2, off) \/ n > 0
    BY <1>7, Zenon
  <2>4. /\ pg.items = got \cup s.page
        /\ pg.next = IF s.full THEN memberCursor(2, off + n) ELSE None
    BY Zenon
  <2> HIDE DEF n, s, pg
  <2>5. /\ s.full /\ pg.next = memberCursor(2, off + n) => Serves(pg, only, m)
        /\ ~s.full /\ (only # 0 \/ 2 = 3) /\ pg.next = None => Serves(pg, only, m)
        /\ ~s.full /\ only = 0 /\ 2 < 3 =>
              /\ Reached(pg.items, only, m, 2 + 1, 0) /\ m < Spot(2 + 1, 0)
              /\ Cardinality(pg.items) \in 0..limit
    <3>1. 2 \in 1..3 /\ m <= Spot(2, off)
      BY <1>7
    <3>2. s = Segment(2, n, off)
      BY Zenon DEF s
    <3>3. Turned(s, pg, only, m, 2, off, n, limit)
      BY <1>1, <1>7, <2>1, <2>3, <2>4, <3>1, <3>2, OneSource, ZenonT(60)
    <3> QED BY <3>3, ZenonT(60) DEF Turned
  <2>6. CASE s.full \/ only # 0
    BY <2>2, <2>4, <2>5, <2>6, ZenonT(60)
  <2>7. CASE ~(s.full \/ only # 0)
    <3>1. /\ Reached(pg.items, only, m, 3, 0) /\ m < Spot(3, 0)
          /\ Cardinality(pg.items) \in 0..limit
      BY <1>c, <2>5, <2>7, Zenon
    <3>2. Serves(listVMAppMembers(pg.items, limit, 0), only, m)
      <4>1. m <= Spot(3, 0)
        BY <1>1, <1>d, <3>1
      <4> QED BY <1>c, <1>6, <2>7, <3>1, <4>1, ZenonT(60)
    <3> QED BY <2>2, <2>7, <3>2, Zenon
  <2> QED BY <2>6, <2>7, ZenonT(60)
<1>8. ASSUME NEW off \in 0..Span, only \in {0, 1}, Reached({}, only, m, 1, off), m <= Spot(1, off)
      PROVE  Serves(listWorkloadMembers(only, limit, off), only, m)
  <2> DEFINE s == Segment(1, limit, off)
             pg == [items |-> {} \cup s.page,
                    next |-> IF s.full THEN memberCursor(1, off + limit) ELSE None]
  <2>2. listWorkloadMembers(only, limit, off) =
          IF s.full \/ only # 0 THEN pg ELSE listVMMembers(pg.items, only, limit, 0)
    BY Zenon DEF listWorkloadMembers
  <2>4. /\ pg.items = {} \cup s.page
        /\ pg.next = IF s.full THEN memberCursor(1, off + limit) ELSE None
    BY Zenon
  <2> HIDE DEF s, pg
  <2>5. /\ s.full /\ pg.next = memberCursor(1, off + limit) => Serves(pg, only, m)
        /\ ~s.full /\ (only # 0 \/ 1 = 3) /\ pg.next = None => Serves(pg, only, m)
        /\ ~s.full /\ only = 0 /\ 1 < 3 =>
              /\ Reached(pg.items, only, m, 1 + 1, 0) /\ m < Spot(1 + 1, 0)
              /\ Cardinality(pg.items) \in 0..limit
    <3>1. /\ 1 \in 1..3 /\ m <= Spot(1, off) /\ limit \in Nat /\ limit > 0
          /\ Cardinality({}) + limit = limit
      BY <1>3, <1>8
    <3>2. s = Segment(1, limit, off)
      BY Zenon DEF s
    <3>3. Turned(s, pg, only, m, 1, off, limit, limit)
      BY <1>1, <1>8, <2>4, <3>1, <3>2, OneSource, ZenonT(60)
    <3> QED BY <3>3, Zenon DEF Turned
  <2>6. CASE s.full \/ only # 0
    BY <2>2, <2>4, <2>5, <2>6, ZenonT(60)
  <2>7. CASE ~(s.full \/ only # 0)
    <3>1. /\ Reached(pg.items, only, m, 2, 0) /\ m < Spot(2, 0)
          /\ Cardinality(pg.items) \in 0..limit
      BY <1>c, <2>5, <2>7, Zenon
    <3>2. Serves(listVMMembers(pg.items, only, limit, 0), only, m)
      <4>1. m <= Spot(2, 0)
        BY <1>1, <1>d, <3>1
      <4> QED BY <1>c, <1>7, <2>7, <3>1, <4>1, ZenonT(60)
    <3> QED BY <2>2, <2>7, <3>2, Zenon
  <2> QED BY <2>6, <2>7, Zenon
<1>e. Cardinality({}) \in 0..limit /\ limit - Cardinality({}) > 0
  BY <1>3
<1>9. CASE c.kind = 1
  <2>1. /\ only \in {0, 1} /\ Reached({}, only, m, 1, c.off)
        /\ m <= Spot(1, c.off) /\ c.off \in 0..Span
    BY <1>1, <1>2, <1>4, <1>9, ZenonT(60)
  <2>2. Serves(listWorkloadMembers(only, limit, c.off), only, m)
    BY <1>8, <2>1, ZenonT(60)
  <2>3. ListApplicationMembers(only, cur, limit) = listWorkloadMembers(only, limit, c.off)
    BY <1>5, <1>9
  <2> QED BY <2>2, <2>3, ZenonT(60)
<1>10. CASE c.kind = 2
  <2>1. /\ only \in {0, 2} /\ Reached({}, only, m, 2, c.off)
        /\ m <= Spot(2, c.off) /\ c.off \in 0..Span
    BY <1>1, <1>2, <1>4, <1>10, ZenonT(60)
  <2>2. Serves(listVMMembers({}, only, limit, c.off), only, m)
    BY <1>7, <1>e, <2>1, ZenonT(60)
  <2>3. ListApplicationMembers(only, cur, limit) = listVMMembers({}, only, limit, c.off)
    BY <1>5, <1>10
  <2> QED BY <2>2, <2>3, ZenonT(60)
<1>11. CASE c.kind = 3
  <2>1. /\ only \in {0, 3} /\ Reached({}, only, m, 3, c.off)
        /\ m <= Spot(3, c.off) /\ c.off \in 0..Span
    BY <1>1, <1>2, <1>4, <1>11, ZenonT(60)
  <2>2. Serves(listVMAppMembers({}, limit, c.off), only, m)
    BY <1>6, <1>e, <2>1, ZenonT(60)
  <2>3. ListApplicationMembers(only, cur, limit) = listVMAppMembers({}, limit, c.off)
    BY <1>5, <1>11
  <2> QED BY <2>2, <2>3, Zenon
<1>12. c.kind = 1 \/ c.kind = 2 \/ c.kind = 3
  BY <1>4
<1> QED BY <1>9, <1>10, <1>11, <1>12, Zenon

-----------------------------------------------------------------------------
(* The members on the line. *)

AlongTheSources ==
  /\ Placed \in [Ids -> Points \cup {None}] /\ MarkOf \in Nat
  /\ MarkOf = IF cursor = None THEN 0 ELSE Spot(cursor.kind, cursor.off)
  /\ \A i \in Ids : Placed[i] # None <=> i \in Members(plan.kind)
  /\ \A i \in Ids : Placed[i] # None => Placed[i] = At(i)

LEMMA PlacedMembers == TableOK(table) /\ Numbering => AlongTheSources
<1> SUFFICES ASSUME TableOK(table), Numbering PROVE AlongTheSources
  BY Zenon
<1>0. plan.by = "members" /\ plan.kind \in 0..3
  BY Zenon DEF Numbering
<1>1. \A i \in Ids : Placed[i] = IF i \in Members(plan.kind) THEN At(i) ELSE None
  BY <1>0, Zenon DEF Placed, Place, Members, At
<1>2. ASSUME NEW i \in Members(plan.kind) PROVE At(i) \in Points
  <2>1. MemberKind[i] \in 1..3 /\ Position(i) \in 1..Span
    BY <1>0, AtTyped, ZenonT(60) DEF Numbering
  <2>2. MemberKind[i] \in Nat /\ MemberKind[i] > 0 /\ Position(i) \in 0..Span
    BY <2>1
  <2> QED BY <2>2, SpotOrder, Zenon DEF At
<1>3. None \notin Points
  BY Constants, Zenon DEF Points
<1>4. Placed = [i \in Ids |-> Placed[i]]
  BY Zenon DEF Placed
<1>5. MarkOf = IF cursor = None THEN 0 ELSE Spot(cursor.kind, cursor.off)
  BY <1>0, ZenonT(60) DEF MarkOf
<1>6. MarkOf \in Nat
  <2>1. CASE cursor = None
    BY <1>5, <2>1, Zenon
  <2>2. CASE cursor # None
    <3>1. cursor.kind \in 1..3 /\ cursor.off \in 0..Span
      BY <2>2, Zenon DEF Numbering
    <3>2. cursor.kind \in Nat
      BY <3>1
    <3> QED BY <1>5, <2>2, <3>1, <3>2, SpotOrder, ZenonT(60)
  <2> QED BY <2>1, <2>2, Zenon
<1>7. Placed \in [Ids -> Points \cup {None}]
  BY <1>1, <1>2, <1>4, ZenonT(60)
<1>8. ASSUME NEW i \in Ids
      PROVE  /\ Placed[i] # None <=> i \in Members(plan.kind)
             /\ Placed[i] # None => Placed[i] = At(i)
  BY <1>1, <1>2, <1>3, ZenonT(60)
<1> QED BY <1>5, <1>6, <1>7, <1>8, ZenonT(60) DEF AlongTheSources

LEMMA PlacedMembersNext == ASSUME TableOK(table)', Numbering' PROVE AlongTheSources'
<1>1. (TableOK(table) /\ Numbering => AlongTheSources)'
  BY PlacedMembers, PTL
<1> QED BY <1>1, Zenon

LEMMA PlacedFrame == ASSUME table' = table, plan' = plan PROVE Placed' = Placed
<1>1. ASSUME NEW i \in Ids PROVE Position(i)' = Position(i)
  BY Zenon DEF Position, MembersOf
<1>2. ASSUME NEW i \in Ids PROVE ExprOf(plan, i)' = ExprOf(plan, i)
  BY Zenon DEF ExprOf
<1>3. ASSUME NEW i \in Ids PROVE Place(i)' = Place(i)
  BY <1>1, <1>2, Zenon DEF Place
<1> QED BY <1>3, Zenon DEF Placed

LEMMA MarkFrame == ASSUME cursor' = cursor, plan' = plan PROVE MarkOf' = MarkOf
  BY Zenon DEF MarkOf

-----------------------------------------------------------------------------
(* Steps of the line. *)

LEMMA LineBegin ==
  ASSUME status # "open", status' = "open", Placed' \in [Ids -> Points \cup {None}], MarkOf' = 0,
         seen' = {}, again' = {}, kept' = {i \in Ids : Placed'[i] # None}
  PROVE  Line!Next
<1>1. Standing # "open" /\ Standing' = "open"
  BY Zenon DEF Standing
<1>2. Placed' \in [Ids -> Line!Places]
  BY Zenon DEF Points, Line!Places, Line!Points
<1> QED BY <1>1, <1>2, ZenonT(60) DEF Line!Next, Line!Begin

LEMMA LineFetch ==
  ASSUME status = "open", status' = "open", Placed' = Placed, kept' = kept,
         MarkOf' \in Nat, MarkOf \in Nat, MarkOf' > MarkOf, NEW S,
         seen' = seen \cup S, again' = again \cup (S \cap seen \cap kept),
         S = {i \in Ids : Placed[i] # None /\ Placed[i] > MarkOf /\ Placed[i] <= MarkOf'}
  PROVE  Line!Next
<1>1. Standing = "open" /\ Standing' = "open"
  BY Zenon DEF Standing
<1>2. S = Line!UpTo(MarkOf')
  BY ZenonT(60) DEF Line!UpTo, Line!Ahead
<1>3. MarkOf' \in Line!Points
  BY DEF Line!Points
<1> QED BY <1>1, <1>2, <1>3, ZenonT(60) DEF Line!Next, Line!Fetch, Line!Return

LEMMA LineFinish ==
  ASSUME status = "open", status' = "done", ~cut', Placed' = Placed, kept' = kept,
         MarkOf' = MarkOf, NEW S,
         seen' = seen \cup S, again' = again \cup (S \cap seen \cap kept),
         S = {i \in Ids : Placed[i] # None /\ Placed[i] > MarkOf}
  PROVE  Line!Next
<1>1. Standing = "open" /\ Standing' = "done"
  BY Zenon DEF Standing
<1>2. S = Line!AllAhead
  BY Zenon DEF Line!AllAhead, Line!Ahead
<1> QED BY <1>1, <1>2, ZenonT(60) DEF Line!Next, Line!Finish, Line!Return

LEMMA LineStop ==
  ASSUME status = "open", status' = "done", cut', Placed' = Placed, kept' = kept,
         MarkOf' = MarkOf, NEW S,
         seen' = seen \cup S, again' = again \cup (S \cap seen \cap kept),
         S = {} \/ \E x \in Ids : /\ Placed[x] # None /\ Placed[x] > MarkOf
                                  /\ S = {i \in Ids : /\ Placed[i] # None /\ Placed[i] > MarkOf
                                                      /\ Placed[i] <= Placed[x]}
  PROVE  Line!Next
<1>1. Standing = "open" /\ Standing' = "off"
  BY Zenon DEF Standing
<1>2. CASE S = {}
  <2>1. seen' = seen /\ again' = again
    BY <1>2, Zenon
  <2> QED BY <1>1, <2>1, Zenon DEF Line!Next, Line!TurnAway
<1>3. ASSUME NEW x \in Ids, Placed[x] # None, Placed[x] > MarkOf,
             S = {i \in Ids : Placed[i] # None /\ Placed[i] > MarkOf /\ Placed[i] <= Placed[x]}
      PROVE  Line!Next
  <2>1. S = Line!UpTo(Placed[x]) /\ Line!Ahead(x)
    BY <1>3, Zenon DEF Line!UpTo, Line!Ahead
  <2>2. Line!Return(Line!UpTo(Placed[x]))
    BY <2>1, Zenon DEF Line!Return
  <2>3. Line!TurnAway
    BY <1>1, <2>1, <2>2, ZenonT(60) DEF Line!TurnAway
  <2> QED BY <2>3, Zenon DEF Line!Next
<1> QED BY <1>2, <1>3, ZenonT(60)

LEMMA LineTurn ==
  ASSUME status' \in {"rejected", "refused"}, Placed' = Placed, kept' = kept, MarkOf' = MarkOf,
         seen' = seen, again' = again
  PROVE  Line!Next
<1>1. Standing' = "off"
  BY Zenon DEF Standing
<1> QED BY <1>1, Zenon DEF Line!Next, Line!TurnAway

LEMMA LineChange ==
  ASSUME status = "open", status' = "open", MarkOf' = MarkOf, seen' = seen, again' = again,
         Placed' \in [Ids -> Points \cup {None}], NEW i \in Ids, kept' = kept \ {i},
         \A j \in Ids \ {i} : Placed'[j] = Placed[j]
  PROVE  Line!Next
<1>1. Standing = "open" /\ Standing' = "open"
  BY Zenon DEF Standing
<1>2. Placed' \in [Ids -> Line!Places]
  BY Zenon DEF Points, Line!Places, Line!Points
<1> QED BY <1>1, <1>2, Zenon DEF Line!Next, Line!Change

-----------------------------------------------------------------------------
(* The steps of the walk, on the line. *)

LEMMA UpTo == \A a, b \in Int : a <= b <=> a = b \/ a < b
  OBVIOUS

\* A page of a sorted list: a beginning of what matches, up to the row the new
\* cursor is minted from, or all of it, or what a reader at its cap still takes.
LEMMA ListPage ==
  ASSUME TableOK(table), seen \in SUBSET Ids, Browsing, status = "open",
         NEW items, NEW next, Answer(items, next), plan' = plan,
         NEW A, A = Matching(plan, cursor), NEW r, r = LineOf(plan), r \in Lines,
         items \in SUBSET A, \A i \in items, j \in A : r[j] < r[i] => j \in items,
         next # None => /\ Minted(next, plan)
                        /\ \E x \in items : /\ \A y \in items \ {x} : r[y] < r[x]
                                            /\ Rank(plan, next.id, next.val) = r[x],
         next = None => items = A \/ cut'
  PROVE  /\ Line!Next /\ TableOK(table)' /\ seen' \in SUBSET Ids
         /\ status' \in {"open", "done"} /\ Browsing'
<1>1. AlongTheOrder
  BY PlacedSorted, Zenon
<1>2. /\ table' = table /\ kept' = kept /\ seen' = seen \cup items
      /\ again' = again \cup (items \cap seen \cap kept)
      /\ cursor' = IF next = None THEN cursor ELSE next
      /\ status' = IF next = None THEN "done" ELSE "open"
  BY Zenon DEF Answer
<1>3. Browsing' /\ TableOK(table)'
  <2>1. cursor' = None \/ Minted(cursor', plan)
    BY <1>2, Zenon DEF Browsing
  <2> QED BY <1>2, <2>1, Zenon DEF Browsing
<1>4. Placed' = Placed
  BY <1>2, PlacedFrame, ZenonT(60)
<1>5. AlongTheOrder'
  BY <1>3, PlacedSortedNext, Zenon
<1>6. A = {i \in Ids : Placed[i] # None /\ Placed[i] > MarkOf}
  BY <1>1, Zenon DEF AlongTheOrder, Matching
<1>7. A \in SUBSET Ids /\ \A i \in A : Placed[i] = r[i] /\ r[i] \in Int
  BY <1>1, <1>6, LineFacts, ZenonT(60) DEF AlongTheOrder
<1>8. MarkOf \in Nat /\ MarkOf' \in Nat
  BY <1>1, <1>5, ZenonT(60) DEF AlongTheOrder
<1>9. CASE next # None
  <2>1. PICK x \in items : /\ \A y \in items \ {x} : r[y] < r[x]
                           /\ Rank(plan, next.id, next.val) = r[x]
    BY <1>9, Zenon
  <2>2. MarkOf' = r[x]
    BY <1>2, <1>5, <1>9, <2>1, ZenonT(60) DEF AlongTheOrder
  <2>3. ASSUME NEW i \in A PROVE i \in items <=> Placed[i] <= MarkOf'
    <3>1. r[i] \in Int /\ r[x] \in Int /\ Placed[i] = r[i]
      BY <1>7, <2>1, ZenonT(60)
    <3>2. r[i] = r[x] => i = x
      BY <1>7, <2>1, Zenon DEF Lines
    <3>3. i \in items => i = x \/ r[i] < r[x]
      BY <2>1, Zenon
    <3>4. r[i] < r[x] => i \in items
      BY <2>1, Zenon
    <3>5. r[i] = r[x] \/ r[i] < r[x] => r[i] <= r[x]
      BY <3>1
    <3>6. r[i] <= r[x] => r[i] = r[x] \/ r[i] < r[x]
      BY <3>1
    <3> QED BY <2>1, <2>2, <3>1, <3>2, <3>3, <3>4, <3>5, <3>6, Zenon
  <2>4. items = {i \in Ids : Placed[i] # None /\ Placed[i] > MarkOf /\ Placed[i] <= MarkOf'}
    BY <1>6, <2>3, ZenonT(60)
  <2>5. MarkOf' > MarkOf
    BY <1>6, <1>7, <2>1, <2>2, ZenonT(60)
  <2>6. Line!Next
    BY <1>2, <1>4, <1>8, <1>9, <2>4, <2>5, LineFetch, ZenonT(60)
  <2> QED BY <1>2, <1>3, <1>7, <2>6, ZenonT(60)
<1>10. CASE next = None
  <2>1. MarkOf' = MarkOf
    BY <1>2, <1>10, MarkFrame, ZenonT(60)
  <2>2. CASE ~cut'
    <3>1. items = A
      BY <1>10, <2>2, ZenonT(60)
    <3>2. Line!Next
      BY <1>2, <1>4, <1>6, <1>10, <2>1, <2>2, <3>1, LineFinish, ZenonT(60)
    <3> QED BY <1>2, <1>3, <1>7, <1>10, <3>2, ZenonT(60)
  <2>3. CASE cut'
    <3>1. items = {} \/ \E x \in Ids :
            /\ Placed[x] # None /\ Placed[x] > MarkOf
            /\ items = {i \in Ids : /\ Placed[i] # None /\ Placed[i] > MarkOf
                                    /\ Placed[i] <= Placed[x]}
      <4> SUFFICES ASSUME items # {}
                   PROVE  \E x \in Ids :
                            /\ Placed[x] # None /\ Placed[x] > MarkOf
                            /\ items = {i \in Ids : /\ Placed[i] # None /\ Placed[i] > MarkOf
                                                    /\ Placed[i] <= Placed[x]}
        BY Zenon
      <4>1. items \in SUBSET Ids
        BY <1>7, ZenonT(60)
      <4>2. PICK x \in items : \A y \in items \ {x} : r[y] < r[x]
        BY <4>1, GreatestMember, ZenonT(60)
      <4>3. ASSUME NEW i \in A PROVE i \in items <=> Placed[i] <= Placed[x]
        <5>1. r[i] \in Int /\ r[x] \in Int /\ Placed[i] = r[i] /\ Placed[x] = r[x]
          BY <1>7, <4>2, ZenonT(60)
        <5>2. r[i] = r[x] => i = x
          BY <1>7, <4>2, ZenonT(60) DEF Lines
        <5>3. i \in items => i = x \/ r[i] < r[x]
          BY <4>2, Zenon
        <5>4. r[i] < r[x] => i \in items
          BY <4>2, Zenon
        <5>5. r[i] <= r[x] <=> r[i] = r[x] \/ r[i] < r[x]
          BY <5>1, UpTo, ZenonT(60)
        <5> QED BY <4>2, <5>1, <5>2, <5>3, <5>4, <5>5, ZenonT(60)
      <4>4. items = {i \in Ids : Placed[i] # None /\ Placed[i] > MarkOf /\ Placed[i] <= Placed[x]}
        BY <1>6, <4>3, ZenonT(60)
      <4> QED BY <1>6, <1>7, <4>2, <4>4, ZenonT(60)
    <3>2. Line!Next
      BY <1>2, <1>4, <1>10, <2>1, <2>3, <3>1, LineStop, ZenonT(60)
    <3> QED BY <1>2, <1>3, <1>7, <1>10, <3>2, Zenon
  <2> QED BY <2>2, <2>3, ZenonT(60)
<1> QED BY <1>9, <1>10, ZenonT(60)

\* A page of an application's members.
LEMMA MembersLine ==
  ASSUME TableOK(table), seen \in SUBSET Ids, Numbering, status = "open", ~cut', plan' = plan,
         NEW limit \in Nat \ {0}, NEW pg, pg = ListApplicationMembers(plan.kind, cursor, limit),
         Answer(pg.items, pg.next)
  PROVE  /\ Line!Next /\ TableOK(table)' /\ seen' \in SUBSET Ids
         /\ status' \in {"open", "done"} /\ Numbering'
<1>1. AlongTheSources
  BY PlacedMembers, Zenon
<1>2. /\ table' = table /\ kept' = kept /\ seen' = seen \cup pg.items
      /\ again' = again \cup (pg.items \cap seen \cap kept)
      /\ cursor' = IF pg.next = None THEN cursor ELSE pg.next
      /\ status' = IF pg.next = None THEN "done" ELSE "open"
  BY Zenon DEF Answer
<1>3. Serves(pg, plan.kind, MarkOf)
  <2>1. /\ plan.kind \in 0..3 /\ (\A i \in Ids : table[i] # None => table[i].val # Null)
        /\ cursor = None \/ (cursor \in MemberCursors /\ plan.kind \in {0, cursor.kind})
    BY Zenon DEF Numbering, MemberCursors
  <2>2. MarkOf = IF cursor = None THEN 0 ELSE Spot(cursor.kind, cursor.off)
    BY <1>1, ZenonT(60) DEF AlongTheSources
  <2> QED BY <2>1, <2>2, MembersServes, ZenonT(60)
<1>4. Numbering' /\ TableOK(table)'
  <2>1. cursor' = None \/ (cursor' \in [kind : 1..3, off : 0..Span] /\ plan.kind \in {0, cursor'.kind})
    BY <1>2, <1>3, ZenonT(60) DEF Numbering, Serves, MemberCursors
  <2> QED BY <1>2, <2>1, ZenonT(60) DEF Numbering
<1>5. Placed' = Placed
  BY <1>2, PlacedFrame, ZenonT(60)
<1>6. AlongTheSources'
  BY <1>4, PlacedMembersNext, ZenonT(60)
<1>7. MarkOf \in Nat /\ MarkOf' \in Nat
  BY <1>1, <1>6, ZenonT(60) DEF AlongTheSources
<1>8. /\ \A i \in Ids : Placed[i] # None <=> i \in Members(plan.kind)
      /\ \A i \in Ids : Placed[i] # None => Placed[i] = At(i)
      /\ Members(plan.kind) \in SUBSET Ids
  BY <1>1, Zenon DEF AlongTheSources, Members
<1>9. CASE pg.next # None
  <2>1. MarkOf' = Spot(pg.next.kind, pg.next.off)
    BY <1>2, <1>6, <1>9, ZenonT(60) DEF AlongTheSources
  <2>2. /\ MarkOf' > MarkOf
        /\ pg.items = {i \in Members(plan.kind) : At(i) > MarkOf /\ At(i) <= MarkOf'}
    BY <1>3, <1>9, <2>1, ZenonT(60) DEF Serves
  <2>3. pg.items = {i \in Ids : Placed[i] # None /\ Placed[i] > MarkOf /\ Placed[i] <= MarkOf'}
    BY <1>8, <2>2, Zenon
  <2>4. Line!Next
    BY <1>2, <1>5, <1>7, <1>9, <2>2, <2>3, LineFetch, ZenonT(60)
  <2> QED BY <1>2, <1>4, <1>8, <2>2, <2>4, ZenonT(60)
<1>10. CASE pg.next = None
  <2>1. MarkOf' = MarkOf
    BY <1>2, <1>10, MarkFrame, ZenonT(60)
  <2>2. pg.items = {i \in Members(plan.kind) : At(i) > MarkOf}
    BY <1>3, <1>10, ZenonT(60) DEF Serves
  <2>3. pg.items = {i \in Ids : Placed[i] # None /\ Placed[i] > MarkOf}
    BY <1>8, <2>2, ZenonT(60)
  <2>4. Line!Next
    BY <1>2, <1>5, <1>10, <2>1, <2>3, LineFinish, ZenonT(60)
  <2> QED BY <1>2, <1>4, <1>8, <1>10, <2>2, <2>4, ZenonT(60)
<1> QED BY <1>9, <1>10, ZenonT(60)

\* A sorted list is opened.
LEMMA StartSorted ==
  ASSUME status # "open", NEW p, NEW t, TableOK(t), Starts(p, t), Fits(p, t),
         p.by \in {"client"} \cup Caps, p.max \in Nat \ {0},
         {"key", "col", "dir"} \subseteq DOMAIN p, Sorted(p)
  PROVE  Line!Next /\ TableOK(table)' /\ seen' \in SUBSET Ids /\ status' = "open" /\ Browsing'
<1>1. /\ plan' = p /\ table' = t /\ cursor' = None /\ status' = "open" /\ seen' = {} /\ again' = {}
      /\ kept' = {i \in Ids : IF p.by = "members"
                              THEN t[i] # None /\ p.kind \in {0, MemberKind[i]}
                              ELSE Visible(p, t[i])}
  BY Zenon DEF Starts
<1>2. Browsing' /\ TableOK(table)'
  BY <1>1, Zenon DEF Browsing
<1>3. AlongTheOrder'
  BY <1>2, PlacedSortedNext, ZenonT(60)
<1>4. /\ Placed' \in [Ids -> Points \cup {None}] /\ MarkOf' = 0
      /\ \A i \in Ids : Placed'[i] # None <=> Visible(p, t[i])
  BY <1>1, <1>3, ZenonT(60) DEF AlongTheOrder, Points
<1>5. p.by # "members"
  BY Zenon DEF Caps
<1>6. kept' = {i \in Ids : Placed'[i] # None}
  BY <1>1, <1>4, <1>5, ZenonT(60)
<1>7. Line!Next
  BY <1>1, <1>4, <1>6, LineBegin, ZenonT(60)
<1> QED BY <1>1, <1>2, <1>7, ZenonT(60)

\* A list of members is opened.
LEMMA StartMembers ==
  ASSUME status # "open", NEW p, NEW t, TableOK(t), Starts(p, t),
         p.by = "members", p.max \in Nat \ {0}, p.kind \in 0..3,
         \A i \in Ids : t[i] # None => t[i].val # Null
  PROVE  Line!Next /\ TableOK(table)' /\ seen' \in SUBSET Ids /\ status' = "open" /\ Numbering'
<1>1. /\ plan' = p /\ table' = t /\ cursor' = None /\ status' = "open" /\ seen' = {} /\ again' = {}
      /\ kept' = {i \in Ids : t[i] # None /\ p.kind \in {0, MemberKind[i]}}
  BY Zenon DEF Starts
<1>2. Numbering' /\ TableOK(table)'
  BY <1>1, Zenon DEF Numbering
<1>3. AlongTheSources'
  BY <1>2, PlacedMembersNext, ZenonT(60)
<1>4. /\ Placed' \in [Ids -> Points \cup {None}] /\ MarkOf' = 0
      /\ \A i \in Ids : Placed'[i] # None <=> t[i] # None /\ p.kind \in {0, MemberKind[i]}
  BY <1>1, <1>3, ZenonT(60) DEF AlongTheSources, Points, Members
<1>5. kept' = {i \in Ids : Placed'[i] # None}
  BY <1>1, <1>4, ZenonT(60)
<1>6. Line!Next
  BY <1>1, <1>4, <1>5, LineBegin, ZenonT(60)
<1> QED BY <1>1, <1>2, <1>6, ZenonT(60)

LEMMA PlainColGood == GoodCol(PlainCol)
  BY Zenon DEF GoodCol, PlainCol, Column


-----------------------------------------------------------------------------
(* Every step keeps the invariant and is a step of the line. *)

Advance == Walk' /\ Line!Next

LEMMA Refused == ASSUME Walk, Refuse("rejected") PROVE Advance
<1>1. /\ status' = "rejected" /\ table' = table /\ plan' = plan /\ cursor' = cursor
      /\ seen' = seen /\ again' = again /\ kept' = kept /\ todo' = todo /\ cut' = cut
  BY Zenon DEF Refuse
<1>2. Line!Next
  BY <1>1, LineTurn, PlacedFrame, MarkFrame, ZenonT(60)
<1>3. Walk'
  BY <1>1, Zenon DEF Walk, Browsing, Numbering
<1> QED BY <1>2, <1>3, Zenon DEF Advance

LEMMA Resolved ==
  ASSUME NEW spec, GoodSpec(spec), NEW sort, NEW order, NEW r, r = resolve(spec, sort, order), r.ok
  PROVE  r.key \in DOMAIN spec.columns /\ r.dir \in Directions
<1>1. CASE sort = ""
  BY <1>1, Zenon DEF resolve, GoodSpec, Directions
<1>2. CASE sort # ""
  <2>1. /\ r.ok <=> sort \in DOMAIN spec.columns /\ order \in {"", "asc", "desc"}
        /\ r.key = sort /\ r.dir = IF order = "" THEN "asc" ELSE order
    BY <1>2, Zenon DEF resolve
  <2> QED BY <2>1, Zenon DEF Directions
<1> QED BY <1>1, <1>2, Zenon

Ordered(p, by, max) ==
  p.by = by /\ p.max = max /\ {"key", "col", "dir"} \subseteq DOMAIN p /\ Sorted(p)

LEMMA Planned ==
  ASSUME NEW e \in Endpoints, NEW spec, spec = e.listing.spec,
         NEW key \in DOMAIN spec.columns, NEW dir \in Directions, NEW hides, NEW filtered,
         NEW max, NEW by, NEW p, p = Plan(spec, key, dir, hides, filtered, max, by)
  PROVE  Ordered(p, by, max)
<1>1. /\ p.by = by /\ p.max = max /\ {"key", "col", "dir"} \subseteq DOMAIN p
      /\ p.key = key /\ p.col = spec.columns[key] /\ p.dir = dir
  BY Zenon DEF Plan
<1>2. GoodCol(spec.columns[key])
  BY ListingsAssumption, Zenon DEF GoodSpec
<1>3. key \in Keys
  BY Zenon DEF Keys
<1> QED BY <1>1, <1>2, <1>3, ZenonT(60) DEF Ordered, Sorted

LEMMA MaxTyped == \A l : MaxOf(l) \in Nat \ {0}
  BY ListsAssumption, ZenonT(60) DEF MaxOf

LEMMA ClampTyped ==
  ASSUME NEW limit \in Limits, NEW max \in Nat \ {0} PROVE clampLimit(limit, max) \in Nat \ {0}
<1>1. limit \in Int /\ DefaultLimit \in Nat \ {0}
  BY ListsAssumption, Zenon
<1> QED BY <1>1 DEF clampLimit

LEMMA EndpointOpened ==
  ASSUME Walk, NEW e \in Endpoints, NEW sort, NEW order, NEW filter, NEW ended, NEW ready,
         OpenEndpoint(e, sort, order, filter, ended, ready)
  PROVE  Advance
<1> DEFINE r == resolve(e.listing.spec, sort, order)
           hides == e.listing.hides /\ (e.listing.always \/ ~ended)
           filtered == e.listing.scoped \/ filter # ""
           p == Plan(e.listing.spec, r.key, r.dir, hides, filtered, MaxOf(e.listing), "client")
<1>1. status = "idle"
  BY Zenon DEF OpenEndpoint
<1>2. \/ Refuse("rejected")
      \/ r.ok /\ Fits(p, table) /\ Starts(p, table) /\ UNCHANGED <<todo, total, cut, changes>>
  BY Zenon DEF OpenEndpoint
<1> HIDE DEF r, hides, filtered, p
<1>3. ASSUME r.ok, Fits(p, table), Starts(p, table), UNCHANGED <<todo, total, cut, changes>>
      PROVE  Advance
  <2>1. r.key \in DOMAIN e.listing.spec.columns /\ r.dir \in Directions
    BY <1>3, Resolved, ListingsAssumption, ZenonT(60) DEF r
  <2>2. /\ p.by = "client" /\ p.max = MaxOf(e.listing)
        /\ {"key", "col", "dir"} \subseteq DOMAIN p /\ Sorted(p)
    <3>1. Ordered(p, "client", MaxOf(e.listing))
      BY <2>1, Planned, ZenonT(60) DEF p
    <3> QED BY <3>1, Zenon DEF Ordered
  <2>3. p.max \in Nat \ {0} /\ TableOK(table) /\ status # "open"
    BY <1>1, <2>2, MaxTyped, ZenonT(60) DEF Walk
  <2>4. Line!Next /\ TableOK(table)' /\ seen' \in SUBSET Ids /\ status' = "open" /\ Browsing'
    BY <1>3, <2>2, <2>3, StartSorted, ZenonT(60)
  <2>5. todo' = todo /\ cut' = cut /\ todo = <<>> /\ ~cut /\ todo \in Seq(Legs)
    BY <1>1, <1>3, ZenonT(60) DEF Walk, Caps
  <2>6. Walk'
    BY <2>4, <2>5, ZenonT(60) DEF Walk
  <2> QED BY <2>4, <2>6, ZenonT(60) DEF Advance
<1> QED BY <1>2, <1>3, Refused, ZenonT(60)

LEMMA MembersOpened == ASSUME Walk, NEW only \in 0..3, OpenMembers(only) PROVE Advance
<1> DEFINE p == [NoPlan EXCEPT !.by = "members", !.kind = only, !.max = WideLimit]
<1>1. p.by = "members" /\ p.kind = only /\ p.max = WideLimit
  BY Zenon DEF NoPlan
<1>2. /\ status = "idle" /\ (\A i \in Ids : table[i] # None => table[i].val # Null)
      /\ Starts(p, table) /\ UNCHANGED <<todo, total, cut, changes>>
  BY Zenon DEF OpenMembers
<1> HIDE DEF p
<1>3. p.max \in Nat \ {0} /\ TableOK(table) /\ status # "open"
  BY <1>1, <1>2, ListsAssumption, ZenonT(60) DEF Walk
<1>4. Line!Next /\ TableOK(table)' /\ seen' \in SUBSET Ids /\ status' = "open" /\ Numbering'
  BY <1>1, <1>2, <1>3, StartMembers, ZenonT(60)
<1>5. todo' = todo /\ cut' = cut /\ todo = <<>> /\ ~cut /\ todo \in Seq(Legs)
  BY <1>2, Zenon DEF Walk, Caps
<1>6. Walk'
  BY <1>4, <1>5, ZenonT(60) DEF Walk
<1> QED BY <1>4, <1>6, ZenonT(60) DEF Advance

LEMMA LegRead ==
  ASSUME status # "open", NEW leg \in Legs, NEW filtered, NEW by \in Caps, NEW t, TableOK(t),
         ReadLeg(leg, filtered, by, t), todo' \in Seq(Legs)
  PROVE  Advance
<1> DEFINE f == leg.listing.scoped \/ filtered
           p == Plan(leg.listing.spec, leg.listing.spec.key, leg.listing.spec.dir,
                     leg.listing.hides, f, MaxOf(leg.listing), by)
<1>1. Fits(p, t) /\ Starts(p, t)
  BY Zenon DEF ReadLeg
<1> HIDE DEF f, p
<1>2. PICK e \in Endpoints : leg.listing = e.listing
  BY Zenon DEF Legs, Listings
<1>3. e.listing.spec.key \in DOMAIN e.listing.spec.columns /\ e.listing.spec.dir \in Directions
  BY ListingsAssumption, Zenon DEF GoodSpec, Directions
<1>4. /\ p.by = by /\ p.max = MaxOf(leg.listing)
      /\ {"key", "col", "dir"} \subseteq DOMAIN p /\ Sorted(p)
  <2>1. Ordered(p, by, MaxOf(leg.listing))
    BY <1>2, <1>3, Planned, ZenonT(60) DEF p
  <2> QED BY <2>1, Zenon DEF Ordered
<1>5. p.max \in Nat \ {0}
  BY <1>4, MaxTyped, ZenonT(60)
<1>6. Line!Next /\ TableOK(table)' /\ seen' \in SUBSET Ids /\ status' = "open" /\ Browsing'
  BY <1>1, <1>4, <1>5, StartSorted, ZenonT(60)
<1>7. plan' = p
  BY <1>1, Zenon DEF Starts
<1>8. Walk'
  BY <1>4, <1>6, <1>7, ZenonT(60) DEF Walk
<1> QED BY <1>6, <1>8, ZenonT(60) DEF Advance

LEMMA ReaderOpened ==
  ASSUME Walk, NEW r \in Readers, NEW filtered, OpenReader(r, filtered) PROVE Advance
<1>1. r.legs \in Seq(Legs) /\ r.legs # <<>> /\ r.cap \in Caps
  BY ReadersAssumption, ZenonT(60) DEF GoodReader
<1>2. Head(r.legs) \in Legs
  BY <1>1
<1>3. status # "open" /\ ReadLeg(Head(r.legs), filtered, r.cap, table) /\ todo' = r.legs
  BY Zenon DEF OpenReader
<1>4. TableOK(table)
  BY Zenon DEF Walk
<1> QED BY <1>1, <1>2, <1>3, <1>4, LegRead, ZenonT(60)

LEMMA LegAfter == ASSUME Walk, NextLeg PROVE Advance
<1>1. status # "open" /\ Len(todo) > 1 /\ todo' = Tail(todo)
  BY Zenon DEF NextLeg
<1>2. PICK t \in Tables, filtered \in BOOLEAN : ReadLeg(todo[2], filtered, plan.by, t)
  BY Zenon DEF NextLeg
<1>3. todo \in Seq(Legs) /\ (plan.by \notin Caps => todo = <<>>)
  BY Zenon DEF Walk
<1>4. todo # <<>> /\ todo[2] \in Legs /\ Tail(todo) \in Seq(Legs)
  BY <1>1, <1>3
<1>5. TableOK(t)
  BY ListsAssumption, ZenonT(60) DEF TableOK
<1> QED BY <1>1, <1>2, <1>3, <1>4, <1>5, LegRead, ZenonT(60)

LEMMA OwnAccepted == ASSUME Browsing PROVE Accepted(plan)
  BY Zenon DEF Browsing, Minted, Accepted, decodeListCursor, keysetOk

\* While a walk is open it reads a sorted list or members.
LEMMA OpenWalk ==
  ASSUME Walk, status = "open"
  PROVE  /\ TableOK(table) /\ seen \in SUBSET Ids /\ todo \in Seq(Legs)
         /\ plan.by \notin Caps => todo = <<>> /\ ~cut
         /\ plan.by \in {"client"} \cup Caps => Browsing
         /\ plan.by = "members" => Numbering
         /\ Browsing \/ Numbering
  BY Zenon DEF Walk, Browsing, Numbering, Caps

LEMMA PageRead == ASSUME Walk, NEW limit \in Limits, Page(limit) PROVE Advance
<1>1. status = "open" /\ plan.by = "client"
  BY Zenon DEF Page
<1>2. TableOK(table) /\ seen \in SUBSET Ids /\ Browsing /\ todo \in Seq(Legs) /\ todo = <<>> /\ ~cut
  BY <1>1, OpenWalk, ZenonT(60) DEF Caps
<1> DEFINE n == clampLimit(limit, plan.max)
           pg == KeysetPage(plan, cursor, n)
           A == Matching(plan, cursor)
           r == LineOf(plan)
<1>3. Answer(pg.items, pg.next) /\ plan' = plan /\ cut' = cut
  BY <1>2, OwnAccepted, ZenonT(60) DEF Page
<1>4. n \in Nat \ {0}
  BY <1>2, ClampTyped, ZenonT(60) DEF Browsing
<1> HIDE DEF n, pg, A, r
<1>5. /\ r \in Lines /\ A \in SUBSET Ids /\ pg.items \in SUBSET A
      /\ \A i \in pg.items, j \in A : r[j] < r[i] => j \in pg.items
      /\ pg.next = None => pg.items = A
      /\ pg.next # None =>
           /\ Minted(pg.next, plan)
           /\ \E x \in pg.items : /\ \A y \in pg.items \ {x} : r[y] < r[x]
                                  /\ Rank(plan, pg.next.id, pg.next.val) = r[x]
  <2>1. Sorted(plan) /\ Fits(plan, table) /\ (cursor = None \/ Minted(cursor, plan))
    BY <1>2, ZenonT(60) DEF Browsing
  <2>2. r = LineOf(plan) /\ A = Matching(plan, cursor) /\ pg = KeysetPage(plan, cursor, n)
    BY Zenon DEF r, A, pg
  <2>3. Paged(pg, plan, r, A)
    BY <1>2, <1>4, <2>1, <2>2, PageFacts, ZenonT(60)
  <2> QED BY <2>3, ZenonT(60) DEF Paged
<1>6. /\ Line!Next /\ TableOK(table)' /\ seen' \in SUBSET Ids
      /\ status' \in {"open", "done"} /\ Browsing'
  BY <1>1, <1>2, <1>3, <1>5, ListPage, ZenonT(60) DEF A, r
<1>7. todo' = todo
  BY <1>3, Zenon DEF Answer
<1>8. Walk'
  BY <1>2, <1>3, <1>6, <1>7, ZenonT(60) DEF Walk
<1> QED BY <1>6, <1>8, ZenonT(60) DEF Advance

LEMMA MembersPageRead == ASSUME Walk, NEW limit \in Limits, MembersPage(limit) PROVE Advance
<1>1. status = "open" /\ plan.by = "members"
  BY Zenon DEF MembersPage
<1>2. TableOK(table) /\ seen \in SUBSET Ids /\ Numbering /\ todo \in Seq(Legs) /\ todo = <<>> /\ ~cut
  BY <1>1, OpenWalk, ZenonT(60) DEF Caps
<1> DEFINE n == clampLimit(limit, plan.max)
           pg == ListApplicationMembers(plan.kind, cursor, n)
<1>3. Answer(pg.items, pg.next) /\ plan' = plan /\ cut' = cut
  BY Zenon DEF MembersPage
<1>4. n \in Nat \ {0}
  BY <1>2, ClampTyped, ZenonT(60) DEF Numbering
<1> HIDE DEF n, pg
<1>5. /\ Line!Next /\ TableOK(table)' /\ seen' \in SUBSET Ids
      /\ status' \in {"open", "done"} /\ Numbering'
  BY <1>1, <1>2, <1>3, <1>4, MembersLine, ZenonT(60) DEF pg
<1>6. todo' = todo
  BY <1>3, Zenon DEF Answer
<1>7. Walk'
  BY <1>1, <1>2, <1>3, <1>5, <1>6, ZenonT(60) DEF Walk
<1> QED BY <1>5, <1>7, Zenon DEF Advance

LEMMA ReaderPageRead == ASSUME Walk, ReaderPage PROVE Advance
<1>1. status = "open" /\ plan.by \in Caps
  BY Zenon DEF ReaderPage
<1>2. TableOK(table) /\ seen \in SUBSET Ids /\ Browsing /\ todo \in Seq(Legs)
  BY <1>1, OpenWalk, ZenonT(60)
<1> DEFINE pg == KeysetPage(plan, cursor, plan.max)
           full == plan.by = "tool" /\ Cardinality(seen \cup pg.items) >= MaxTotal
           room == MaxTotal - Cardinality(seen)
           items == IF full THEN FirstRows(plan, pg.items, room) ELSE pg.items
           next == IF full \/ plan.by = "page" THEN None ELSE pg.next
           A == Matching(plan, cursor)
           r == LineOf(plan)
<1>3. /\ Answer(items, next) /\ plan' = plan
      /\ cut' = (cut \/ (next = None /\ (pg.next # None \/ items # pg.items))
                     \/ (plan.by = "extract" /\ Len(todo) = 1 /\ total' > MaxRows))
  BY <1>2, OwnAccepted, ZenonT(60) DEF ReaderPage
<1>4. room \in Int
  <2>1. Cardinality(seen) \in 0..Span
    BY <1>2, Small, ZenonT(60)
  <2>2. MaxTotal \in Nat
    BY ListsAssumption, ZenonT(60)
  <2> QED BY <2>1, <2>2
<1>5. /\ items = IF full THEN FirstRows(plan, pg.items, room) ELSE pg.items
      /\ next = IF full \/ plan.by = "page" THEN None ELSE pg.next
  BY Zenon
<1> HIDE DEF pg, full, room, items, next, A, r
<1>6. /\ r \in Lines /\ A \in SUBSET Ids /\ pg.items \in SUBSET A
      /\ \A i \in pg.items, j \in A : r[j] < r[i] => j \in pg.items
      /\ pg.next = None => pg.items = A
      /\ pg.next # None =>
           /\ Minted(pg.next, plan)
           /\ \E x \in pg.items : /\ \A y \in pg.items \ {x} : r[y] < r[x]
                                  /\ Rank(plan, pg.next.id, pg.next.val) = r[x]
  <2>1. /\ Sorted(plan) /\ Fits(plan, table) /\ (cursor = None \/ Minted(cursor, plan))
        /\ plan.max \in Nat \ {0}
    BY <1>2, ZenonT(60) DEF Browsing
  <2>2. /\ r = LineOf(plan) /\ A = Matching(plan, cursor)
        /\ pg = KeysetPage(plan, cursor, plan.max)
    BY Zenon DEF r, A, pg
  <2>3. Paged(pg, plan, r, A)
    BY <1>2, <2>1, <2>2, PageFacts, ZenonT(60)
  <2> QED BY <2>3, ZenonT(60) DEF Paged
<1>7. pg.items \in SUBSET {i \in Ids : table[i] # None}
  BY <1>6, ZenonT(60) DEF A, Matching, Visible
<1>8. FirstRows(plan, pg.items, room) = Top(pg.items, r, room)
  BY <1>2, <1>7, FirstRowsIsTop, ZenonT(60) DEF Browsing, r
<1>9. items \in SUBSET A /\ \A i \in items, j \in A : r[j] < r[i] => j \in items
  <2>1. CASE full
    <3>1. items = Top(pg.items, r, room) /\ items \in SUBSET pg.items
      BY <1>5, <1>8, <2>1, ZenonT(60) DEF Top
    <3>2. \A i \in items, j \in pg.items : r[j] < r[i] => j \in items
      BY <1>4, <1>6, <1>7, <3>1, TopClosed, ZenonT(60)
    <3> QED BY <1>6, <3>1, <3>2, ZenonT(60)
  <2>2. CASE ~full
    BY <1>5, <1>6, <2>2, ZenonT(60)
  <2> QED BY <2>1, <2>2, ZenonT(60)
<1>10. next # None => next = pg.next /\ items = pg.items
  BY <1>5, ZenonT(60)
<1>11. next = None => items = A \/ cut'
  BY <1>3, <1>6, ZenonT(60)
<1>12. next # None =>
         /\ Minted(next, plan)
         /\ \E x \in items : /\ \A y \in items \ {x} : r[y] < r[x]
                             /\ Rank(plan, next.id, next.val) = r[x]
  BY <1>6, <1>10, ZenonT(60)
<1>13. /\ Line!Next /\ TableOK(table)' /\ seen' \in SUBSET Ids
       /\ status' \in {"open", "done"} /\ Browsing'
  BY <1>1, <1>2, <1>3, <1>6, <1>9, <1>11, <1>12, ListPage, ZenonT(60) DEF A, r
<1>14. todo' = todo
  BY <1>3, ZenonT(60) DEF Answer
<1>15. Walk'
  BY <1>1, <1>2, <1>3, <1>13, <1>14, ZenonT(60) DEF Walk
<1> QED BY <1>13, <1>15, ZenonT(60) DEF Advance

\* The cursor of one sort is turned down under another.
LEMMA OtherSortRead ==
  ASSUME Walk, status = "open", plan.by = "client", cursor # None,
         NEW spec, NEW sort, NEW order, NEW limit, OtherSort(spec, sort, order, limit)
  PROVE  Advance
<1> DEFINE r == resolve(spec, sort, order)
           p == [plan EXCEPT !.key = r.key, !.col = spec.columns[r.key], !.dir = r.dir]
<1>1. Browsing
  BY OpenWalk, Zenon
<1>2. p.key = r.key /\ p.dir = r.dir
  BY <1>1, Zenon DEF Browsing
<1>3. <<r.key, r.dir>> # <<plan.key, plan.dir>>
  BY Zenon DEF OtherSort
<1>4. Accepted(p) \/ Refuse("rejected")
  BY Zenon DEF OtherSort
<1> HIDE DEF r, p
<1>5. ~Accepted(p)
  BY <1>1, <1>2, <1>3, ZenonT(60) DEF Accepted, decodeListCursor, Browsing, Minted
<1> QED BY <1>4, <1>5, Refused, ZenonT(60)

LEMMA Changed == ASSUME Walk, NEW i \in Ids, NEW row \in Writes, Change(i, row) PROVE Advance
<1>1. /\ status = "open" /\ plan.by # "members" /\ (row # None /\ row.val = Null => plan.col.null)
      /\ table' = [table EXCEPT ![i] = row] /\ kept' = kept \ {i}
      /\ plan' = plan /\ cursor' = cursor /\ status' = status /\ seen' = seen /\ again' = again
      /\ todo' = todo /\ cut' = cut
  BY Zenon DEF Change
<1>2. TableOK(table) /\ seen \in SUBSET Ids /\ Browsing
  BY <1>1, OpenWalk, ZenonT(60) DEF Numbering
<1>3. row \in Row \cup {None}
  BY ListsAssumption, Zenon
<1>4. /\ TableOK(table)' /\ table'[i] = row
      /\ \A j \in Ids \ {i} : table'[j] = table[j]
  BY <1>1, <1>2, <1>3, ZenonT(60) DEF TableOK
<1>5. Fits(plan, table')
  BY <1>1, <1>2, <1>4, ZenonT(60) DEF Fits, Browsing
<1>6. Browsing'
  BY <1>1, <1>2, <1>5, ZenonT(60) DEF Browsing
<1>7. AlongTheOrder /\ AlongTheOrder'
  BY <1>2, <1>4, <1>6, PlacedSorted, PlacedSortedNext, ZenonT(60)
<1>8. Placed' \in [Ids -> Points \cup {None}]
  BY <1>7, Zenon DEF AlongTheOrder
<1>9. MarkOf' = MarkOf
  BY <1>1, MarkFrame, ZenonT(60)
<1>10. ASSUME NEW j \in Ids \ {i} PROVE Placed'[j] = Placed[j]
  <2>1. table'[j] = table[j]
    BY <1>4, ZenonT(60)
  <2>2. Placed[j] = Place(j) /\ Placed'[j] = Place(j)'
    BY Zenon DEF Placed
  <2>3. Place(j) = IF Visible(plan, table[j]) THEN Rank(plan, j, ExprOf(plan, j)) ELSE None
    BY <1>1, ZenonT(60) DEF Place
  <2>4. Place(j)' = IF Visible(plan, table[j]) THEN Rank(plan, j, ExprOf(plan, j)') ELSE None
    BY <1>1, <2>1, ZenonT(60) DEF Place
  <2>5. ExprOf(plan, j)' = ExprOf(plan, j)
    BY <1>1, <2>1, ZenonT(60) DEF ExprOf
  <2> QED BY <2>2, <2>3, <2>4, <2>5, ZenonT(60)
<1>11. Line!Next
  BY <1>1, <1>8, <1>9, <1>10, LineChange, ZenonT(60)
<1>12. Walk'
  BY <1>1, <1>2, <1>4, <1>6, ZenonT(60) DEF Walk
<1> QED BY <1>11, <1>12, ZenonT(60) DEF Advance

LEMMA Stuttered == ASSUME Walk, UNCHANGED vars PROVE Walk' /\ UNCHANGED Line!vars
<1>1. /\ status' = status /\ table' = table /\ plan' = plan /\ cursor' = cursor
      /\ seen' = seen /\ again' = again /\ kept' = kept /\ todo' = todo /\ cut' = cut
  BY Zenon DEF vars
<1>2. Walk'
  BY <1>1, ZenonT(60) DEF Walk, Browsing, Numbering
<1>3. Standing' = Standing /\ Placed' = Placed /\ MarkOf' = MarkOf
  BY <1>1, PlacedFrame, MarkFrame, ZenonT(60) DEF Standing
<1> QED BY <1>1, <1>2, <1>3, ZenonT(60) DEF Line!vars

LEMMA WalkNext == ASSUME Walk, Next PROVE Advance
<1>1. CASE status = "idle" /\ Open
  BY <1>1, EndpointOpened, MembersOpened, ReaderOpened, ZenonT(60) DEF Open
<1>2. CASE NextLeg
  BY <1>2, LegAfter, ZenonT(60)
<1>3. ASSUME NEW limit \in Limits, Page(limit) \/ MembersPage(limit) PROVE Advance
  BY <1>3, PageRead, MembersPageRead, ZenonT(60)
<1>4. CASE /\ status = "open" /\ plan.by = "client" /\ cursor # None
           /\ \E spec \in SortedSpecs :
                /\ plan.key \in DOMAIN spec.columns /\ spec.columns[plan.key] = plan.col
                /\ \E sort \in DOMAIN spec.columns, order \in {"", "desc"} :
                     OtherSort(spec, sort, order, DefaultLimit)
  BY <1>4, OtherSortRead, ZenonT(60)
<1>5. CASE ReaderPage
  BY <1>5, ReaderPageRead, Zenon
<1>6. ASSUME NEW i \in Ids, NEW row \in Writes, Change(i, row) PROVE Advance
  BY <1>6, Changed, ZenonT(60)
<1> QED BY <1>1, <1>2, <1>3, <1>4, <1>5, <1>6, ZenonT(60) DEF Next

\* The inductive invariant: the table is typed, and the cursor in the client's
\* hand is none, or one that the list of the plan mints.
THEOREM WalkInvariant == Spec => []Walk
<1>1. ASSUME Walk, [Next]_vars PROVE Walk'
  BY <1>1, WalkNext, Stuttered, ZenonT(60) DEF Advance
<1> QED BY WalkInit, <1>1, PTL DEF Spec

\* No client is told that the cursor it was given is invalid: the value in it is
\* NULL only in a column whose keyset condition has a branch for NULL, and its
\* sort is the plan's (pg.go:298, 391-394).
THEOREM CursorsAccepted == Spec => []OwnCursorAccepted
<1>1. Walk => OwnCursorAccepted
  BY Zenon DEF Walk, OwnCursorAccepted
<1> QED BY <1>1, WalkInvariant, PTL

\* Every list implements Scan: a page of any endpoint, of an application's
\* members or of a reader inside the server advances the mark over exactly the
\* rows it returns, and every other step begins, ends or changes a sweep.
THEOREM ListsSweep == Spec => SweepsTheTable
<1>1. Init => Line!Init
  <2> SUFFICES ASSUME Init PROVE Line!Init
    BY Zenon
  <2>1. /\ TableOK(table) /\ plan = NoPlan /\ cursor = None /\ status = "idle"
        /\ seen = {} /\ again = {} /\ kept = {}
    <3>1. Tables \subseteq [Ids -> Row \cup {None}]
      BY ListsAssumption, Zenon
    <3> QED BY <3>1, ZenonT(60) DEF Init, TableOK
  <2>2. MarkOf = 0 /\ Standing = "idle"
    BY <2>1, ZenonT(60) DEF MarkOf, Standing
  <2>3. Placed \in [Ids -> Line!Places]
    <3>1. plan.by # "members" /\ plan.col = PlainCol
      BY <2>1, Zenon DEF NoPlan
    <3>2. ASSUME NEW i \in Ids, table[i] # None PROVE Rank(plan, i, ExprOf(plan, i)) \in Points
      <4>1. table[i].val \in Vals \cup {Null}
        BY <2>1, <3>2, ZenonT(60) DEF TableOK, Row
      <4>2. ExprOf(plan, i) \in SortVals
        BY <3>1, <4>1, PlainColGood, FormTyped, ZenonT(60) DEF ExprOf
      <4>3. i \in 1..Span
        BY ListsAssumption, Zenon
      <4> QED BY <4>2, <4>3, RankTyped, ZenonT(60)
    <3>3. \A i \in Ids : Place(i) = None \/ Place(i) \in Points
      BY <3>1, <3>2, ZenonT(60) DEF Place, Visible
    <3> QED BY <3>3, Zenon DEF Placed, Line!Places, Line!Points, Points
  <2> QED BY <2>1, <2>2, <2>3, ZenonT(60) DEF Line!Init
<1>2. ASSUME Walk, [Next]_vars PROVE [Line!Next]_Line!vars
  BY <1>2, WalkNext, Stuttered, ZenonT(60) DEF Advance
<1> QED BY <1>1, <1>2, WalkInvariant, PTL DEF Spec, SweepsTheTable, Line!Spec

\* What a client of any list gets: a walk that came to its end without a cap
\* has returned every row that was there unchanged from its first page to its
\* last, and none of them twice, whatever the sort, the order, the filter and
\* the limits, and whoever changed other rows between the pages.
THEOREM ListsAreExact == Spec => [](Line!Complete /\ Line!OnceEach)
  BY ListsSweep, SweepIsExact, Zenon DEF SweepsTheTable
=============================================================================
