------------------------------- MODULE Keyset -------------------------------
(***************************************************************************)
(* The order of a list and the condition that resumes it                   *)
(* (internal/store/pg.go).  A row has an id and, in the column `col' that  *)
(* the list is sorted by, a value that may be NULL; a cursor holds both of *)
(* the last row returned.                                                  *)
(***************************************************************************)
EXTENDS Integers

CONSTANT Null   \* SQL NULL

Past(dir, a, b) == IF dir = "asc" THEN a > b ELSE a < b

\* orderBy: NULLS LAST for a nullable column, else PostgreSQL's default (last
\* when ascending, first when descending); the id breaks ties.
Before(col, dir, i, v, j, w) ==
  LET nullsLast == col.nullable \/ dir = "asc" IN
  IF v = Null \/ w = Null
  THEN IF v = w THEN Past(dir, j, i)
       ELSE (v = Null) # nullsLast
  ELSE Past(dir, w, v) \/ (v = w /\ Past(dir, j, i))

\* keysetCond refuses a NULL value for a column that has none.
keysetOk(col, cur) == cur.val # Null \/ col.nullable

\* Forgets that NULLs sort after every value.
keysetCondNoNulls(col, dir, cur, id, v) ==
  IF cur.val = Null THEN v = Null /\ Past(dir, id, cur.id)
  ELSE v # Null /\ (Past(dir, v, cur.val) \/ (v = cur.val /\ Past(dir, id, cur.id)))

\* keysetCond: the rows after the cursor.
keysetCond(col, dir, cur, id, v) ==
  IF cur.val = Null THEN v = Null /\ Past(dir, id, cur.id)
  ELSE \/ v # Null /\ (Past(dir, v, cur.val) \/ (v = cur.val /\ Past(dir, id, cur.id)))
       \/ v = Null /\ col.nullable
=============================================================================
