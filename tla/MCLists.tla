------------------------------- MODULE MCLists -------------------------------
(* Four rows, three sort values and the tables that hold ties, NULLs,      *)
(* filtered and terminated rows.                                           *)
EXTENDS ListRules

IdsC == 1..4
ValsC == 1..3
\* "B" < "a" < "b" as raw text; LOWER maps "B" to "b".
LowerC == <<3, 2, 3>>
MemberKindC == <<1, 2, 2, 3>>

RowOf(v, tag) == [val |-> v, tag |-> tag]

TablesC == {
  <<RowOf(3, "match"), RowOf(1, "match"), RowOf(2, "match"), RowOf(1, "match")>>,
  <<RowOf(Null, "match"), RowOf(2, "match"), RowOf(Null, "match"), RowOf(1, "match")>>,
  <<RowOf(2, "ended"), RowOf(2, "match"), RowOf(2, "miss"), RowOf(2, "match")>>,
  <<None, RowOf(3, "match"), None, RowOf(1, "match")>>}

WritesC == {None, RowOf(1, "match"), RowOf(2, "match"), RowOf(Null, "match"), RowOf(3, "ended")}
=============================================================================
