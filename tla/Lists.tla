-------------------------------- MODULE Lists --------------------------------
(***************************************************************************)
(* Paged lists: internal/store/pg.go (cursor, sort specification, keyset   *)
(* condition), the List functions of internal/store over the catalogue of  *)
(* ListCatalog, the handlers that serve them and the readers inside the    *)
(* server that follow the cursor to the end.                               *)
(*                                                                         *)
(* One reader walks one listing, page by page, while other clients insert, *)
(* delete and update rows between the pages.  Nothing is held between two  *)
(* pages but the cursor in the client's hand: the sort value and the id of *)
(* the last row returned.                                                  *)
(*                                                                         *)
(* Rows are numbered by their id; `val' is the row's value in the column   *)
(* the walk is sorted by, in the range Vals or Null, and `tag' says        *)
(* whether the row passes the request's filter and whether it has ended.   *)
(***************************************************************************)
EXTENDS ListCatalog, Keyset, Sequences, FiniteSets

CONSTANTS
  Span,         \* the largest id and sort value
  Ids,          \* ids of rows: ids are compared like numbers
  Vals,         \* sort values, numbers too
  Lower,        \* LOWER() / strings.ToLower on Vals
  MemberKind,   \* the source (1, 2 or 3) of an application's member, per row
  None,         \* no row, no cursor
  Tables,       \* contents a walk may start over
  Writes,       \* rows other clients write; None removes
  Limits,       \* values of limit= a client sends
  DefaultLimit, MaxLimit, WideLimit,   \* 50, 200 and 500 in the code
  MaxTotal,     \* maxTotalItems of the MCP server
  MaxRows,      \* the row cap of the extracts
  MaxChanges    \* bound on the changes other clients make during a walk

Tags == {"match", "miss", "ended"}
Row == [val : Vals \cup {Null}, tag : Tags]

\* A cursor of a sorted list, and one of an application's members.
Cursors ==
  [col : UNION {DOMAIN e.listing.spec.columns : e \in Endpoints},
   val : 0..Span \cup {Null}, id : Ids, dir : {"asc", "desc"}]
  \cup [kind : 1..3, off : 0..Span]

ASSUME SpanAssumption == Span \in Nat

ASSUME ListsAssumption ==
  /\ Ids \subseteq 1..Span /\ Vals \subseteq 1..Span
  /\ Lower \in [Vals -> Vals]
  /\ MemberKind \in [Ids -> 1..3]
  /\ Null \notin 0..Span
  /\ None \notin Row /\ None \notin Cursors /\ None \notin Nat
  /\ Tables \subseteq [Ids -> Row \cup {None}] /\ Writes \subseteq Row \cup {None}
  /\ Limits \subseteq Int /\ MaxTotal \in Nat
  /\ {DefaultLimit, MaxLimit, WideLimit} \subseteq Nat \ {0}

VARIABLES
  table,    \* the rows of the listing being read
  plan,     \* what the walk asks for: the resolved request
  cursor,   \* next_cursor of the last answer
  status,   \* idle, open, done, or how the walk was turned away
  seen, again, kept,   \* as in Scan
  todo,     \* the legs a reader inside the server has still to finish
  total,    \* rows it gathered from the legs before this one
  cut,      \* it dropped rows at a cap
  changes   \* changes other clients made

vars == <<table, plan, cursor, status, seen, again, kept, todo, total, cut, changes>>

(***************************************************************************)
(* The sort specification: resolve and the two forms of a sort value.      *)
(***************************************************************************)

\* sortSpec.resolve: order= is ignored without sort=, and ascending unless
\* given with it.
resolve(spec, sort, order) ==
  IF sort = "" THEN [ok |-> TRUE, key |-> spec.key, dir |-> spec.dir]
  ELSE [ok |-> sort \in DOMAIN spec.columns /\ order \in {"", "asc", "desc"},
        key |-> sort, dir |-> IF order = "" THEN "asc" ELSE order]

\* severityRank, and the CASE expression that mirrors it: NULL ranks lowest.
Form(form, id, v) ==
  CASE form = "key" -> id
    [] form = "rank" -> IF v = Null THEN 0 ELSE v
    [] form = "lower" -> IF v = Null THEN Null ELSE Lower[v]
    [] OTHER -> v

expr(col, id, v) == Form(col.expr, id, v)

\* The value as it is read: nothing when there is none, ranked or not.
sortValUnranked(key, col, id, v) == IF v = Null THEN Null ELSE Form(col.mint, id, v)

\* The sortVal switches.  Every key but the fallback has a case of its own, so
\* the default branch only ever reads the fallback's column.
sortVal(key, col, id, v) == Form(col.mint, id, v)

(***************************************************************************)
(* The cursor.                                                             *)
(***************************************************************************)

encodeListCursor(key, val, id, dir) == [col |-> key, val |-> val, id |-> id, dir |-> dir]

\* A cursor is good for the sort it was minted under and for no other.
decodeListCursor(cur, key, dir) == cur.col = key /\ cur.dir = dir

clampLimit(limit, max) ==
  IF limit <= 0 THEN DefaultLimit ELSE IF limit > max THEN max ELSE limit

(***************************************************************************)
(* One page.                                                               *)
(***************************************************************************)

\* The WHERE clause of the List functions: terminated rows and the filters.
Visible(p, row) ==
  /\ row # None
  /\ row.tag = "ended" => ~p.hides
  /\ row.tag = "miss" => ~p.filtered

ExprOf(p, i) == expr(p.col, i, table[i].val)

Matching(p, cur) ==
  {i \in Ids : /\ Visible(p, table[i])
               /\ cur # None => keysetCond(p.col, p.dir, cur, i, ExprOf(p, i))}

\* ORDER BY ... LIMIT n.
FirstRows(p, S, n) ==
  {i \in S : Cardinality({j \in S : Before(p.col, p.dir, j, ExprOf(p, j), i, ExprOf(p, i))}) < n}

LastOf(p, S) ==
  CHOOSE i \in S : \A j \in S \ {i} : Before(p.col, p.dir, j, ExprOf(p, j), i, ExprOf(p, i))

\* limit+1 rows are fetched; the cursor is minted from the last row returned.
KeysetPage(p, cur, limit) ==
  LET rows == FirstRows(p, Matching(p, cur), limit + 1)
      page == FirstRows(p, rows, limit)
      last == LastOf(p, page)
  IN [items |-> page,
      next |-> IF Cardinality(rows) > limit
               THEN encodeListCursor(p.key, sortVal(p.key, p.col, last, table[last].val), last, p.dir)
               ELSE None]

(***************************************************************************)
(* ListApplicationMembers: offsets over three sources.                     *)
(***************************************************************************)

MembersOf(kind) == {i \in Ids : table[i] # None /\ MemberKind[i] = kind}

\* ORDER BY name, id: the position of a member in its source.
Position(i) ==
  Cardinality({j \in MembersOf(MemberKind[i]) :
                 Before(PlainCol, "asc", j, table[j].val, i, table[i].val)}) + 1

\* listWorkloadMembers, listVMMembers, listVMAppMembers.
Segment(kind, limit, off) ==
  [page |-> {i \in MembersOf(kind) : off < Position(i) /\ Position(i) <= off + limit},
   full |-> Cardinality(MembersOf(kind)) > off + limit]

memberCursor(kind, off) == [kind |-> kind, off |-> off]

listVMAppMembers(got, limit, off) ==
  LET s == Segment(3, limit - Cardinality(got), off) IN
  [items |-> got \cup s.page,
   next |-> IF s.full THEN memberCursor(3, off + limit - Cardinality(got)) ELSE None]

listVMMembers(got, only, limit, off) ==
  LET s == Segment(2, limit - Cardinality(got), off) IN
  IF s.full \/ only # 0
  THEN [items |-> got \cup s.page,
        next |-> IF s.full THEN memberCursor(2, off + limit - Cardinality(got)) ELSE None]
  ELSE listVMAppMembers(got \cup s.page, limit, 0)

listWorkloadMembers(only, limit, off) ==
  LET s == Segment(1, limit, off) IN
  IF s.full \/ only # 0
  THEN [items |-> s.page, next |-> IF s.full THEN memberCursor(1, off + limit) ELSE None]
  ELSE listVMMembers(s.page, only, limit, 0)

ListApplicationMembers(only, cur, limit) ==
  LET start == IF only = 0 THEN 1 ELSE only
      c == IF cur = None THEN memberCursor(start, 0) ELSE cur
  IN CASE c.kind = 1 -> listWorkloadMembers(only, limit, c.off)
       [] c.kind = 2 -> listVMMembers({}, only, limit, c.off)
       [] c.kind = 3 -> listVMAppMembers({}, limit, c.off)

(***************************************************************************)
(* The walk.                                                               *)
(***************************************************************************)

Plan(spec, key, dir, hides, filtered, max, by) ==
  [key |-> key, col |-> spec.columns[key], dir |-> dir, hides |-> hides,
   filtered |-> filtered, max |-> max, by |-> by, kind |-> 0]

NoPlan == [key |-> "name", col |-> PlainCol, dir |-> "asc", hides |-> FALSE,
           filtered |-> FALSE, max |-> 0, by |-> "nobody", kind |-> 0]

MaxOf(listing) == IF listing.wide THEN WideLimit ELSE MaxLimit

Starts(p, t) ==
  /\ plan' = p /\ table' = t
  /\ cursor' = None /\ status' = "open"
  /\ seen' = {} /\ again' = {}
  /\ kept' = {i \in Ids : IF p.by = "members"
                          THEN t[i] # None /\ p.kind \in {0, MemberKind[i]}
                          ELSE Visible(p, t[i])}

\* NOT NULL columns hold no NULL.
Fits(p, t) ==
  \A i \in Ids : t[i] # None /\ t[i].val = Null => p.col.null

Init ==
  /\ table \in Tables /\ plan = NoPlan /\ cursor = None /\ status = "idle"
  /\ seen = {} /\ again = {} /\ kept = {}
  /\ todo = <<>> /\ total = 0 /\ cut = FALSE /\ changes = 0

Refuse(how) ==
  /\ status' = how
  /\ UNCHANGED <<table, plan, cursor, seen, again, kept, todo, total, cut, changes>>

\* The first page of an endpoint is asked for.  A listing without its required
\* parent, with its setting off, or with an unknown sort key or order, is
\* answered with an error.
OpenEndpoint(e, sort, order, filter, ended, ready) ==
  LET r == resolve(e.listing.spec, sort, order)
      p == Plan(e.listing.spec, r.key, r.dir,
                e.listing.hides /\ (e.listing.always \/ ~ended),
                e.listing.scoped \/ filter # "", MaxOf(e.listing), "client")
  IN /\ status = "idle"
     /\ ~e.sorted => sort = "" /\ order = ""
     /\ IF r.ok /\ (e.gated \/ e.required => ready)
        THEN /\ Fits(p, table)
             /\ Starts(p, table)
             /\ UNCHANGED <<todo, total, cut, changes>>
        ELSE Refuse("rejected")

OpenMembers(only) ==
  /\ status = "idle"
  /\ \A i \in Ids : table[i] # None => table[i].val # Null
  /\ Starts([NoPlan EXCEPT !.by = "members", !.kind = only, !.max = WideLimit], table)
  /\ UNCHANGED <<todo, total, cut, changes>>

ReadLeg(leg, filtered, by, t) ==
  LET p == Plan(leg.listing.spec, leg.listing.spec.key, leg.listing.spec.dir, leg.listing.hides,
                leg.listing.scoped \/ filtered, MaxOf(leg.listing), by)
  IN Fits(p, t) /\ Starts(p, t)

\* A reader inside the server begins: its first leg, in default order, without
\* the terminated rows, filtered or not.
OpenReader(r, filtered) ==
  /\ status = "idle"
  /\ ReadLeg(Head(r.legs), filtered, r.cap, table)
  /\ todo' = r.legs
  /\ UNCHANGED <<total, cut, changes>>

\* How many rows the answer has with the n entities of this leg.
Gathered(leg, n) ==
  CASE leg.gives = "index" -> {total}
    [] leg.gives = "rows" -> {total + n}
    [] leg.gives = "union" -> (IF n > total THEN n ELSE total)..(total + n)

\* ... and goes on with the next leg, over another table.
NextLeg ==
  /\ status = "done" /\ Len(todo) > 1
  /\ \E t \in Tables, filtered \in BOOLEAN : ReadLeg(todo[2], filtered, plan.by, t)
  /\ todo' = Tail(todo)
  /\ UNCHANGED <<total, cut, changes>>

\* The items reach the reader, who keeps the cursor for the next page.
Answer(items, next) ==
  /\ seen' = seen \cup items
  /\ again' = again \cup (items \cap seen \cap kept)
  /\ cursor' = IF next = None THEN cursor ELSE next
  /\ status' = IF next = None THEN "done" ELSE "open"
  /\ UNCHANGED <<table, kept, todo, changes>>

Accepted(p) ==
  cursor # None => decodeListCursor(cursor, p.key, p.dir) /\ keysetOk(p.col, cursor)

\* A page of a keyset list, with the cursor of the page before.
Page(limit) ==
  /\ status = "open" /\ plan.by = "client"
  /\ IF Accepted(plan)
     THEN LET pg == KeysetPage(plan, cursor, clampLimit(limit, plan.max))
          IN Answer(pg.items, pg.next) /\ UNCHANGED <<plan, total, cut>>
     ELSE Refuse("refused")

MembersPage(limit) ==
  /\ status = "open" /\ plan.by = "members"
  /\ LET pg == ListApplicationMembers(plan.kind, cursor, clampLimit(limit, plan.max))
     IN Answer(pg.items, pg.next) /\ UNCHANGED <<plan, total, cut>>

\* The client sends the cursor back with another sort= or order=, of a list
\* with the column it walks.
OtherSort(spec, sort, order, limit) ==
  LET r == resolve(spec, sort, order)
      p == [plan EXCEPT !.key = r.key, !.col = spec.columns[r.key], !.dir = r.dir]
      pg == KeysetPage(p, cursor, clampLimit(limit, plan.max))
  IN /\ r.ok /\ <<r.key, r.dir>> # <<plan.key, plan.dir>>
     /\ IF Accepted(p)
        THEN Answer(pg.items, pg.next) /\ plan' = p /\ UNCHANGED <<total, cut>>
        ELSE Refuse("rejected")

Caps == {"tool", "extract", "none", "page"}

\* A page fetched by a reader inside the server: the largest there is.
\* collectAll of the MCP server stops once it has maxTotalItems; an extract
\* cuts its answer when everything is read; the flow matrix stops after one page.
ReaderPage ==
  /\ status = "open" /\ plan.by \in Caps
  /\ IF Accepted(plan)
     THEN LET pg == KeysetPage(plan, cursor, plan.max)
              full == plan.by = "tool" /\ Cardinality(seen \cup pg.items) >= MaxTotal
              items == IF full THEN FirstRows(plan, pg.items, MaxTotal - Cardinality(seen))
                       ELSE pg.items
              next == IF full \/ plan.by = "page" THEN None ELSE pg.next
              n == Cardinality(seen \cup items)
          IN /\ Answer(items, next)
             /\ total' \in IF next = None THEN Gathered(Head(todo), n) ELSE {total}
             /\ cut' = (cut \/ (next = None /\ (pg.next # None \/ items # pg.items))
                            \/ (plan.by = "extract" /\ Len(todo) = 1 /\ total' > MaxRows))
             /\ UNCHANGED plan
     ELSE Refuse("refused")

\* Another client adds, removes or changes a row.  Offsets promise nothing when
\* the rows move, so the walk over members is left alone.
Change(i, row) ==
  /\ status = "open" /\ plan.by # "members"
  /\ changes < MaxChanges
  /\ row # table[i]
  /\ row # None /\ row.val = Null => plan.col.null
  /\ table' = [table EXCEPT ![i] = row]
  /\ kept' = kept \ {i}
  /\ changes' = changes + 1
  /\ UNCHANGED <<plan, cursor, status, seen, again, todo, total, cut>>

Orders == {"", "asc", "desc", "up"}

SortedSpecs == {e.listing.spec : e \in {f \in Endpoints : f.sorted}}

Open ==
  \/ \E e \in Endpoints : \E sort \in DOMAIN e.listing.spec.columns \cup {"", "bogus"} :
       \E order \in Orders, filter \in {""} \cup e.listing.filters, ended, ready \in BOOLEAN :
         OpenEndpoint(e, sort, order, filter, ended, ready)
  \/ \E only \in 0..3 : OpenMembers(only)
  \/ \E r \in Readers, filtered \in BOOLEAN : OpenReader(r, filtered)

Next ==
  \/ status = "idle" /\ Open
  \/ NextLeg
  \/ \E limit \in Limits : Page(limit) \/ MembersPage(limit)
  \/ /\ status = "open" /\ plan.by = "client" /\ cursor # None
     /\ \E spec \in SortedSpecs :
          /\ plan.key \in DOMAIN spec.columns /\ spec.columns[plan.key] = plan.col
          /\ \E sort \in DOMAIN spec.columns, order \in {"", "desc"} :
               OtherSort(spec, sort, order, DefaultLimit)
  \/ ReaderPage
  \/ \E i \in Ids, row \in Writes : Change(i, row)

Spec == Init /\ [][Next]_vars

(***************************************************************************)
(* Properties.                                                             *)
(***************************************************************************)

\* The line of Scan comes in stretches, one for each sort value, with NULL at
\* the end, or one for each source of members.  A row lies in its stretch by
\* its id, or by its position in the source.
Spot(stretch, offset) == (Span + 1) * stretch + offset

Stretch(p, v) ==
  IF v = Null THEN Span + 2 ELSE IF p.dir = "asc" THEN v + 1 ELSE Span + 1 - v

Offset(p, id) == IF p.dir = "asc" THEN id ELSE Span + 1 - id

Rank(p, id, v) == Spot(Stretch(p, v), Offset(p, id))

Place(i) ==
  IF plan.by = "members"
  THEN IF table[i] # None /\ plan.kind \in {0, MemberKind[i]}
       THEN Spot(MemberKind[i], Position(i)) ELSE None
  ELSE IF Visible(plan, table[i]) THEN Rank(plan, i, ExprOf(plan, i)) ELSE None

MarkOf ==
  IF cursor = None THEN 0
  ELSE IF plan.by = "members" THEN Spot(cursor.kind, cursor.off)
  ELSE Rank(plan, cursor.id, cursor.val)

Placed == [i \in Ids |-> Place(i)]

Standing ==
  IF (cut /\ status = "done") \/ status \in {"refused", "rejected"} THEN "off" ELSE status

Line == INSTANCE Scan WITH rows <- Placed, mark <- MarkOf, status <- Standing

\* Every list implements Scan: each page returns exactly the rows between the
\* place of the cursor before it and the place of its own, whatever the sort,
\* the order, the filter and the page size, and whoever changes rows meanwhile.
\* So a walk that comes to its end without a cap has returned every row that was
\* there unchanged from the first page to the last, and none of them twice
\* (ListsProofs!ListsAreExact).
SweepsTheTable == Line!Spec

\* A client that sends the cursor it was given back to the same list, in the same
\* order, is never told that the cursor is invalid, whatever row it was minted from.
OwnCursorAccepted == status # "refused"
=============================================================================
