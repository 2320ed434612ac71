------------------------------ MODULE ListRules ------------------------------
(***************************************************************************)
(* What the listings and the readers of the catalogue have in common: the  *)
(* rules that paging through a changing table rests on.  The catalogue is  *)
(* finite, and TLC evaluates each rule on the whole of it.                 *)
(***************************************************************************)
EXTENDS Lists

\* SQL and Go compute the same form of a sort value, and a column whose value
\* may come out as NULL is declared nullable.
GoodCol(col) ==
  /\ col.expr \in {"key", "rank", "lower", "plain"} /\ col.mint = col.expr
  /\ col.null /\ col.expr \in {"lower", "plain"} => col.nullable

\* A sort specification is made of such columns, its default among them.
GoodSpec(spec) ==
  /\ \A k \in DOMAIN spec.columns : GoodCol(spec.columns[k])
  /\ spec.key \in DOMAIN spec.columns /\ spec.dir \in {"asc", "desc"}

Listings == {e.listing : e \in Endpoints}

Keys == UNION {DOMAIN e.listing.spec.columns : e \in Endpoints}

Legs == [listing : Listings, gives : {"index", "rows", "union"}]

\* A reader goes through at least one listing that some endpoint serves too.
GoodReader(r) == r.legs \in Seq(Legs) /\ r.legs # <<>> /\ r.cap \in Caps

ASSUME ListingsAssumption == \A e \in Endpoints : GoodSpec(e.listing.spec)
ASSUME ReadersAssumption == \A r \in Readers : GoodReader(r)
=============================================================================
