-------------------------------- MODULE Scan --------------------------------
(***************************************************************************)
(* What a paged listing promises, without pages, cursors or columns.  The  *)
(* rows of a table lie on a line: rows[i] is the point of row i, None when *)
(* the row is not there.  A reader sweeps the line from its start; every   *)
(* step returns exactly the rows between the mark and a later point, the   *)
(* last one everything ahead of the mark.  Other clients add, remove and   *)
(* move rows at any time.                                                  *)
(*                                                                         *)
(* Lists shows that every List function of the store implements this.      *)
(***************************************************************************)
EXTENDS Integers

CONSTANTS
  Ids,        \* the rows' identifiers
  None        \* the place of a row that is not there

VARIABLES
  rows,       \* where every row lies now
  mark,       \* everything up to here has been returned
  seen,       \* the rows returned in this sweep
  again,      \* the rows returned twice although they never moved
  kept,       \* the rows that have not moved since the sweep began
  status      \* idle, open, done or off (the reader was turned away)

vars == <<rows, mark, seen, again, kept, status>>

Points == Nat \ {0}

Places == Points \cup {None}

Ahead(i) == rows[i] # None /\ rows[i] > mark

UpTo(m) == {i \in Ids : Ahead(i) /\ rows[i] <= m}

AllAhead == {i \in Ids : Ahead(i)}

Return(S) ==
  /\ seen' = seen \cup S
  /\ again' = again \cup (S \cap seen \cap kept)

Init ==
  /\ rows \in [Ids -> Places]
  /\ mark = 0 /\ seen = {} /\ again = {} /\ kept = {} /\ status = "idle"

\* A sweep starts over whatever the table holds.
Begin ==
  /\ status # "open"
  /\ status' = "open"
  /\ rows' \in [Ids -> Places]
  /\ mark' = 0 /\ seen' = {} /\ again' = {}
  /\ kept' = {i \in Ids : rows'[i] # None}

Fetch ==
  /\ status = "open"
  /\ mark' \in Points /\ mark' > mark
  /\ Return(UpTo(mark'))
  /\ UNCHANGED <<rows, kept, status>>

Finish ==
  /\ status = "open"
  /\ Return(AllAhead)
  /\ status' = "done"
  /\ UNCHANGED <<rows, mark, kept>>

\* The reader stops early, at a cap of its own or on an error.
TurnAway ==
  /\ status' = "off"
  /\ UNCHANGED <<rows, mark, kept>>
  /\ \/ UNCHANGED <<seen, again>>
     \/ status = "open" /\ \E i \in Ids : Ahead(i) /\ Return(UpTo(rows[i]))

Change ==
  /\ UNCHANGED <<mark, seen, again, status>>
  /\ rows' \in [Ids -> Places]
  /\ \E i \in Ids :
       /\ kept' = kept \ {i}
       /\ \A j \in Ids \ {i} : rows'[j] = rows[j]

Next == Begin \/ Fetch \/ Finish \/ TurnAway \/ Change

Spec == Init /\ [][Next]_vars

(***************************************************************************)
(* Properties.                                                             *)
(***************************************************************************)

\* A sweep that came to its end has returned every row that stayed where it
\* was from the first step to the last.
Complete == status = "done" => kept \subseteq seen

\* No row that stayed where it was is returned twice.
OnceEach == again = {}
=============================================================================
