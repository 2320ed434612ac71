------------------------------ MODULE MCAccess ------------------------------
(* Two requests at a time on one row of every table.  Tables with the same *)
(* routes behave alike, and one of them stands for all.                    *)
EXTENDS Access, TLC

CONSTANTS s1, s2, v1, v2

MCSlots == {s1, s2}
MCValues == {v1, v2}

Shape(t) ==
    <<{[route EXCEPT !.table = ""] : route \in {r \in Surface : r.table = t}},
      t \in DeletedWithParent, t \in EndedWithParent>>

ASSUME EveryTable == {Shape(t) : t \in Surveyed} = {Shape(t) : t \in Tables}

Symmetry == Permutations(MCSlots) \cup Permutations(MCValues)
=============================================================================
