--------------------------- MODULE MCHistoryStore ---------------------------
(* An instance of HistoryStore for TLC. *)
EXTENDS HistoryStore, TLC

Symmetry == Permutations(Txs) \cup Permutations(Values)
=============================================================================
