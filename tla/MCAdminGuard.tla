--------------------------- MODULE MCAdminGuard ---------------------------
(***************************************************************************)
(* AdminGuard on small sets of users and requests.                         *)
(***************************************************************************)
EXTENDS AdminGuard, TLC

CONSTANTS u1, u2, u3, t1, t2, t3, t4

Demote == [role |-> "viewer", disabled |-> "keep", delete |-> FALSE]
Disable == [role |-> "keep", disabled |-> "yes", delete |-> FALSE]
Delete == [role |-> "keep", disabled |-> "keep", delete |-> TRUE]
Promote == [role |-> "admin", disabled |-> "keep", delete |-> FALSE]

Removals == {Disable, Delete}
PromoteOrDemote == {Promote, Demote}

\* Requests are interchangeable, and so are the admins of the start.
Symmetry == Permutations(Txs) \cup Permutations(InitialUsers)
=============================================================================
