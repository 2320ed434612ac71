----------------------------- MODULE MCAccounts -----------------------------
(***************************************************************************)
(* Accounts on two requests, an administrator and users who log in with a  *)
(* password or through the identity provider.                              *)
(***************************************************************************)
EXTENDS Accounts, TLC

Keep == [role |-> "keep", disabled |-> "keep", must |-> "keep",
         unlock |-> FALSE, password |-> FALSE]
Disable == [Keep EXCEPT !.disabled = "yes"]
Enable == [Keep EXCEPT !.disabled = "no", !.unlock = TRUE]
Reset == [Keep EXCEPT !.password = TRUE, !.must = "no"]
AllPatches == {Disable, Enable, Reset}

Base == [s \in Subjects |-> "al"]

\* A new installation, one whose administrator has chosen a password, and
\* one with two administrators that has deleted a user.
CONSTANTS u1, u2, u3
Empty == [u \in UserIds |-> Unborn]
Settled == [Empty EXCEPT ![u1] = NewUser("admin", "admin", 1, FALSE)]
Pair == [Settled EXCEPT ![u2] = NewUser("al", "admin", 1, FALSE), ![u3] = Gone]
Stores == {Empty, Settled, Pair}

Symmetry == Permutations(Requests) \cup Permutations(AuthStates)
=============================================================================
