----------------------------- MODULE MCAccounts -----------------------------
(***************************************************************************)
(* A small instance of Accounts for TLC.                                   *)
(***************************************************************************)
EXTENDS Accounts, TLC

CONSTANT s1

\* One slot changes users, the others register, refresh and replace tokens.
MCOps == [s \in Slot |-> IF s = s1
                         THEN {"login", "role", "password", "delete", "regenerate"}
                         ELSE {"register", "refresh"}]

MCToolOps == [s \in Slot |-> IF s = s1 THEN {"create", "delete"} ELSE {"regenerate"}]

\* A bound: one user at a time has a password, and may log in.
OnePassword == Cardinality({id \in Id : Live(id) /\ users[id].password}) <= 1

Symmetry == Permutations(Name)
=============================================================================
