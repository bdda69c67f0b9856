---------------------------- MODULE MCTaskLinks ----------------------------
(***************************************************************************)
(* Small instances of TaskLinks for TLC.                                   *)
(***************************************************************************)
EXTENDS TaskLinks, TLC

\* Tickets and slots are interchangeable.
Symmetry == Permutations(Ticket) \cup Permutations(Request)
=============================================================================
