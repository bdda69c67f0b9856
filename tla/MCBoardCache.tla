---------------------------- MODULE MCBoardCache ----------------------------
(***************************************************************************)
(* Small instances of BoardCache for TLC.                                  *)
(***************************************************************************)
EXTENDS BoardCache

CONSTANTS root, r1, t1

MCRole == [u \in User |-> IF u = root THEN "HUMAN_ADMIN" ELSE "NORMAL_AI"]

\* Boards have the columns of the sample configuration; none is "blocked-0".
MCBoardColumn == [b \in Board |-> Column \ {"blocked-0"}]

\* One slot serves t1, the other the other tickets.
MCSplit == [r \in Request |-> IF r = r1 THEN Ticket \ {t1} ELSE {t1}]
=============================================================================
