----------------------------- MODULE MCGobanCli -----------------------------
(***************************************************************************)
(* A small instance of GobanCli for TLC.                                   *)
(***************************************************************************)
EXTENDS GobanCli, TLC

CONSTANTS c1, c2, t1, t3, ada, lead, k1

\* An agent and an overseer.
MCRole == [u \in User |-> IF u = lead THEN "OVERSEER_AI" ELSE "NORMAL_AI"]

MCUserOf == [c \in Cli |-> IF c = c1 THEN ada ELSE lead]

Typed(op, tickets, status, key) ==
    [op |-> op, tickets |-> tickets, status |-> status, force |-> FALSE, auto |-> TRUE, key |-> key]

MCCommands ==
    [c \in Cli |->
        IF c = c1
        THEN {Typed("claim", {t1}, NoStatus, NoKey), Typed("session", {}, "DONE", NoKey),
              Typed("release", {}, NoStatus, NoKey)}
        ELSE {Typed("create", {}, NoStatus, k1), Typed("batch", {t1, t3}, "DONE", NoKey)}]

\* A board with a free ticket or an empty one, and the id of a ticket that is gone.
MCInit ==
    /\ Init
    /\ \A t \in Ticket :
         /\ db[t] = Deleted <=> t = t3
         /\ db[t] \in Row => t = t1 /\ db[t].assignee = NoUser

MCSpec == MCInit /\ [][Next]_vars /\ Fairness
=============================================================================
