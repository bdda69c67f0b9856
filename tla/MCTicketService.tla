-------------------------- MODULE MCTicketService --------------------------
(***************************************************************************)
(* Small instances of TicketService for TLC.                               *)
(***************************************************************************)
EXTENDS TicketService, TLC

CONSTANTS ada, bob, lead, root

\* Two agents and, where a run needs the privileged paths, an overseer and an
\* admin.
MCRole == [u \in User |-> CASE u = root -> "HUMAN_ADMIN"
                            [] u = lead -> "OVERSEER_AI"
                            [] OTHER    -> "NORMAL_AI"]

\* Every slot serves every ticket.
MCServes == [r \in Request |-> Ticket]

\* Slots and tickets are interchangeable, and so are the two agents.
Symmetry == Permutations(Request) \cup Permutations(Ticket) \cup Permutations(User \ {lead, root})
=============================================================================
