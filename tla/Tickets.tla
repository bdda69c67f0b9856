------------------------------ MODULE Tickets ------------------------------
(***************************************************************************)
(* The rows of the tickets table and the rules that decide what may happen *)
(* to a row: the data that the abstract specification (TicketBoard) and    *)
(* the server (TicketService) share.  There is no state here.              *)
(***************************************************************************)
EXTENDS Naturals, FiniteSets

CONSTANTS
    Ticket,        \* ticket ids; an id is never given to a second ticket
    User,          \* user names, the values of Assignee
    Comment,       \* comments that tickets may carry
    Board,         \* configured boards
    Role,          \* the role the authentication middleware found, per user
    TargetStatus,  \* statuses that moves ask for
    NewColumn,     \* columns that creates and unarchives ask for
    NoUser,
    Unused,        \* the entry of a ticket id that no create has used yet
    Deleted        \* the entry of a ticket id whose row was deleted

\* models/types.go: the three roles.
Roles == {"HUMAN_ADMIN", "OVERSEER_AI", "NORMAL_AI"}

\* services/move.go: VALID_STATUSES, TERMINAL_STATUSES and the column of each.
StatusToColumnID ==
    [BACKLOG |-> "backlog-0", TODO |-> "todo-0", IN_PROGRESS |-> "inprogress-0",
     REVIEW |-> "review-0", DONE |-> "done-0", CANCELLED |-> "cancelled-0"]

VALID_STATUSES == {"BACKLOG", "TODO", "IN_PROGRESS", "REVIEW", "DONE", "CANCELLED"}

TERMINAL_STATUSES == {"DONE", "CANCELLED"}

\* The columns of the six statuses, and one column that is none of them:
\* "blocked-0" stands for the other names a client may give, but for those that
\* begin with "inprogress".
Column == {"backlog-0", "todo-0", "inprogress-0", "review-0", "done-0",
           "cancelled-0", "blocked-0"}

ASSUME RoleAssumption == Role \in [User -> Roles]

ASSUME StatusAssumption == TargetStatus \subseteq VALID_STATUSES

ASSUME ColumnAssumption == NewColumn \subseteq Column

ASSUME UserAssumption == NoUser \notin User

Assignee == User \cup {NoUser}

\* What a ticket row holds of what the requests decide on or can overwrite.
Row == [column: Column, assignee: Assignee, archived: BOOLEAN,
        comments: SUBSET Comment, board: Board]

ASSUME RowAssumption ==
    /\ Unused \notin Row
    /\ Deleted \notin Row
    /\ Unused # Deleted

\* The entries of the table: a row, or nothing yet, or nothing any more.
Entry == Row \cup {Unused, Deleted}

-----------------------------------------------------------------------------
(* Decisions *)

Status(row) ==
    IF \E s \in VALID_STATUSES : StatusToColumnID[s] = row.column
    THEN CHOOSE s \in VALID_STATUSES : StatusToColumnID[s] = row.column
    ELSE "TODO"

Privileged(u) == Role[u] \in {"HUMAN_ADMIN", "OVERSEER_AI"}

\* models/types.go: CanClaim and CanRelease.  services/move.go: canMove.
CanClaim(u, row) == Privileged(u) \/ row.assignee \in {NoUser, u}

CanRelease(u, row) == Privileged(u) \/ row.assignee = u

\* Mutant: an unassigned ticket may be moved by everybody, as it may be claimed.
CanMoveMutant(u, row) == Privileged(u) \/ row.assignee \in {NoUser, u}
CanMove(u, row) == Privileged(u) \/ row.assignee = u

\* services/move.go: IsValidTransition, for a known target status.
\* Mutant: OVERSEER_AI is exempt too, as it is from the ownership rules.
IsValidTransitionMutant(u, row, force) ==
    Status(row) \in TERMINAL_STATUSES => force \/ Privileged(u)
IsValidTransition(u, row, force) ==
    Status(row) \in TERMINAL_STATUSES => force \/ Role[u] = "HUMAN_ADMIN"

-----------------------------------------------------------------------------
(* The rows that requests write *)

\* Mutant: the row was scanned without its archived flag.
ClaimedRowMutant(row, u) ==
    [row EXCEPT !.column = "inprogress-0", !.assignee = u, !.archived = FALSE]
ClaimedRow(row, u) == [row EXCEPT !.column = "inprogress-0", !.assignee = u]

ReleasedRow(row) == [row EXCEPT !.column = "todo-0", !.assignee = NoUser]

\* Mutant: the status is stored where the column id belongs.
MovedRowMutant(row, s) == [row EXCEPT !.column = s]
MovedRow(row, s) == [row EXCEPT !.column = StatusToColumnID[s]]

FreshRow(c, a, b) ==
    [column |-> c, assignee |-> a, archived |-> FALSE, comments |-> {}, board |-> b]

FreshRows == {FreshRow(c, a, b) : c \in NewColumn, a \in Assignee, b \in Board}

\* GetTicketsByColumnAndAssignee("inprogress", u) on table d.  The query is
\* column LIKE 'inprogress%', which of the columns above only this one matches.
InProgressIn(d, u) ==
    {t \in Ticket : /\ d[t] \in Row
                    /\ d[t].column = "inprogress-0"
                    /\ d[t].assignee = u
                    /\ ~d[t].archived}
=============================================================================
