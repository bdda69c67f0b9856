---------------------------- MODULE TicketBoard ----------------------------
(***************************************************************************)
(* What the ticket API promises: every request happens at one instant, on  *)
(* the tickets as they are at that instant.  TicketService says where the  *)
(* server keeps this promise and where it does not.                        *)
(***************************************************************************)
EXTENDS Tickets

VARIABLES
    db,     \* the tickets
    audit   \* per ticket, the column the newest activity row of a service names

vars == <<db, audit>>

Exists(t) == db[t] \in Row

Init ==
    /\ db \in [Ticket -> FreshRows \cup {Unused}]
    /\ audit = [t \in Ticket |-> "none"]

\* The claimant takes t and gives back one ticket in progress if it has one.
Claim(u, t) ==
    /\ Exists(t)
    /\ db[t].assignee # u
    /\ CanClaim(u, db[t])
    /\ LET others == InProgressIn(db, u) \ {t}
       IN  \/ /\ others = {}
              /\ db' = [db EXCEPT ![t] = ClaimedRow(@, u)]
              /\ audit' = [audit EXCEPT ![t] = "inprogress-0"]
           \/ \E o \in others :
                /\ db' = [db EXCEPT ![t] = ClaimedRow(@, u), ![o] = ReleasedRow(@)]
                /\ audit' = [audit EXCEPT ![t] = "inprogress-0", ![o] = "todo-0"]

Move(u, t, s, force) ==
    /\ Exists(t)
    /\ ~db[t].archived
    /\ Status(db[t]) # s
    /\ CanMove(u, db[t])
    /\ IsValidTransition(u, db[t], force)
    /\ db' = [db EXCEPT ![t] = MovedRow(@, s)]
    /\ audit' = [audit EXCEPT ![t] = StatusToColumnID[s]]

Release(u, t) ==
    /\ Exists(t)
    /\ ~db[t].archived
    /\ db[t].assignee # NoUser
    /\ CanRelease(u, db[t])
    /\ db' = [db EXCEPT ![t] = ReleasedRow(@)]
    /\ audit' = [audit EXCEPT ![t] = "todo-0"]

\* An edit names the assignee, adds a comment or takes one away, and keeps
\* everything else as it is at that instant.
Edit(t) ==
    /\ Exists(t)
    /\ \/ \E a \in Assignee : db' = [db EXCEPT ![t].assignee = a]
       \/ \E c \in Comment : db' = [db EXCEPT ![t].comments = @ \cup {c}]
       \/ \E c \in Comment : db' = [db EXCEPT ![t].comments = @ \ {c}]
    /\ UNCHANGED audit

Archive(u, S) ==
    /\ Privileged(u)
    /\ \A t \in S : Exists(t)
    /\ db' = [t \in Ticket |-> IF t \in S THEN [db[t] EXCEPT !.archived = TRUE] ELSE db[t]]
    /\ UNCHANGED audit

Unarchive(u, t) ==
    /\ Privileged(u)
    /\ Exists(t)
    /\ db' = [db EXCEPT ![t].archived = FALSE]
    /\ UNCHANGED audit

\* An unarchive may also send the ticket to another place; readers may see
\* the ticket restored and not yet there.
Place(t) ==
    /\ Exists(t)
    /\ ~db[t].archived
    /\ \E c \in NewColumn \cup {db[t].column}, b \in Board :
         db' = [db EXCEPT ![t].column = c, ![t].board = b]
    /\ UNCHANGED audit

Create(t) ==
    /\ db[t] = Unused
    /\ \E row \in FreshRows : db' = [db EXCEPT ![t] = row]
    /\ UNCHANGED audit

Delete(t) ==
    /\ Exists(t)
    /\ db' = [db EXCEPT ![t] = Deleted]
    /\ UNCHANGED audit

Next ==
    \/ \E u \in User, t \in Ticket :
         \/ Claim(u, t)
         \/ \E s \in TargetStatus, force \in BOOLEAN : Move(u, t, s, force)
         \/ Release(u, t)
         \/ Unarchive(u, t)
    \/ \E u \in User, S \in SUBSET Ticket : Archive(u, S)
    \/ \E t \in Ticket : Edit(t) \/ Place(t) \/ Create(t) \/ Delete(t)

Spec == Init /\ [][Next]_vars
=============================================================================
