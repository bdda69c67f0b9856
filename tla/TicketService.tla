--------------------------- MODULE TicketService ---------------------------
(***************************************************************************)
(* The ticket table of a Goban server and every request that writes it.    *)
(*                                                                         *)
(* Claim, move and release (services/claim.go, move.go, release.go) each   *)
(* run in one store transaction: they read the row of the ticket (a claim  *)
(* also lists the caller's tickets in progress), decide, write whole rows  *)
(* back by primary key, append an activity row and commit.  They never     *)
(* take the handlers' mutex while the transaction is open.                 *)
(*                                                                         *)
(* The edit handlers (ticket PUT/PATCH, comments, subtasks, unarchive)     *)
(* read the row, change it in memory and write the WHOLE row back in a     *)
(* second store call; the mutex mu is held across both.  The MCP comment   *)
(* tool does the same without the mutex.  Archive, delete and create are   *)
(* single statements.                                                      *)
(*                                                                         *)
(* A request is a slot: it is idle, or it holds what the Go code holds in  *)
(* local variables between two store calls.  Slots are reused, so the      *)
(* state graph is finite without a bound on the number of requests.  A     *)
(* read that ends in an error reply changes nothing and is not a step.     *)
(***************************************************************************)
EXTENDS Tickets

CONSTANTS
    Request,       \* slots for requests that are being served
    Isolation,     \* "snapshot" (SQLite in WAL mode) or "readCommitted" (Postgres)
    Ops,           \* the kinds of requests that clients send
    Serves,        \* per slot, the tickets its requests are about
    NoTicket, NoRequest, NoRow

TxOps    == {"claim", "move", "release"}
EditOps  == {"edit", "assign", "comment", "uncomment"}
OtherOps == {"mcp_comment", "archive", "unarchive", "create", "mcp_create", "delete",
             "create_lost", "delete_lost"}
AllOps   == TxOps \cup EditOps \cup OtherOps

ASSUME IsolationAssumption == Isolation \in {"snapshot", "readCommitted"}

ASSUME OpsAssumption == Ops \subseteq AllOps

ASSUME ServesAssumption == Serves \in [Request -> SUBSET Ticket]

\* A slot marks the comment it adds with itself: one marker per slot tells a
\* comment that was lost from one that was kept.
ASSUME RequestAssumption == Request \subseteq Comment

ASSUME NamesAssumption ==
    /\ NoTicket \notin Ticket
    /\ NoRequest \notin Request
    /\ NoRow \notin Row

VARIABLES
    db,     \* the tickets table
    audit,  \* per ticket, the column that the newest activity row of a service
            \* names; a move logs a status, for which its column stands here
    req,    \* what each slot is doing
    stale,  \* open snapshot transactions that another commit has overtaken
    mu      \* the slot that holds handlers.mu, or NoRequest

vars == <<db, audit, req, stale, mu>>

(***************************************************************************)
(* The phases of a request:                                                *)
(*   list    a claim has read its ticket and will list the caller's others *)
(*   commit  a transaction has read all it needs and will write and commit *)
(*   write   an edit has read the row and will write it back               *)
(*   place   an unarchive has cleared the flag and will re-read the row    *)
(*   reply   the store call is over; the handler has the row new in memory *)
(*   reread  an MCP claim will read the ticket it released, to announce it *)
(***************************************************************************)
Phase == {"idle", "list", "commit", "write", "place", "reply", "reread"}

ReqState ==
    [pc: Phase, op: AllOps \cup {"none"}, user: Assignee, force: BOOLEAN,
     ticket: Ticket \cup {NoTicket}, seen: Row \cup {NoRow}, new: Row \cup {NoRow},
     other: Ticket \cup {NoTicket}, otherSeen: Row \cup {NoRow}]

IdleReq ==
    [pc |-> "idle", op |-> "none", user |-> NoUser, force |-> FALSE,
     ticket |-> NoTicket, seen |-> NoRow, new |-> NoRow,
     other |-> NoTicket, otherSeen |-> NoRow]

-----------------------------------------------------------------------------
(* Rows *)

Exists(t) == db[t] \in Row

InProgress(u) == InProgressIn(db, u)

\* UPDATE ... WHERE id = ?: a row that is gone stays gone.
Written(t, row) == IF Exists(t) THEN row ELSE db[t]

InTx(r) == req[r].pc \in {"list", "commit"}

\* A commit by slot r overtakes every other open snapshot transaction.
\* Mutant: the service reads the ticket from the store, not from its Tx.
OvertakenMutant(r) == {}
Overtaken(r) ==
    IF Isolation = "snapshot"
    THEN (stale \cup {q \in Request : InTx(q)}) \ {r}
    ELSE {}

\* SQLite refuses the first write of a transaction whose snapshot is no
\* longer the newest one; Postgres overwrites.
MayCommit(r) == r \notin stale

Idle(r) == req[r].pc = "idle"
Finish(r) == req' = [req EXCEPT ![r] = IdleReq]

\* What the handler still has in memory after the store calls: the row it
\* answers with and the ticket a claim released.
Replying(op, t, row, o) ==
    [IdleReq EXCEPT !.pc = "reply", !.op = op, !.ticket = t, !.new = row, !.other = o]

ReplyNext(r) ==
    req' = [req EXCEPT ![r] = Replying(req[r].op, req[r].ticket, req[r].new, req[r].other)]

-----------------------------------------------------------------------------
(* Services: one transaction per request *)

\* An early return: the ticket already is what the request asks for.
AlreadyDone(r, op, t) ==
    /\ Idle(r)
    /\ t \in Serves[r]
    /\ req' = [req EXCEPT ![r] = Replying(op, t, db[t], NoTicket)]
    /\ UNCHANGED <<db, audit, stale>>

\* The request has read the row of t and holds row new to install.  The
\* caller says whether the handler took mu first.
Read(r, op, u, t, force, pc, new) ==
    /\ Idle(r)
    /\ t \in Serves[r]
    /\ req' = [req EXCEPT ![r] =
         [IdleReq EXCEPT !.pc = pc, !.op = op, !.user = u, !.force = force,
                         !.ticket = t, !.seen = db[t], !.new = new]]
    /\ UNCHANGED <<db, audit, stale>>

\* services/claim.go, up to the permission check.
ClaimRead(r, u, t) ==
    /\ "claim" \in Ops
    /\ UNCHANGED mu
    /\ Exists(t)
    /\ \/ /\ db[t].assignee = u
          /\ AlreadyDone(r, "claim", t)
       \/ /\ db[t].assignee # u
          /\ CanClaim(u, db[t])
          /\ Read(r, "claim", u, t, FALSE, "list", ClaimedRow(db[t], u))

\* services/claim.go: the caller's tickets in progress.  The newest of them
\* will be released; creation times have one-second resolution, so any of
\* them may be the newest.  A snapshot transaction that was overtaken reads
\* an old list, which does not matter as it cannot commit any more.
\* Mutant: the loop over the existing tickets releases none of them.
ClaimListMutant(r) ==
    /\ req[r].pc = "list"
    /\ MayCommit(r)
    /\ req' = [req EXCEPT ![r].pc = "commit"]
    /\ UNCHANGED <<db, audit, stale, mu>>
ClaimList(r) ==
    /\ req[r].pc = "list"
    /\ MayCommit(r)
    /\ LET others == InProgress(req[r].user) \ {req[r].ticket}
       IN  \/ /\ others = {}
              /\ req' = [req EXCEPT ![r].pc = "commit"]
           \/ \E o \in others :
                 req' = [req EXCEPT ![r].pc = "commit", ![r].other = o,
                                    ![r].otherSeen = db[o]]
    /\ UNCHANGED <<db, audit, stale, mu>>

\* services/move.go: Move, up to the update.
\* Mutant: the archived flag is not looked at.
MoveReadMutant(r, u, t, s, force) ==
    /\ "move" \in Ops
    /\ UNCHANGED mu
    /\ Exists(t)
    /\ \/ /\ Status(db[t]) = s
          /\ AlreadyDone(r, "move", t)
       \/ /\ Status(db[t]) # s
          /\ CanMove(u, db[t])
          /\ IsValidTransition(u, db[t], force)
          /\ Read(r, "move", u, t, force, "commit", MovedRow(db[t], s))
MoveRead(r, u, t, s, force) ==
    /\ "move" \in Ops
    /\ UNCHANGED mu
    /\ Exists(t)
    /\ ~db[t].archived
    /\ \/ /\ Status(db[t]) = s
          /\ AlreadyDone(r, "move", t)
       \/ /\ Status(db[t]) # s
          /\ CanMove(u, db[t])
          /\ IsValidTransition(u, db[t], force)
          /\ Read(r, "move", u, t, force, "commit", MovedRow(db[t], s))

\* services/release.go: Release, up to the update.
ReleaseRead(r, u, t) ==
    /\ "release" \in Ops
    /\ UNCHANGED mu
    /\ Exists(t)
    /\ ~db[t].archived
    /\ \/ /\ db[t].assignee = NoUser
          /\ AlreadyDone(r, "release", t)
       \/ /\ db[t].assignee # NoUser
          /\ CanRelease(u, db[t])
          /\ Read(r, "release", u, t, FALSE, "commit", ReleasedRow(db[t]))

\* The table and the activity log after the transaction of slot r: its ticket
\* gets the new row, the ticket a claim releases the released row.  Both
\* writes become visible together; row locks held to the end of the
\* transaction make that true of Postgres as well.
\* Mutant: the released row is never written, only logged.
CommittedDbMutant(r) ==
    [db EXCEPT ![req[r].ticket] = Written(req[r].ticket, req[r].new)]
CommittedDb(r) ==
    [t \in Ticket |->
        CASE t = req[r].ticket -> Written(t, req[r].new)
          [] t # req[r].ticket /\ t = req[r].other -> Written(t, ReleasedRow(req[r].otherSeen))
          [] OTHER -> db[t]]

\* Mutant: the activity row names the column before the change.
CommittedAuditMutant(r) == [audit EXCEPT ![req[r].ticket] = req[r].seen.column]
CommittedAudit(r) ==
    [t \in Ticket |->
        CASE t = req[r].ticket -> req[r].new.column
          [] t # req[r].ticket /\ t = req[r].other -> "todo-0"
          [] OTHER -> audit[t]]

TxCommit(r) ==
    /\ req[r].pc = "commit"
    /\ MayCommit(r)
    /\ db' = CommittedDb(r)
    /\ audit' = CommittedAudit(r)
    /\ ReplyNext(r)
    /\ stale' = Overtaken(r)
    /\ UNCHANGED mu

\* The store call of a request fails: an overtaken snapshot, a deadlock
\* victim, a busy or broken database.  The transaction is rolled back, the
\* handler's deferred Unlock releases mu, the client gets an error.  (A call
\* that fails has had no effect: a connection lost during a COMMIT, after
\* which nobody knows, is left out.)
\* Mutant: the handler returns without unlocking.
FailMutant(r) ==
    /\ req[r].pc \in {"list", "commit", "write", "place"}
    /\ Finish(r)
    /\ stale' = stale \ {r}
    /\ UNCHANGED <<db, audit, mu>>
Fail(r) ==
    /\ req[r].pc \in {"list", "commit", "write", "place"}
    /\ Finish(r)
    /\ stale' = stale \ {r}
    /\ mu' = IF mu = r THEN NoRequest ELSE mu
    /\ UNCHANGED <<db, audit>>

\* The handler answers its client (BoardCache says what it does before that).
Reply(r) ==
    /\ req[r].pc = "reply"
    /\ Finish(r)
    /\ UNCHANGED <<db, audit, stale, mu>>

\* mcp/tools.go: claimTicket announces the claimed ticket, then reads the
\* released one from the store, without mu, and announces that.
McpReply(r) ==
    /\ req[r].pc = "reply"
    /\ req[r].other # NoTicket
    /\ req' = [req EXCEPT ![r] = [Replying("claim", req[r].other, NoRow, NoTicket)
                                     EXCEPT !.pc = "reread"]]
    /\ UNCHANGED <<db, audit, stale, mu>>

\* Nothing is announced when the row is gone or GetTicket fails.
McpReread(r) ==
    /\ req[r].pc = "reread"
    /\ LET o == req[r].ticket
       IN  \/ /\ Exists(o)
              /\ req' = [req EXCEPT ![r] = Replying("claim", o, db[o], NoTicket)]
           \/ Finish(r)
    /\ UNCHANGED <<db, audit, stale, mu>>
-----------------------------------------------------------------------------
(* Handlers: read the row, write the whole row back in a second call *)

MuFree == mu = NoRequest

\* handleUpdateTicket, handleDeleteComment and the subtask handlers: mu is
\* locked before the row is read.  "edit" stands for every
\* request that sets only fields the model leaves out (title, labels,
\* subtasks, ...), "assign" for a PUT that carries an assignee.  None of them
\* looks at the role, the assignee or the archived flag.
\* Mutant: the mutex is locked after the row was read.
EditReadMutant(r, u, t) ==
    /\ Exists(t)
    /\ \/ /\ "edit" \in Ops
          /\ Read(r, "edit", u, t, FALSE, "write", db[t])
       \/ /\ "uncomment" \in Ops
          /\ \E c \in db[t].comments : Read(r, "uncomment", u, t, FALSE, "write",
                                            [db[t] EXCEPT !.comments = @ \ {c}])
    /\ UNCHANGED mu
EditRead(r, u, t) ==
    /\ MuFree
    /\ Exists(t)
    /\ \/ /\ "edit" \in Ops
          /\ Read(r, "edit", u, t, FALSE, "write", db[t])
       \/ /\ "assign" \in Ops
          /\ \E a \in Assignee : Read(r, "assign", u, t, FALSE, "write",
                                     [db[t] EXCEPT !.assignee = a])
       \/ /\ "uncomment" \in Ops
          /\ \E c \in db[t].comments : Read(r, "uncomment", u, t, FALSE, "write",
                                            [db[t] EXCEPT !.comments = @ \ {c}])
    /\ mu' = r

\* handlers/comments.go handleAddComment, under mu, and mcp/tools.go addComment,
\* which reads and writes in the same way without mu.
CommentRead(r, u, t) ==
    \E op \in Ops \cap {"comment", "mcp_comment"} :
        /\ op = "comment" => MuFree
        /\ Exists(t)
        /\ Read(r, op, u, t, FALSE, "write", [db[t] EXCEPT !.comments = @ \cup {r}])
        /\ mu' = IF op = "comment" THEN r ELSE mu

\* UpdateTicket and the end of the handler.  An MCP call goes on to announce
\* the row; an edit handler has nothing left to do but unlock mu.
EditWrite(r) ==
    /\ req[r].pc = "write"
    /\ db' = [db EXCEPT ![req[r].ticket] = Written(req[r].ticket, req[r].new)]
    /\ IF req[r].op = "mcp_comment"
       THEN ReplyNext(r)
       ELSE Finish(r)
    /\ stale' = Overtaken(r)
    /\ mu' = IF mu = r THEN NoRequest ELSE mu
    /\ UNCHANGED audit

\* handlers/archive.go: UnarchiveTicket, whose flag is cleared by one
\* statement.  The request may name a board or a column for the ticket; it is
\* then re-read and written back in two more calls.  The ticket need not be
\* archived.
Unarchive(r, u, t) ==
    /\ "unarchive" \in Ops
    /\ Privileged(u)
    /\ Idle(r)
    /\ t \in Serves[r]
    /\ MuFree
    /\ Exists(t)
    /\ db' = [db EXCEPT ![t].archived = FALSE]
    /\ stale' = Overtaken(r)
    /\ UNCHANGED audit
    /\ \/ UNCHANGED <<req, mu>>
       \/ /\ req' = [req EXCEPT ![r] = [IdleReq EXCEPT !.pc = "place", !.op = "unarchive",
                                                       !.user = u, !.ticket = t]]
          /\ mu' = r

UnarchivePlace(r) ==
    /\ req[r].pc = "place"
    /\ LET t == req[r].ticket
       IN  /\ Exists(t)
           /\ \E c \in NewColumn \cup {db[t].column}, b \in Board :
                req' = [req EXCEPT ![r].pc = "write", ![r].seen = db[t],
                                   ![r].new = [db[t] EXCEPT !.column = c, !.board = b,
                                                            !.archived = FALSE]]
    /\ UNCHANGED <<db, audit, stale, mu>>

-----------------------------------------------------------------------------
(* Handlers: one statement *)

\* handlers/archive.go: SingleArchive and BulkArchive; one UPDATE archives all.
Archive(u, S) ==
    /\ "archive" \in Ops
    /\ Privileged(u)
    /\ MuFree
    /\ S # {}
    /\ \A t \in S : Exists(t)
    /\ db' = [t \in Ticket |-> IF t \in S THEN [db[t] EXCEPT !.archived = TRUE] ELSE db[t]]
    /\ stale' = Overtaken(NoRequest)
    /\ UNCHANGED <<audit, req, mu>>

\* handlers/tickets.go: handleCreateTicketSimple.
Create(t) ==
    /\ "create" \in Ops
    /\ MuFree
    /\ db[t] = Unused
    /\ \E row \in FreshRows : db' = [db EXCEPT ![t] = row]
    /\ stale' = Overtaken(NoRequest)
    /\ UNCHANGED <<audit, req, mu>>

\* mcp/tools.go: createTicket, which goes on to announce the new row.
McpCreate(r, u, t) ==
    /\ "mcp_create" \in Ops
    /\ Idle(r)
    /\ t \in Serves[r]
    /\ db[t] = Unused
    /\ \E c \in NewColumn, b \in Board :
         /\ db' = [db EXCEPT ![t] = FreshRow(c, NoUser, b)]
         /\ req' = [req EXCEPT ![r] = Replying("mcp_create", t, FreshRow(c, NoUser, b), NoTicket)]
    /\ stale' = Overtaken(r)
    /\ UNCHANGED <<audit, mu>>

\* handlers/tickets.go: handleDeleteTicket.
Delete(t) ==
    /\ "delete" \in Ops
    /\ MuFree
    /\ Exists(t)
    /\ db' = [db EXCEPT ![t] = Deleted]
    /\ stale' = Overtaken(NoRequest)
    /\ UNCHANGED <<audit, req, mu>>

\* The process stops at any point and is started again: open transactions are
\* rolled back, what the slots held is gone, the table stays.
Restart ==
    /\ req' = [r \in Request |-> IdleReq]
    /\ stale' = {}
    /\ mu' = NoRequest
    /\ UNCHANGED <<db, audit>>

-----------------------------------------------------------------------------
(* A database a server may be started on: tickets that were created, and no  *)
(* activity rows yet.                                                        *)
Init ==
    /\ db \in [Ticket -> FreshRows \cup {Unused}]
    /\ audit = [t \in Ticket |-> "none"]
    /\ req = [r \in Request |-> IdleReq]
    /\ stale = {}
    /\ mu = NoRequest

ServiceRead(r) ==
    \E u \in User, t \in Ticket :
        \/ ClaimRead(r, u, t)
        \/ \E s \in TargetStatus, f \in BOOLEAN : MoveRead(r, u, t, s, f)
        \/ ReleaseRead(r, u, t)

HandlerRead(r) ==
    \E u \in User, t \in Ticket :
        \/ EditRead(r, u, t)
        \/ CommentRead(r, u, t)

Next ==
    \/ \E r \in Request :
         \/ ServiceRead(r)
         \/ ClaimList(r)
         \/ TxCommit(r)
         \/ HandlerRead(r)
         \/ EditWrite(r)
         \/ \E u \in User, t \in Ticket : Unarchive(r, u, t) \/ McpCreate(r, u, t)
         \/ UnarchivePlace(r)
         \/ Fail(r)
         \/ Reply(r)
         \/ McpReply(r)
         \/ McpReread(r)
    \/ \E u \in User, S \in SUBSET Ticket : Archive(u, S)
    \/ \E t \in Ticket : Create(t) \/ Delete(t)
    \/ Restart

Spec == Init /\ [][Next]_vars
\* The promise of TicketBoard, about the same table and activity log.
Atomic == INSTANCE TicketBoard WITH db <- db, audit <- audit

AtomicSpec == Atomic!Spec
-----------------------------------------------------------------------------
(* Properties *)

\* Every variable has its type, a slot that is idle holds nothing, and only
\* open transactions can be overtaken.
TypeOK ==
    /\ db \in [Ticket -> Entry]
    /\ audit \in [Ticket -> Column \cup {"none"}]
    /\ req \in [Request -> ReqState]
    /\ stale \subseteq {r \in Request : InTx(r)}
    /\ mu \in Request \cup {NoRequest}

\* The step in which the transaction of slot r commits.
ServiceCommit(r) == req[r].pc = "commit" /\ req'[r].pc = "reply"

\* A transaction that commits overwrites exactly the rows it read: nothing
\* was committed to them between its read and its write (claim.go, move.go,
\* release.go over a store whose UpdateTicket has no version check).
CommitsOnCurrentRows ==
    [][\A r \in Request : ServiceCommit(r) =>
         /\ db[req[r].ticket] = req[r].seen
         /\ req[r].other # NoTicket => db[req[r].other] = req[r].otherSeen]_vars

\* What the row looked like when the caller's right was checked may be out of
\* date at the commit.  At the instant of the commit the caller still has the
\* right: a NORMAL_AI does not take, move or release a ticket that somebody
\* else holds by then (models/types.go CanClaim, CanRelease; move.go canMove).
PermittedAtCommit ==
    [][\A r \in Request : ServiceCommit(r) =>
         LET now == db[req[r].ticket]
         IN  /\ Exists(req[r].ticket)
             /\ Role[req[r].user] = "NORMAL_AI" =>
                  \/ req[r].op = "claim" /\ now.assignee \in {NoUser, req[r].user}
                  \/ req[r].op \in {"move", "release"} /\ now.assignee = req[r].user]_vars

\* NORMAL_AI callers cannot claim a ticket that another agent holds, also
\* when both claims run at the same time (claim.go:47).
NoSteal ==
    [][\A r \in Request :
         ServiceCommit(r) /\ req[r].op = "claim" /\ Role[req[r].user] = "NORMAL_AI"
         /\ Exists(req[r].ticket) =>
               db[req[r].ticket].assignee \in {NoUser, req[r].user}]_vars

\* A move never takes a ticket out of DONE or CANCELLED unless it carries
\* force or a HUMAN_ADMIN made it, judged by the status at the commit.
TerminalNeedsForce ==
    [][\A r \in Request :
         ServiceCommit(r) /\ req[r].op = "move" /\ ~req[r].force
         /\ Role[req[r].user] # "HUMAN_ADMIN" /\ Exists(req[r].ticket) =>
               Status(db[req[r].ticket]) \notin TERMINAL_STATUSES]_vars

\* A move or a release never changes a ticket that is archived when it
\* commits, even if it was archived after the service looked at the flag.
ArchivedIsNotMoved ==
    [][\A r \in Request :
         ServiceCommit(r) /\ req[r].op \in {"move", "release"} /\ Exists(req[r].ticket) =>
            ~db[req[r].ticket].archived]_vars

\* UpdateTicket writes every column of the row.  A claim, move or release
\* nevertheless changes nothing but column and assignee of the rows in the
\* table: no comment, archive flag or board set meanwhile is undone.
ServicesKeepTheRest ==
    [][\A r \in Request : ServiceCommit(r) =>
         \A t \in Ticket : Exists(t) =>
            /\ Exists(t)'
            /\ db'[t] = [db[t] EXCEPT !.column = db'[t].column,
                                     !.assignee = db'[t].assignee]]_vars

\* A claim takes for what it gives: the caller ends with one ticket in
\* progress, or with no more than before, and no ticket changes but the
\* claimed one and one the caller had in progress (claim.go, auto-release).
ClaimSwaps ==
    [][\A r \in Request : ServiceCommit(r) /\ req[r].op = "claim" =>
         LET u == req[r].user
             had == InProgress(u)
         IN  /\ Cardinality(InProgressIn(db', u)) <= IF had = {} THEN 1 ELSE Cardinality(had)
             /\ \A t \in Ticket \ {req[r].ticket} : db'[t] # db[t] => t \in had]_vars

\* As long as tickets reach the in-progress column only by claims, nobody ever
\* has two tickets in progress, however many claims run at the same time.
OneTicketInProgress == \A u \in User : Cardinality(InProgress(u)) <= 1

\* The newest activity row of a ticket that names a column names the column
\* the ticket is in: the log and the table are changed by the same commits.
AuditMatches ==
    \A t \in Ticket : Exists(t) /\ audit[t] # "none" => audit[t] = db[t].column

\* The step in which slot r writes back the row of an edit.
EditCommit(r) ==
    /\ req[r].pc = "write"
    /\ req'[r].pc \in {"idle", "reply"}
    /\ db' = [db EXCEPT ![req[r].ticket] = Written(req[r].ticket, req[r].new)]

\* A request that does not name a field leaves it alone: an edit of other
\* fields, a comment or a subtask never changes column, assignee or archive
\* flag of the ticket (tickets.go:92, "Partial update support to prevent
\* clearing unspecified fields").
UnnamedFieldsKept ==
    [][\A r \in Request :
         EditCommit(r) /\ req[r].op \in {"edit", "comment", "uncomment"} =>
            LET t == req[r].ticket
            IN  Exists(t) => db'[t] = [db[t] EXCEPT !.comments = db'[t].comments]]_vars

\* A stored comment disappears only by a request that deletes a comment or
\* the ticket.
CommentsKept ==
    [][\A t \in Ticket : Exists(t) /\ Exists(t)' =>
         \/ db[t].comments \subseteq db'[t].comments
         \/ \E r \in Request : EditCommit(r) /\ req[r].op = "uncomment"]_vars
=============================================================================
