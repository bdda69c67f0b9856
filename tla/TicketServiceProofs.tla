------------------------ MODULE TicketServiceProofs ------------------------
(***************************************************************************)
(* Proofs about TicketService, for every number of tickets, users, slots   *)
(* and boards.                                                             *)
(*                                                                         *)
(* Type correctness holds of every server.  What follows it says why       *)
(* claim, move and release are atomic over SQLite and assumes Isolation =  *)
(* "snapshot"; the runs over Postgres' isolation show that the assumption  *)
(* is needed.  The argument: a transaction that is open and not overtaken  *)
(* still sees the table as it is (Current), and what it holds was decided  *)
(* by the rules of its operation on the rows it saw (Decided).  Every step *)
(* that changes the table overtakes all other transactions, and an         *)
(* overtaken one cannot commit.                                            *)
(***************************************************************************)
EXTENDS TicketService, FiniteSetTheorems, TLAPS

-----------------------------------------------------------------------------
(* Rows *)

LEMMA RowsAreRows ==
    ASSUME NEW row \in Row, NEW u \in Assignee, NEW s \in VALID_STATUSES,
           NEW cs \in SUBSET Comment, NEW c \in Column, NEW b \in Board, NEW f \in BOOLEAN
    PROVE  /\ ClaimedRow(row, u) \in Row
           /\ ReleasedRow(row) \in Row
           /\ MovedRow(row, s) \in Row
           /\ [row EXCEPT !.assignee = u] \in Row
           /\ [row EXCEPT !.comments = cs] \in Row
           /\ [row EXCEPT !.archived = f] \in Row
           /\ [row EXCEPT !.column = c, !.board = b, !.archived = FALSE] \in Row
           /\ FreshRow(c, u, b) \in Row
<1>1. NoUser \in Assignee
  BY DEF Assignee
<1>2. StatusToColumnID[s] \in Column
  BY DEF VALID_STATUSES, StatusToColumnID, Column
<1>3. "inprogress-0" \in Column /\ "todo-0" \in Column
  BY DEF Column
<1> QED
  BY <1>1, <1>2, <1>3 DEF Row, ClaimedRow, ReleasedRow, MovedRow, FreshRow

\* Every entry that Init and the handlers put in the table is an entry.
LEMMA FreshRowsAreRows == FreshRows \subseteq Row
<1> SUFFICES ASSUME NEW c \in NewColumn, NEW a \in Assignee, NEW b \in Board
             PROVE  FreshRow(c, a, b) \in Row
  BY DEF FreshRows
<1>1. {} \in SUBSET Comment /\ c \in Column
  BY ColumnAssumption
<1> QED
  BY <1>1 DEF FreshRow, Row

-----------------------------------------------------------------------------
(* Steps that leave the table and the log alone *)

Quiet(r) ==
    ServiceRead(r) \/ HandlerRead(r) \/ ClaimList(r) \/ UnarchivePlace(r) \/ Fail(r)
      \/ Reply(r) \/ McpReply(r) \/ McpReread(r)

\* A first read is one of a single slot, whose next phase is the one it names.
LEMMA FirstReads ==
    ASSUME NEW r \in Request, ServiceRead(r) \/ HandlerRead(r)
    PROVE  \E op, u, t, new : \E f \in BOOLEAN, pc \in {"list", "commit", "write"} :
              Read(r, op, u, t, f, pc, new) \/ AlreadyDone(r, op, t)
<1> DEFINE Reads == \E op, u, t, new : \E f \in BOOLEAN, pc \in {"list", "commit", "write"} :
                       Read(r, op, u, t, f, pc, new) \/ AlreadyDone(r, op, t)
<1>1. ASSUME NEW op, NEW u, NEW t, NEW new, NEW f \in BOOLEAN,
             NEW pc \in {"list", "commit", "write"},
             Read(r, op, u, t, f, pc, new) \/ AlreadyDone(r, op, t)
      PROVE  Reads
  BY <1>1
<1> HIDE DEF Reads
<1>2. ASSUME NEW u \in User, NEW t \in Ticket, ClaimRead(r, u, t) PROVE Reads
  BY <1>1, <1>2 DEF ClaimRead
<1>3. ASSUME NEW u \in User, NEW t \in Ticket, NEW s \in TargetStatus, NEW f \in BOOLEAN,
             MoveRead(r, u, t, s, f)
      PROVE  Reads
  BY <1>1, <1>3 DEF MoveRead
<1>4. ASSUME NEW u \in User, NEW t \in Ticket, ReleaseRead(r, u, t) PROVE Reads
  BY <1>1, <1>4 DEF ReleaseRead
<1>5. ASSUME NEW u \in User, NEW t \in Ticket, EditRead(r, u, t) PROVE Reads
  BY <1>1, <1>5 DEF EditRead
<1>6. ASSUME NEW u \in User, NEW t \in Ticket, CommentRead(r, u, t) PROVE Reads
  BY <1>1, <1>6 DEF CommentRead
<1>7. Reads
  BY <1>2, <1>3, <1>4, <1>5, <1>6 DEF ServiceRead, HandlerRead
<1> QED
  BY <1>7 DEF Reads

LEMMA QuietSteps == ASSUME NEW r \in Request, Quiet(r) PROVE UNCHANGED <<db, audit>>
<1>1. ServiceRead(r) \/ HandlerRead(r) => UNCHANGED <<db, audit>>
  BY FirstReads DEF Read, AlreadyDone
<1>2. ClaimList(r) \/ UnarchivePlace(r) \/ Fail(r) => UNCHANGED <<db, audit>>
  BY DEF ClaimList, UnarchivePlace, Fail
<1>3. Reply(r) \/ McpReply(r) \/ McpReread(r) => UNCHANGED <<db, audit>>
  BY DEF Reply, McpReply, McpReread
<1> QED
  BY <1>1, <1>2, <1>3 DEF Quiet
-----------------------------------------------------------------------------
(* Type correctness *)

\* What the phase of a slot says of the names and rows it holds: TypeOK alone
\* does not say that a transaction has a row to write.
Pending(r) ==
    /\ req[r].pc \in {"list", "commit", "write"} => req[r].new \in Row
    /\ req[r].pc # "idle" => req[r].ticket \in Ticket
    /\ req[r].other # NoTicket => req[r].pc \in {"commit", "reply"}
    /\ req[r].pc = "commit" /\ req[r].other # NoTicket => req[r].otherSeen \in Row

TypeInv == TypeOK /\ \A r \in Request : Pending(r)

LEMMA InitTypeInv == Init => TypeInv
<1> SUFFICES ASSUME Init PROVE TypeInv
  OBVIOUS
<1>1. IdleReq \in ReqState
  BY DEF IdleReq, ReqState, Phase, AllOps, Assignee
<1>2. TypeOK
  BY <1>1, FreshRowsAreRows DEF Init, TypeOK, Entry, InTx
<1>3. \A r \in Request : Pending(r)
  BY DEF Init, Pending, IdleReq
<1> QED
  BY <1>2, <1>3 DEF TypeInv

\* A step that changes one slot keeps the invariant if the slot's new contents
\* satisfy it and the other variables do.
LEMMA SlotStep ==
    ASSUME TypeInv, NEW r \in Request, NEW q \in ReqState,
           req' = [req EXCEPT ![r] = q],
           q.pc \in {"list", "commit", "write"} => q.new \in Row,
           q.pc # "idle" => q.ticket \in Ticket,
           q.other # NoTicket => q.pc \in {"commit", "reply"},
           q.pc = "commit" /\ q.other # NoTicket => q.otherSeen \in Row,
           db' \in [Ticket -> Entry],
           audit' \in [Ticket -> Column \cup {"none"}],
           stale' \subseteq (stale \cup {p \in Request : InTx(p)}),
           r \in stale' => q.pc \in {"list", "commit"},
           mu' \in Request \cup {NoRequest}
    PROVE  TypeInv'
<1>1. req' \in [Request -> ReqState]
  BY DEF TypeInv, TypeOK
<1>2. \A p \in Request : req'[p] = IF p = r THEN q ELSE req[p]
  BY DEF TypeInv, TypeOK
<1>3. stale' \subseteq {p \in Request : InTx(p)'}
  BY <1>2 DEF TypeInv, TypeOK, InTx
<1>4. \A p \in Request : Pending(p)'
  BY <1>2 DEF TypeInv, Pending
<1> QED
  BY <1>1, <1>3, <1>4 DEF TypeInv, TypeOK

\* Records that slots hold are request states.
LEMMA SlotContents ==
    ASSUME NEW op \in AllOps, NEW u \in Assignee, NEW t \in Ticket, NEW f \in BOOLEAN,
           NEW pc \in Phase, NEW seen \in Row, NEW new \in Row \cup {NoRow},
           NEW o \in Ticket \cup {NoTicket}
    PROVE  /\ IdleReq \in ReqState
           /\ Replying(op, t, new, o) \in ReqState
           /\ [IdleReq EXCEPT !.pc = pc, !.op = op, !.user = u, !.force = f,
                              !.ticket = t, !.seen = seen, !.new = new] \in ReqState
<1>1. IdleReq \in ReqState
  BY DEF IdleReq, ReqState, Assignee, Phase
<1>2. Replying(op, t, new, o) \in ReqState
  <2>1. /\ "reply" \in Phase /\ op \in AllOps \cup {"none"}
        /\ t \in Ticket \cup {NoTicket} /\ new \in Row \cup {NoRow}
    BY DEF Phase
  <2> QED
    BY <1>1, <2>1 DEF Replying, ReqState
<1>3. [IdleReq EXCEPT !.pc = pc, !.op = op, !.user = u, !.force = f,
                      !.ticket = t, !.seen = seen, !.new = new] \in ReqState
  <2>1. /\ op \in AllOps \cup {"none"} /\ t \in Ticket \cup {NoTicket}
        /\ seen \in Row \cup {NoRow}
    OBVIOUS
  <2> QED
    BY <1>1, <2>1 DEF ReqState
<1> QED
  BY <1>1, <1>2, <1>3

\* The read of a transaction or of an edit, and the early return of a service.
LEMMA ReadStep ==
    ASSUME TypeInv, NEW r \in Request, NEW op \in AllOps, NEW u \in User,
           NEW t \in Ticket, NEW f \in BOOLEAN, NEW pc \in {"list", "commit", "write"},
           NEW new \in Row, Exists(t), Read(r, op, u, t, f, pc, new),
           mu' \in Request \cup {NoRequest}
    PROVE  TypeInv'
<1> DEFINE q == [IdleReq EXCEPT !.pc = pc, !.op = op, !.user = u, !.force = f,
                                !.ticket = t, !.seen = db[t], !.new = new]
<1>0. db[t] \in Row /\ u \in Assignee /\ pc \in Phase
  BY DEF Exists, Assignee, Phase
<1>1. q \in ReqState
  BY <1>0, SlotContents
<1>2. /\ q.pc = pc /\ q.ticket = t /\ q.new = new /\ q.other = NoTicket
  BY DEF IdleReq
<1>3. r \notin stale
  BY DEF Read, Idle, TypeInv, TypeOK, InTx
<1> QED
  BY <1>1, <1>2, <1>3, SlotStep DEF Read, TypeInv, TypeOK

LEMMA AlreadyDoneStep ==
    ASSUME TypeInv, NEW r \in Request, NEW op \in AllOps, NEW t \in Ticket,
           Exists(t), AlreadyDone(r, op, t), UNCHANGED mu
    PROVE  TypeInv'
<1> DEFINE q == Replying(op, t, db[t], NoTicket)
<1>1. q \in ReqState
  BY DEF Exists, Replying, IdleReq, ReqState, Phase, Assignee
<1>2. q.pc = "reply" /\ q.ticket = t /\ q.other = NoTicket
  BY DEF Replying, IdleReq
<1>3. r \notin stale
  BY DEF AlreadyDone, Idle, TypeInv, TypeOK, InTx
<1> QED
  BY <1>1, <1>2, <1>3, SlotStep DEF AlreadyDone, TypeInv, TypeOK

\* A step that leaves the slots alone and overtakes the open transactions.
LEMMA TableStep ==
    ASSUME TypeInv, UNCHANGED <<audit, req, mu>>,
           db' \in [Ticket -> Entry], stale' = Overtaken(NoRequest)
    PROVE  TypeInv'
  BY DEF TypeInv, TypeOK, Overtaken, Pending, InTx

LEMMA ServiceReadTypeInv ==
    ASSUME TypeInv, NEW r \in Request, ServiceRead(r)
    PROVE  TypeInv'
<1> PICK u \in User, t \in Ticket :
        \/ ClaimRead(r, u, t)
        \/ \E s \in TargetStatus, f \in BOOLEAN : MoveRead(r, u, t, s, f)
        \/ ReleaseRead(r, u, t)
  BY DEF ServiceRead
<1>0. mu' \in Request \cup {NoRequest} /\ {"claim", "move", "release"} \subseteq AllOps
  BY DEF ClaimRead, MoveRead, ReleaseRead, TypeInv, TypeOK, AllOps, TxOps
<1>1. CASE ClaimRead(r, u, t)
  <2>1. db[t] \in Row => ClaimedRow(db[t], u) \in Row
    BY DEF ClaimedRow, Row, Assignee, Column
  <2> QED
    BY <1>0, <1>1, <2>1, ReadStep, AlreadyDoneStep DEF ClaimRead, Exists
<1>2. ASSUME NEW s \in TargetStatus, NEW f \in BOOLEAN, MoveRead(r, u, t, s, f)
      PROVE  TypeInv'
  <2>1. db[t] \in Row => MovedRow(db[t], s) \in Row
    BY StatusAssumption DEF MovedRow, Row, StatusToColumnID, VALID_STATUSES, Column
  <2> QED
    BY <1>0, <1>2, <2>1, ReadStep, AlreadyDoneStep DEF MoveRead, Exists
<1>3. CASE ReleaseRead(r, u, t)
  <2>1. db[t] \in Row => ReleasedRow(db[t]) \in Row
    BY DEF ReleasedRow, Row, Assignee, Column
  <2> QED
    BY <1>0, <1>3, <2>1, ReadStep, AlreadyDoneStep DEF ReleaseRead, Exists
<1> QED
  BY <1>1, <1>2, <1>3

LEMMA HandlerReadTypeInv ==
    ASSUME TypeInv, NEW r \in Request, HandlerRead(r)
    PROVE  TypeInv'
<1> PICK u \in User, t \in Ticket : EditRead(r, u, t) \/ CommentRead(r, u, t)
  BY DEF HandlerRead
<1>0. mu' \in Request \cup {NoRequest} /\ EditOps \cup {"mcp_comment"} \subseteq AllOps
  BY DEF EditRead, CommentRead, TypeInv, TypeOK, AllOps, OtherOps
<1>1. Exists(t)
  BY DEF EditRead, CommentRead
<1>2. \A a \in Assignee : [db[t] EXCEPT !.assignee = a] \in Row
  BY <1>1 DEF Exists, Row
<1>3. [db[t] EXCEPT !.comments = @ \cup {r}] \in Row
  BY <1>1, RequestAssumption DEF Exists, Row
<1>4. \A c : [db[t] EXCEPT !.comments = @ \ {c}] \in Row
  BY <1>1 DEF Exists, Row
<1>5. CASE EditRead(r, u, t)
  BY <1>0, <1>1, <1>2, <1>3, <1>4, <1>5, ReadStep DEF EditRead, Exists, EditOps
<1>6. CASE CommentRead(r, u, t)
  BY <1>0, <1>1, <1>3, <1>6, ReadStep DEF CommentRead, EditOps
<1> QED
  BY <1>5, <1>6

\* What a transaction writes is an entry of the table.
LEMMA CommittedIsTyped ==
    ASSUME TypeInv, NEW r \in Request, req[r].pc = "commit"
    PROVE  /\ CommittedDb(r) \in [Ticket -> Entry]
           /\ CommittedAudit(r) \in [Ticket -> Column \cup {"none"}]
<1>1. req[r].new \in Row /\ req[r].ticket \in Ticket
  BY DEF TypeInv, Pending
<1>2. req[r].other # NoTicket => ReleasedRow(req[r].otherSeen) \in Row
  BY DEF TypeInv, Pending, ReleasedRow, Row, Column, Assignee
<1>3. NoTicket \notin Ticket
  BY NamesAssumption
<1>4. \A t \in Ticket : db[t] \in Entry /\ audit[t] \in Column \cup {"none"}
  BY DEF TypeInv, TypeOK
<1>5. \A t \in Ticket, row \in Row : Written(t, row) \in Entry
  BY <1>4 DEF Written, Entry
<1>6. CommittedDb(r) \in [Ticket -> Entry]
  BY <1>1, <1>2, <1>3, <1>4, <1>5 DEF CommittedDb
<1>7. req[r].new.column \in Column /\ "todo-0" \in Column
  BY <1>1 DEF Row, Column
<1>8. CommittedAudit(r) \in [Ticket -> Column \cup {"none"}]
  BY <1>4, <1>7 DEF CommittedAudit
<1> QED
  BY <1>6, <1>8

LEMMA NextTypeInv == TypeInv /\ [Next]_vars => TypeInv'
<1> SUFFICES ASSUME TypeInv, [Next]_vars PROVE TypeInv'
  OBVIOUS
<1>0. /\ req \in [Request -> ReqState]
      /\ db \in [Ticket -> Entry]
      /\ audit \in [Ticket -> Column \cup {"none"}]
      /\ stale \subseteq {p \in Request : InTx(p)}
      /\ mu \in Request \cup {NoRequest}
      /\ IdleReq \in ReqState
  BY SlotContents DEF TypeInv, TypeOK, IdleReq, ReqState, Phase, AllOps, Assignee
<1>i. /\ IdleReq.pc = "idle" /\ IdleReq.other = NoTicket
  BY DEF IdleReq
<1>o. \A r \in Request : Overtaken(r) \subseteq (stale \cup {p \in Request : InTx(p)}) \ {r}
  BY DEF Overtaken
<1>1. ASSUME NEW r \in Request, ServiceRead(r) PROVE TypeInv'
  BY <1>1, ServiceReadTypeInv
<1>2. ASSUME NEW r \in Request, HandlerRead(r) PROVE TypeInv'
  BY <1>2, HandlerReadTypeInv
<1>3. ASSUME NEW r \in Request, ClaimList(r) PROVE TypeInv'
  <2>1. CASE req' = [req EXCEPT ![r].pc = "commit"]
    <3> DEFINE q == [req[r] EXCEPT !.pc = "commit"]
    <3>1. q \in ReqState /\ q.pc = "commit"
      BY <1>0 DEF ReqState, Phase
    <3>2. q.new \in Row /\ q.ticket \in Ticket /\ q.other = NoTicket
      BY <1>0, <1>3 DEF TypeInv, Pending, ClaimList, ReqState
    <3> QED
      BY <1>0, <1>3, <2>1, <3>1, <3>2, SlotStep DEF ClaimList
  <2>2. ASSUME NEW o \in InProgress(req[r].user) \ {req[r].ticket},
               req' = [req EXCEPT ![r].pc = "commit", ![r].other = o, ![r].otherSeen = db[o]]
        PROVE  TypeInv'
    <3> DEFINE q == [req[r] EXCEPT !.pc = "commit", !.other = o, !.otherSeen = db[o]]
    <3>1. o \in Ticket /\ db[o] \in Row
      BY DEF InProgress, InProgressIn
    <3>2. q \in ReqState /\ q.pc = "commit" /\ q.otherSeen \in Row
      BY <1>0, <3>1 DEF ReqState, Phase
    <3>3. q.new \in Row /\ q.ticket \in Ticket
      BY <1>0, <1>3 DEF TypeInv, Pending, ClaimList, ReqState
    <3>4. req' = [req EXCEPT ![r] = q]
      BY <1>0, <2>2
    <3> QED
      BY <1>0, <1>3, <3>2, <3>3, <3>4, SlotStep DEF ClaimList
  <2> QED
    BY <1>3, <2>1, <2>2 DEF ClaimList
<1>4. ASSUME NEW r \in Request, NEW q \in ReqState, req' = [req EXCEPT ![r] = q],
             q.pc \in {"idle", "reply", "reread"}, q.pc # "idle" => q.ticket \in Ticket,
             q.other # NoTicket => q.pc = "reply",
             db' \in [Ticket -> Entry],
             audit' \in [Ticket -> Column \cup {"none"}],
             stale' \subseteq (stale \cup {p \in Request : InTx(p)}) \ {r},
             mu' \in Request \cup {NoRequest}
      PROVE  TypeInv'
  BY <1>4, SlotStep
<1>n. \A r \in Request :
        LET q == Replying(req[r].op, req[r].ticket, req[r].new, req[r].other)
        IN  /\ q \in ReqState
            /\ q.pc = "reply" /\ q.ticket = req[r].ticket
  BY <1>0 DEF Replying, IdleReq, ReqState, Phase, Assignee
<1>5. ASSUME NEW r \in Request, TxCommit(r) PROVE TypeInv'
  BY <1>0, <1>4, <1>5, <1>n, <1>o, CommittedIsTyped DEF TxCommit, ReplyNext, TypeInv, Pending
<1>6. ASSUME NEW r \in Request, EditWrite(r) PROVE TypeInv'
  <2>1. req[r].new \in Row /\ req[r].ticket \in Ticket
    BY <1>6 DEF TypeInv, Pending, EditWrite
  <2>2. db' \in [Ticket -> Entry]
    BY <1>0, <1>6, <2>1 DEF EditWrite, Written, Entry
  <2>3. mu' \in Request \cup {NoRequest} /\ audit' = audit
    BY <1>0, <1>6 DEF EditWrite
  <2> QED
    BY <1>0, <1>4, <1>6, <1>i, <1>n, <1>o, <2>1, <2>2, <2>3 DEF EditWrite, ReplyNext, Finish
<1>7. ASSUME NEW r \in Request, NEW u \in User, NEW t \in Ticket, Unarchive(r, u, t)
      PROVE  TypeInv'
  <2>1. db' \in [Ticket -> Entry] /\ audit' = audit
    BY <1>0, <1>7 DEF Unarchive, Exists, Entry, Row
  <2>2. r \notin stale
    BY <1>7 DEF Unarchive, Idle, TypeInv, TypeOK, InTx
  <2>3. CASE UNCHANGED <<req, mu>>
    BY <1>0, <1>7, <1>o, <2>1, <2>3 DEF Unarchive, TypeInv, TypeOK, Pending, InTx, Idle
  <2>4. CASE ~ UNCHANGED <<req, mu>>
    <3> DEFINE q == [IdleReq EXCEPT !.pc = "place", !.op = "unarchive", !.user = u, !.ticket = t]
    <3>1. q \in ReqState /\ q.pc = "place" /\ q.ticket = t /\ q.other = NoTicket
      BY DEF IdleReq, ReqState, Phase, AllOps, OtherOps, Assignee
    <3>2. req' = [req EXCEPT ![r] = q] /\ mu' = r
      BY <1>7, <2>4 DEF Unarchive
    <3>3. stale' = Overtaken(r)
      BY <1>7 DEF Unarchive
    <3> HIDE DEF q
    <3> QED
      BY <1>0, <1>o, <2>1, <2>2, <3>1, <3>2, <3>3, SlotStep
  <2> QED
    BY <2>3, <2>4
<1>8. ASSUME NEW r \in Request, NEW u \in User, NEW t \in Ticket, McpCreate(r, u, t)
      PROVE  TypeInv'
  <2> PICK c \in NewColumn, b \in Board :
        /\ db' = [db EXCEPT ![t] = FreshRow(c, NoUser, b)]
        /\ req' = [req EXCEPT ![r] = Replying("mcp_create", t, FreshRow(c, NoUser, b), NoTicket)]
    BY <1>8 DEF McpCreate
  <2>1. FreshRow(c, NoUser, b) \in Row
    BY ColumnAssumption DEF FreshRow, Row, Assignee
  <2> DEFINE q == Replying("mcp_create", t, FreshRow(c, NoUser, b), NoTicket)
  <2>2. q \in ReqState /\ q.pc = "reply" /\ q.ticket = t /\ q.other = NoTicket
    BY <2>1 DEF Replying, IdleReq, ReqState, Phase, Assignee, AllOps, OtherOps
  <2>3. db' \in [Ticket -> Entry]
    BY <1>0, <2>1 DEF Entry
  <2>4. /\ req' = [req EXCEPT ![r] = q]
        /\ audit' = audit /\ mu' = mu /\ stale' = Overtaken(r)
    BY <1>8 DEF McpCreate
  <2> HIDE DEF q
  <2> QED
    BY <1>0, <1>4, <1>o, <2>2, <2>3, <2>4
<1>9. ASSUME NEW r \in Request, UnarchivePlace(r) PROVE TypeInv'
  <2>1. PICK c \in NewColumn \cup {db[req[r].ticket].column}, b \in Board :
          req' = [req EXCEPT ![r].pc = "write", ![r].seen = db[req[r].ticket],
                     ![r].new = [db[req[r].ticket] EXCEPT !.column = c, !.board = b,
                                                          !.archived = FALSE]]
    BY <1>9 DEF UnarchivePlace
  <2> DEFINE t == req[r].ticket
             new == [db[t] EXCEPT !.column = c, !.board = b, !.archived = FALSE]
             q == [req[r] EXCEPT !.pc = "write", !.seen = db[t], !.new = new]
  <2>2. t \in Ticket /\ db[t] \in Row /\ req[r].other = NoTicket
    BY <1>9 DEF UnarchivePlace, Exists, TypeInv, Pending
  <2>3. c \in Column
    BY <2>2, ColumnAssumption DEF Row
  <2>4. new \in Row
    BY <2>2, <2>3 DEF Row
  <2> HIDE DEF new
  <2>5. q \in ReqState /\ q.pc = "write" /\ q.new = new /\ q.ticket = t /\ q.other = NoTicket
    <3>1. req[r] \in ReqState /\ "write" \in Phase
      BY <1>0 DEF Phase
    <3> QED
      BY <2>2, <2>4, <3>1 DEF ReqState
  <2> USE DEF new
  <2>6. req' = [req EXCEPT ![r] = q]
    BY <1>0, <2>1
  <2>7. r \notin stale
    BY <1>0, <1>9 DEF UnarchivePlace, InTx
  <2>8. UNCHANGED <<db, audit, stale, mu>>
    BY <1>9 DEF UnarchivePlace
  <2> HIDE DEF q, new
  <2> QED
    BY <1>0, <2>2, <2>4, <2>5, <2>6, <2>7, <2>8, SlotStep
<1>10. ASSUME NEW r \in Request, Fail(r) PROVE TypeInv'
  BY <1>0, <1>4, <1>10, <1>i DEF Fail, Finish
<1>11. ASSUME NEW r \in Request, Reply(r) PROVE TypeInv'
  BY <1>0, <1>4, <1>11, <1>i DEF Reply, Finish, InTx
<1>12. ASSUME NEW r \in Request, McpReply(r) PROVE TypeInv'
  <2> DEFINE q == [Replying("claim", req[r].other, NoRow, NoTicket) EXCEPT !.pc = "reread"]
  <2>1. req[r].other \in Ticket
    BY <1>0, <1>12 DEF McpReply, ReqState
  <2>2. q \in ReqState /\ q.pc = "reread" /\ q.ticket = req[r].other /\ q.other = NoTicket
    BY <2>1 DEF Replying, IdleReq, ReqState, Phase, Assignee, AllOps, TxOps
  <2> QED
    BY <1>0, <1>4, <1>12, <2>1, <2>2 DEF McpReply, InTx
<1>13. ASSUME NEW r \in Request, McpReread(r) PROVE TypeInv'
  <2>1. CASE Finish(r)
    BY <1>0, <1>4, <1>13, <1>i, <2>1 DEF McpReread, Finish, InTx
  <2>2. CASE ~Finish(r)
    <3> DEFINE q == Replying("claim", req[r].ticket, db[req[r].ticket], NoTicket)
    <3>1. req[r].ticket \in Ticket /\ Exists(req[r].ticket)
      BY <1>13, <2>2 DEF McpReread, TypeInv, Pending
    <3>2. q \in ReqState /\ q.pc = "reply" /\ q.ticket = req[r].ticket /\ q.other = NoTicket
      BY <3>1 DEF Exists, Replying, IdleReq, ReqState, Phase, Assignee, AllOps, TxOps
    <3>3. /\ req[r].pc = "reread" /\ UNCHANGED <<db, audit, stale, mu>>
          /\ req' = [req EXCEPT ![r] = q]
      BY <1>13, <2>2 DEF McpReread
    <3> QED
      BY <1>0, <1>4, <3>1, <3>2, <3>3 DEF InTx
  <2> QED
    BY <2>1, <2>2
<1>14. ASSUME NEW u \in User, NEW S \in SUBSET Ticket, Archive(u, S) PROVE TypeInv'
  <2>1. db' \in [Ticket -> Entry]
    BY <1>0, <1>14 DEF Archive, Exists, Entry, Row
  <2> QED
    BY <1>14, <2>1, TableStep DEF Archive
<1>15. ASSUME NEW t \in Ticket, Create(t) PROVE TypeInv'
  <2>1. db' \in [Ticket -> Entry]
    BY <1>0, <1>15, FreshRowsAreRows DEF Create, Entry
  <2> QED
    BY <1>15, <2>1, TableStep DEF Create
<1>16. ASSUME NEW t \in Ticket, Delete(t) PROVE TypeInv'
  <2>1. db' \in [Ticket -> Entry]
    BY <1>0, <1>16 DEF Delete, Entry
  <2> QED
    BY <1>16, <2>1, TableStep DEF Delete
<1>17. CASE Restart
  BY <1>0, <1>i, <1>17 DEF Restart, TypeInv, TypeOK, Pending
<1>18. CASE UNCHANGED vars
  BY <1>18 DEF vars, TypeInv, TypeOK, Pending, InTx
<1> QED
  BY <1>1, <1>2, <1>3, <1>5, <1>6, <1>7, <1>8, <1>9, <1>10, <1>11, <1>12, <1>13,
     <1>14, <1>15, <1>16, <1>17, <1>18 DEF Next

\* Every variable has its type in every state of the server, whatever the
\* requests, their interleaving, their failures and the restarts.
THEOREM TypeCorrect == Spec => []TypeOK
<1>1. Spec => []TypeInv
  BY InitTypeInv, NextTypeInv, PTL DEF Spec
<1> QED
  BY <1>1, PTL DEF TypeInv
-----------------------------------------------------------------------------
(* Transactions *)

\* The decision of slot r, on the row it has seen.
Decided(r) ==
    LET q == req[r]
    IN  /\ q.user \in User
        /\ q.seen \in Row
        /\ \/ /\ q.op = "claim"
              /\ q.seen.assignee # q.user
              /\ CanClaim(q.user, q.seen)
              /\ q.new = ClaimedRow(q.seen, q.user)
           \/ /\ q.op = "move"
              /\ q.other = NoTicket
              /\ ~q.seen.archived
              /\ CanMove(q.user, q.seen)
              /\ IsValidTransition(q.user, q.seen, q.force)
              /\ \E s \in TargetStatus : Status(q.seen) # s /\ q.new = MovedRow(q.seen, s)
           \/ /\ q.op = "release"
              /\ q.other = NoTicket
              /\ ~q.seen.archived
              /\ q.seen.assignee # NoUser
              /\ CanRelease(q.user, q.seen)
              /\ q.new = ReleasedRow(q.seen)
        /\ q.pc = "list" => q.op = "claim" /\ q.other = NoTicket

\* What slot r has read is what the table holds.
Current(r) ==
    LET q == req[r]
        others == InProgress(q.user) \ {q.ticket}
    IN  /\ db[q.ticket] = q.seen
        /\ q.other # NoTicket => q.other \in others /\ db[q.other] = q.otherSeen
        /\ q.op = "claim" /\ q.pc = "commit" /\ q.other = NoTicket => others = {}

TxInv == \A r \in Request : InTx(r) => Decided(r) /\ (MayCommit(r) => Current(r))

LEMMA InitTxInv == Init => TxInv
  BY DEF Init, TxInv, InTx, IdleReq

\* A step of slot r that does not touch the table.
LEMMA QuietStep ==
    ASSUME TxInv, req \in [Request -> ReqState],
           NEW r \in Request, NEW q, req' = [req EXCEPT ![r] = q],
           UNCHANGED db, stale \ {r} \subseteq stale',
           InTx(r)' => Decided(r)' /\ (MayCommit(r)' => Current(r)')
    PROVE  TxInv'
<1> SUFFICES ASSUME NEW p \in Request, p # r, InTx(p)'
             PROVE  Decided(p)' /\ (MayCommit(p)' => Current(p)')
  BY DEF TxInv
<1>1. req'[p] = req[p]
  OBVIOUS
<1>2. InTx(p) /\ (MayCommit(p)' => MayCommit(p))
  BY <1>1 DEF InTx, MayCommit
<1>3. Decided(p)'
  BY <1>1, <1>2 DEF TxInv, Decided
<1>4. Current(p) => Current(p)'
  BY <1>1 DEF Current, InProgress, InProgressIn
<1> QED
  BY <1>2, <1>3, <1>4 DEF TxInv

\* A step that changes the table: no transaction but that of slot r goes on
\* as if nothing had happened.
LEMMA TableStepTxInv ==
    ASSUME Isolation = "snapshot", TxInv, req \in [Request -> ReqState],
           NEW r, stale' = Overtaken(r),
           \A p \in Request : p # r => req'[p] = req[p],
           r \in Request => ~InTx(r)'
    PROVE  TxInv'
<1> SUFFICES ASSUME NEW p \in Request, InTx(p)'
             PROVE  Decided(p)' /\ (MayCommit(p)' => Current(p)')
  BY DEF TxInv
<1>1. p # r /\ req'[p] = req[p]
  OBVIOUS
<1>2. InTx(p) /\ p \in stale'
  BY <1>1 DEF InTx, Overtaken
<1>3. Decided(p)'
  BY <1>1, <1>2 DEF TxInv, Decided
<1> QED
  BY <1>2, <1>3 DEF MayCommit

\* The fields of a slot after a read.
LEMMA AfterRead ==
    ASSUME req \in [Request -> ReqState], NEW r \in Request, NEW op, NEW u, NEW t,
           NEW f \in BOOLEAN, NEW pc, NEW new, Read(r, op, u, t, f, pc, new)
    PROVE  /\ req'[r].pc = pc /\ req'[r].op = op /\ req'[r].user = u
           /\ req'[r].force = f /\ req'[r].ticket = t /\ req'[r].seen = db[t]
           /\ req'[r].new = new /\ req'[r].other = NoTicket
           /\ \E q : req' = [req EXCEPT ![r] = q]
           /\ UNCHANGED <<db, stale>>
  BY DEF Read, IdleReq

LEMMA ServiceReadTxInv ==
    ASSUME TypeInv, TxInv, NEW r \in Request, ServiceRead(r)
    PROVE  TxInv'
<1>0. req \in [Request -> ReqState]
  BY DEF TypeInv, TypeOK
<1> PICK u \in User, t \in Ticket :
        \/ ClaimRead(r, u, t)
        \/ \E s \in TargetStatus, f \in BOOLEAN : MoveRead(r, u, t, s, f)
        \/ ReleaseRead(r, u, t)
  BY DEF ServiceRead
<1>1. ASSUME NEW op, AlreadyDone(r, op, t) PROVE TxInv'
  <2>1. req'[r].pc = "reply"
    BY <1>0, <1>1 DEF AlreadyDone, Replying, IdleReq
  <2> QED
    BY <1>0, <1>1, <2>1, QuietStep DEF AlreadyDone, InTx
<1>2. ASSUME NEW op, NEW f \in BOOLEAN, NEW pc, NEW new, Read(r, op, u, t, f, pc, new),
             Decided(r)', op = "claim" => pc = "list"
      PROVE  TxInv'
  <2>1. Current(r)'
    BY <1>0, <1>2, AfterRead DEF Current
  <2> QED
    BY <1>0, <1>2, <2>1, AfterRead, QuietStep
<1>3. CASE ClaimRead(r, u, t)
  <2>1. ASSUME NEW f \in BOOLEAN, db[t].assignee # u, CanClaim(u, db[t]),
               Read(r, "claim", u, t, f, "list", ClaimedRow(db[t], u))
        PROVE  TxInv'
    <3>1. Decided(r)'
      BY <1>0, <1>3, <2>1, AfterRead DEF ClaimRead, Decided, Exists
    <3> QED
      BY <1>2, <2>1, <3>1
  <2> QED
    BY <1>1, <1>3, <2>1 DEF ClaimRead
<1>4. ASSUME NEW s \in TargetStatus, NEW f \in BOOLEAN, MoveRead(r, u, t, s, f)
      PROVE  TxInv'
  <2>1. ASSUME Status(db[t]) # s, CanMove(u, db[t]), IsValidTransition(u, db[t], f),
               Read(r, "move", u, t, f, "commit", MovedRow(db[t], s))
        PROVE  TxInv'
    <3>1. Decided(r)'
      BY <1>0, <1>4, <2>1, AfterRead DEF MoveRead, Decided, Exists
    <3> QED
      BY <1>2, <2>1, <3>1
  <2> QED
    BY <1>1, <1>4, <2>1 DEF MoveRead
<1>5. CASE ReleaseRead(r, u, t)
  <2>1. ASSUME NEW f \in BOOLEAN, db[t].assignee # NoUser, CanRelease(u, db[t]),
               Read(r, "release", u, t, f, "commit", ReleasedRow(db[t]))
        PROVE  TxInv'
    <3>1. Decided(r)'
      BY <1>0, <1>5, <2>1, AfterRead DEF ReleaseRead, Decided, Exists
    <3> QED
      BY <1>2, <2>1, <3>1
  <2> QED
    BY <1>1, <1>5, <2>1 DEF ReleaseRead
<1> QED
  BY <1>3, <1>4, <1>5

\* The list of a claim that has not been overtaken is the list of that moment.
LEMMA ClaimListTxInv ==
    ASSUME TypeInv, TxInv, NEW r \in Request, ClaimList(r)
    PROVE  TxInv'
<1>0. req \in [Request -> ReqState] /\ req[r].other = NoTicket
  BY DEF TypeInv, TypeOK, Pending, ClaimList
<1>1. InTx(r) /\ Decided(r) /\ Current(r) /\ req[r].op = "claim"
  BY DEF ClaimList, InTx, TxInv, Decided
<1> DEFINE others == InProgress(req[r].user) \ {req[r].ticket}
<1>2. others \subseteq Ticket /\ NoTicket \notin Ticket
  BY NamesAssumption DEF InProgress, InProgressIn
<1>3. UNCHANGED <<db, stale>>
  BY DEF ClaimList
<1>4. CASE others = {} /\ req' = [req EXCEPT ![r].pc = "commit"]
  <2> DEFINE q == [req[r] EXCEPT !.pc = "commit"]
  <2>1. req' = [req EXCEPT ![r] = q] /\ req'[r] = q
    BY <1>0, <1>4
  <2>2. /\ q.pc = "commit" /\ q.op = req[r].op /\ q.user = req[r].user
        /\ q.ticket = req[r].ticket /\ q.seen = req[r].seen /\ q.new = req[r].new
        /\ q.other = NoTicket
    BY <1>0 DEF ReqState
  <2> HIDE DEF q
  <2>3. Decided(r)'
    BY <1>1, <2>1, <2>2 DEF Decided
  <2>4. Current(r)'
    BY <1>1, <1>3, <1>4, <2>1, <2>2 DEF Current, InProgress, InProgressIn
  <2> QED
    BY <1>0, <1>3, <2>1, <2>3, <2>4, QuietStep
<1>5. ASSUME NEW o \in others,
             req' = [req EXCEPT ![r].pc = "commit", ![r].other = o, ![r].otherSeen = db[o]]
      PROVE  TxInv'
  <2> DEFINE q == [req[r] EXCEPT !.pc = "commit", !.other = o, !.otherSeen = db[o]]
  <2>1. req' = [req EXCEPT ![r] = q] /\ req'[r] = q
    BY <1>0, <1>5
  <2>2. /\ q.pc = "commit" /\ q.op = req[r].op /\ q.user = req[r].user
        /\ q.ticket = req[r].ticket /\ q.seen = req[r].seen /\ q.new = req[r].new
        /\ q.other = o /\ q.otherSeen = db[o]
    BY <1>0 DEF ReqState
  <2> HIDE DEF q
  <2>3. Decided(r)'
    BY <1>1, <2>1, <2>2 DEF Decided
  <2>4. Current(r)'
    BY <1>1, <1>2, <1>3, <1>5, <2>1, <2>2 DEF Current, InProgress, InProgressIn
  <2> QED
    BY <1>0, <1>3, <2>1, <2>3, <2>4, QuietStep
<1> QED
  BY <1>4, <1>5 DEF ClaimList

LEMMA NextTxInv ==
    ASSUME Isolation = "snapshot"
    PROVE  TypeInv /\ TxInv /\ [Next]_vars => TxInv'
<1> SUFFICES ASSUME TypeInv, TxInv, [Next]_vars PROVE TxInv'
  OBVIOUS
<1>0. req \in [Request -> ReqState] /\ stale \subseteq {p \in Request : InTx(p)}
  BY DEF TypeInv, TypeOK
<1>q. ASSUME NEW r \in Request, NEW q, req' = [req EXCEPT ![r] = q],
             q.pc \notin {"list", "commit"}, UNCHANGED db, stale \ {r} \subseteq stale'
      PROVE  TxInv'
  BY <1>0, <1>q, QuietStep DEF InTx
<1>t. ASSUME NEW r \in Request, NEW q, req' = [req EXCEPT ![r] = q],
             q.pc \notin {"list", "commit"}, stale' = Overtaken(r)
      PROVE  TxInv'
  BY <1>0, <1>t, TableStepTxInv DEF InTx
<1>n. ASSUME UNCHANGED req, stale' = Overtaken(NoRequest) PROVE TxInv'
  BY <1>0, <1>n, TableStepTxInv, NamesAssumption
<1>i. IdleReq.pc = "idle"
  BY DEF IdleReq
<1>p. \A op, t, row, o : Replying(op, t, row, o).pc = "reply"
  BY DEF Replying, IdleReq
<1>1. ASSUME NEW r \in Request, ServiceRead(r) PROVE TxInv'
  BY <1>1, ServiceReadTxInv
<1>2. ASSUME NEW r \in Request, HandlerRead(r) PROVE TxInv'
  <2>1. ASSUME NEW op, NEW u, NEW t, NEW f \in BOOLEAN, NEW new,
               Read(r, op, u, t, f, "write", new)
        PROVE  TxInv'
    <3>1. req'[r].pc = "write" /\ UNCHANGED <<db, stale>>
      BY <1>0, <2>1, AfterRead
    <3>2. PICK q : req' = [req EXCEPT ![r] = q]
      BY <1>0, <2>1, AfterRead
    <3>3. q.pc = "write"
      BY <1>0, <3>1, <3>2
    <3> QED
      BY <1>q, <3>1, <3>2, <3>3
  <2> QED
    BY <1>2, <2>1 DEF HandlerRead, EditRead, CommentRead
<1>3. ASSUME NEW r \in Request, ClaimList(r) PROVE TxInv'
  BY <1>3, ClaimListTxInv
<1>4. ASSUME NEW r \in Request, TxCommit(r) PROVE TxInv'
  BY <1>4, <1>p, <1>t DEF TxCommit, ReplyNext
<1>5. ASSUME NEW r \in Request, EditWrite(r) PROVE TxInv'
  BY <1>5, <1>i, <1>p, <1>t DEF EditWrite, ReplyNext, Finish
<1>6. ASSUME NEW r \in Request, NEW u \in User, NEW t \in Ticket, Unarchive(r, u, t)
      PROVE  TxInv'
  <2>1. CASE UNCHANGED req
    BY <1>0, <1>6, <2>1, TableStepTxInv DEF Unarchive, Idle, InTx
  <2> DEFINE q == [IdleReq EXCEPT !.pc = "place", !.op = "unarchive", !.user = u, !.ticket = t]
  <2>2. CASE req' = [req EXCEPT ![r] = q]
    <3>1. q.pc = "place"
      BY DEF IdleReq
    <3>2. stale' = Overtaken(r)
      BY <1>6 DEF Unarchive
    <3> HIDE DEF q
    <3> QED
      BY <1>t, <2>2, <3>1, <3>2
  <2> QED
    BY <1>6, <2>1, <2>2 DEF Unarchive
<1>7. ASSUME NEW r \in Request, NEW u \in User, NEW t \in Ticket, McpCreate(r, u, t)
      PROVE  TxInv'
  BY <1>7, <1>p, <1>t DEF McpCreate
<1>8. ASSUME NEW r \in Request, UnarchivePlace(r) PROVE TxInv'
  <2>1. PICK s, n : req' = [req EXCEPT ![r].pc = "write", ![r].seen = s, ![r].new = n]
    BY <1>8 DEF UnarchivePlace
  <2> DEFINE q == [req[r] EXCEPT !.pc = "write", !.seen = s, !.new = n]
  <2>2. req' = [req EXCEPT ![r] = q] /\ q.pc = "write"
    BY <1>0, <2>1 DEF ReqState
  <2>3. UNCHANGED <<db, stale>>
    BY <1>8 DEF UnarchivePlace
  <2> HIDE DEF q
  <2> QED
    BY <1>q, <2>2, <2>3
<1>9. ASSUME NEW r \in Request, Fail(r) PROVE TxInv'
  BY <1>9, <1>i, <1>q DEF Fail, Finish
<1>10. ASSUME NEW r \in Request, Reply(r) PROVE TxInv'
  BY <1>10, <1>i, <1>q DEF Reply, Finish
<1>11. ASSUME NEW r \in Request, McpReply(r) PROVE TxInv'
  <2> DEFINE q == [Replying("claim", req[r].other, NoRow, NoTicket) EXCEPT !.pc = "reread"]
  <2>1. q.pc = "reread"
    BY DEF Replying, IdleReq
  <2>2. req' = [req EXCEPT ![r] = q] /\ UNCHANGED <<db, stale>>
    BY <1>11 DEF McpReply
  <2> HIDE DEF q
  <2> QED
    BY <1>q, <2>1, <2>2
<1>12. ASSUME NEW r \in Request, McpReread(r) PROVE TxInv'
  BY <1>12, <1>i, <1>p, <1>q DEF McpReread, Finish
<1>13. ASSUME NEW u \in User, NEW S \in SUBSET Ticket, Archive(u, S) PROVE TxInv'
  BY <1>13, <1>n DEF Archive
<1>14. ASSUME NEW t \in Ticket, Create(t) \/ Delete(t) PROVE TxInv'
  BY <1>14, <1>n DEF Create, Delete
<1>15. CASE Restart
  BY <1>15, <1>i DEF Restart, TxInv, InTx
<1>16. CASE UNCHANGED vars
  BY <1>16 DEF vars, TxInv, InTx, MayCommit, Decided, Current, InProgress, InProgressIn
<1> QED
  BY <1>1, <1>2, <1>3, <1>4, <1>5, <1>6, <1>7, <1>8, <1>9, <1>10, <1>11, <1>12, <1>13,
     <1>14, <1>15, <1>16 DEF Next

\* Both invariants, and the type of the table, in every state.
LEMMA AlwaysTxInv ==
    ASSUME Isolation = "snapshot"
    PROVE  Spec => [](TypeInv /\ TxInv)
<1>1. TypeInv /\ TxInv /\ [Next]_vars => (TypeInv /\ TxInv)'
  BY NextTypeInv, NextTxInv
<1> QED
  BY <1>1, InitTypeInv, InitTxInv, PTL DEF Spec
-----------------------------------------------------------------------------
(* What a commit may rely on *)

\* A step in which slot r goes from commit to reply is its own commit.
LEMMA OnlyTxCommitCommits ==
    ASSUME TypeInv, [Next]_vars, NEW r \in Request, ServiceCommit(r)
    PROVE  TxCommit(r)
<1>0. req \in [Request -> ReqState] /\ req[r].pc = "commit" /\ req'[r].pc = "reply"
  BY DEF TypeInv, TypeOK, ServiceCommit
<1>1. ASSUME NEW p \in Request, NEW q, req' = [req EXCEPT ![p] = q],
             p = r => req[p].pc # "commit" \/ q.pc # "reply"
      PROVE  FALSE
  BY <1>0, <1>1
<1>2. ASSUME NEW p \in Request, Idle(p), NEW q, req' = [req EXCEPT ![p] = q] PROVE FALSE
  BY <1>0, <1>1, <1>2 DEF Idle
<1>i. IdleReq.pc = "idle"
  BY DEF IdleReq
<1>3. ASSUME NEW p \in Request, ServiceRead(p) \/ HandlerRead(p) PROVE FALSE
  <2>1. PICK op, u, t, new :
          \E f \in BOOLEAN, pc \in {"list", "commit", "write"} :
             Read(p, op, u, t, f, pc, new) \/ AlreadyDone(p, op, t)
    BY <1>3, FirstReads
  <2> QED
    BY <1>2, <2>1 DEF Read, AlreadyDone
<1>4. ASSUME NEW p \in Request, ClaimList(p) PROVE FALSE
  <2>1. req[p].pc = "list" /\ \A x \in Request \ {p} : req'[x] = req[x]
    BY <1>0, <1>4 DEF ClaimList
  <2> QED
    BY <1>0, <2>1
<1>5. ASSUME NEW p \in Request, TxCommit(p) PROVE p = r
  BY <1>0, <1>1, <1>5 DEF TxCommit, ReplyNext
<1>6. ASSUME NEW p \in Request, EditWrite(p) PROVE FALSE
  BY <1>0, <1>1, <1>6 DEF EditWrite, ReplyNext, Finish
<1>7. ASSUME NEW p \in Request, NEW u, NEW t, Unarchive(p, u, t) \/ McpCreate(p, u, t)
      PROVE  FALSE
  BY <1>0, <1>2, <1>7 DEF Unarchive, McpCreate
<1>8. ASSUME NEW p \in Request, UnarchivePlace(p) PROVE FALSE
  <2>1. req[p].pc = "place" /\ \A x \in Request \ {p} : req'[x] = req[x]
    BY <1>0, <1>8 DEF UnarchivePlace
  <2> QED
    BY <1>0, <2>1
<1>9. ASSUME NEW p \in Request, Fail(p) PROVE FALSE
  BY <1>0, <1>1, <1>9, <1>i DEF Fail, Finish
<1>10. ASSUME NEW p \in Request, Reply(p) \/ McpReply(p) \/ McpReread(p) PROVE FALSE
  BY <1>0, <1>1, <1>10 DEF Reply, McpReply, McpReread, Finish
<1>11. ASSUME UNCHANGED req PROVE FALSE
  BY <1>0, <1>11
<1>12. ASSUME NEW u, NEW S, Archive(u, S) PROVE FALSE
  BY <1>11, <1>12 DEF Archive
<1>13. ASSUME NEW t, Create(t) \/ Delete(t) PROVE FALSE
  BY <1>11, <1>13 DEF Create, Delete
<1>14. ~Restart
  BY <1>0, <1>i DEF Restart
<1>15. ~UNCHANGED vars
  BY <1>11 DEF vars
<1> QED
  BY <1>3, <1>4, <1>5, <1>6, <1>7, <1>8, <1>9, <1>10, <1>12, <1>13, <1>14, <1>15 DEF Next

\* At its commit a transaction has the table before it as it read it, and its
\* decision is the decision on that table.
LEMMA CommitOnCurrent ==
    ASSUME TypeInv, TxInv, NEW r \in Request, TxCommit(r)
    PROVE  Decided(r) /\ Current(r)
  BY DEF TxCommit, TxInv, InTx

\* Over SQLite a claim, move or release that commits overwrites exactly the
\* rows it read, whatever other requests of any kind did in between.
THEOREM SnapshotCommitsOnCurrentRows ==
    ASSUME Isolation = "snapshot"
    PROVE  Spec => CommitsOnCurrentRows
<1>1. ASSUME TypeInv, TxInv, [Next]_vars, NEW r \in Request, ServiceCommit(r)
      PROVE  /\ db[req[r].ticket] = req[r].seen
             /\ req[r].other # NoTicket => db[req[r].other] = req[r].otherSeen
  BY <1>1, OnlyTxCommitCommits, CommitOnCurrent DEF Current
<1>2. TypeInv /\ TxInv /\ [Next]_vars =>
        [\A r \in Request : ServiceCommit(r) =>
           /\ db[req[r].ticket] = req[r].seen
           /\ req[r].other # NoTicket => db[req[r].other] = req[r].otherSeen]_vars
  BY <1>1
<1> QED
  BY <1>2, AlwaysTxInv, PTL DEF Spec, CommitsOnCurrentRows

\* Over SQLite nobody with the role NORMAL_AI takes, moves or releases a
\* ticket that somebody else holds at that instant: not even when the other
\* request was granted while this one was being decided.
THEOREM SnapshotPermittedAtCommit ==
    ASSUME Isolation = "snapshot"
    PROVE  Spec => PermittedAtCommit
<1> DEFINE Permitted(r) ==
      LET now == db[req[r].ticket]
      IN  /\ Exists(req[r].ticket)
          /\ Role[req[r].user] = "NORMAL_AI" =>
               \/ req[r].op = "claim" /\ now.assignee \in {NoUser, req[r].user}
               \/ req[r].op \in {"move", "release"} /\ now.assignee = req[r].user
<1>1. ASSUME TypeInv, TxInv, [Next]_vars, NEW r \in Request, ServiceCommit(r)
      PROVE  Permitted(r)
  <2>1. Decided(r) /\ db[req[r].ticket] = req[r].seen
    BY <1>1, OnlyTxCommitCommits, CommitOnCurrent DEF Current
  <2> QED
    BY <2>1 DEF Decided, Exists, CanClaim, CanMove, CanRelease, Privileged
<1>2. TypeInv /\ TxInv /\ [Next]_vars =>
        [\A r \in Request : ServiceCommit(r) => Permitted(r)]_vars
  BY <1>1
<1> QED
  BY <1>2, AlwaysTxInv, PTL DEF Spec, PermittedAtCommit

\* What a commit that nobody overtook does to the table and the log.
LEMMA CommitEffect ==
    ASSUME TypeInv, TxInv, NEW r \in Request, TxCommit(r)
    PROVE  LET t == req[r].ticket
               o == req[r].other
               new == req[r].new
           IN  /\ t \in Ticket /\ Exists(t) /\ db[t] = req[r].seen
               /\ o = NoTicket =>
                    /\ db' = [db EXCEPT ![t] = new]
                    /\ audit' = [audit EXCEPT ![t] = new.column]
               /\ o # NoTicket =>
                    /\ o \in InProgress(req[r].user) \ {t}
                    /\ db' = [db EXCEPT ![t] = new, ![o] = ReleasedRow(db[o])]
                    /\ audit' = [audit EXCEPT ![t] = new.column, ![o] = "todo-0"]
<1> DEFINE t == req[r].ticket
           o == req[r].other
           new == req[r].new
<1>1. Decided(r) /\ Current(r)
  BY CommitOnCurrent
<1>2. t \in Ticket /\ NoTicket \notin Ticket
  BY NamesAssumption DEF TypeInv, Pending, TxCommit
<1>3. Exists(t) /\ db[t] = req[r].seen
  BY <1>1 DEF Decided, Current, Exists
<1>4. db' = CommittedDb(r) /\ audit' = CommittedAudit(r)
  BY DEF TxCommit
<1>5. db \in [Ticket -> Entry] /\ audit \in [Ticket -> Column \cup {"none"}]
  BY DEF TypeInv, TypeOK
<1>6. o = NoTicket => db' = [db EXCEPT ![t] = new] /\ audit' = [audit EXCEPT ![t] = new.column]
  BY <1>2, <1>3, <1>4, <1>5 DEF CommittedDb, CommittedAudit, Written
<1>7. ASSUME o # NoTicket
      PROVE  /\ o \in InProgress(req[r].user) \ {t}
             /\ db' = [db EXCEPT ![t] = new, ![o] = ReleasedRow(db[o])]
             /\ audit' = [audit EXCEPT ![t] = new.column, ![o] = "todo-0"]
  <2>1. o \in InProgress(req[r].user) \ {t} /\ req[r].otherSeen = db[o]
    BY <1>1, <1>7 DEF Current
  <2>2. o \in Ticket /\ o # t /\ Exists(o)
    BY <2>1 DEF InProgress, InProgressIn, Exists
  <2>3. db' = [db EXCEPT ![t] = new, ![o] = ReleasedRow(db[o])]
    BY <1>2, <1>3, <1>4, <1>5, <2>1, <2>2 DEF CommittedDb, Written
  <2>4. audit' = [audit EXCEPT ![t] = new.column, ![o] = "todo-0"]
    BY <1>2, <1>4, <1>5, <2>2 DEF CommittedAudit
  <2> QED
    BY <2>1, <2>3, <2>4
<1> QED
  BY <1>2, <1>3, <1>6, <1>7
-----------------------------------------------------------------------------
(* What a service does to the table at its commit, beside requests of every *)
(* kind.                                                                    *)

\* The tables before and after a commit.
LEMMA CommitRows ==
    ASSUME TypeInv, TxInv, NEW r \in Request, TxCommit(r)
    PROVE  LET t == req[r].ticket
               o == req[r].other
           IN  /\ Decided(r) /\ Current(r)
               /\ t \in Ticket /\ db[t] \in Row /\ db[t] = req[r].seen
               /\ db'[t] = req[r].new /\ req[r].new \in Row
               /\ o # NoTicket => /\ o \in InProgress(req[r].user) \ {t}
                                  /\ db'[o] = ReleasedRow(db[o]) /\ ReleasedRow(db[o]) \in Row
               /\ \A x \in Ticket \ {t, o} : db'[x] = db[x]
<1> DEFINE t == req[r].ticket
           o == req[r].other
<1>0. db \in [Ticket -> Entry]
  BY DEF TypeInv, TypeOK
<1>1. Decided(r) /\ Current(r) /\ req[r].pc = "commit"
  BY CommitOnCurrent DEF TxCommit
<1>2. t \in Ticket /\ db[t] \in Row /\ db[t] = req[r].seen /\ req[r].new \in Row
  BY <1>1, CommitEffect DEF Exists, TypeInv, Pending
<1>3. ASSUME o # NoTicket
      PROVE  /\ o \in InProgress(req[r].user) \ {t} /\ o \in Ticket
             /\ ReleasedRow(db[o]) \in Row
  <2>1. o \in InProgress(req[r].user) \ {t}
    BY <1>3, CommitEffect
  <2>2. o \in Ticket /\ db[o] \in Row
    BY <2>1 DEF InProgress, InProgressIn
  <2>3. ReleasedRow(db[o]) \in Row
    BY <2>2 DEF ReleasedRow, Row, Column, Assignee
  <2> QED
    BY <2>1, <2>2, <2>3
<1>4. /\ db'[t] = req[r].new
      /\ o # NoTicket => db'[o] = ReleasedRow(db[o])
      /\ \A x \in Ticket \ {t, o} : db'[x] = db[x]
  <2>1. CASE o = NoTicket
    BY <1>0, <1>2, <2>1, CommitEffect
  <2>2. CASE o # NoTicket
    BY <1>0, <1>2, <1>3, <2>2, CommitEffect
  <2> QED
    BY <2>1, <2>2
<1> QED
  BY <1>1, <1>2, <1>3, <1>4

\* Over SQLite a move takes a ticket out of DONE or CANCELLED only with force
\* or for a HUMAN_ADMIN, judged by the row it overwrites.
THEOREM TerminalsStay == ASSUME Isolation = "snapshot" PROVE Spec => TerminalNeedsForce
<1>1. ASSUME TypeInv, TxInv, [Next]_vars, NEW r \in Request, ServiceCommit(r),
             req[r].op = "move", ~req[r].force, Role[req[r].user] # "HUMAN_ADMIN"
      PROVE  Status(db[req[r].ticket]) \notin TERMINAL_STATUSES
  BY <1>1, OnlyTxCommitCommits, CommitRows DEF Decided, IsValidTransition
<1>2. TypeInv /\ TxInv /\ [Next]_vars =>
        [\A r \in Request :
           ServiceCommit(r) /\ req[r].op = "move" /\ ~req[r].force
           /\ Role[req[r].user] # "HUMAN_ADMIN" /\ Exists(req[r].ticket) =>
                 Status(db[req[r].ticket]) \notin TERMINAL_STATUSES]_vars
  BY <1>1
<1> QED
  BY <1>2, AlwaysTxInv, PTL DEF Spec, TerminalNeedsForce

\* Over SQLite a move or a release never changes a ticket that was archived
\* after the service looked at the flag.
THEOREM ArchivedStay == ASSUME Isolation = "snapshot" PROVE Spec => ArchivedIsNotMoved
<1>1. ASSUME TypeInv, TxInv, [Next]_vars, NEW r \in Request, ServiceCommit(r),
             req[r].op \in {"move", "release"}
      PROVE  ~db[req[r].ticket].archived
  BY <1>1, OnlyTxCommitCommits, CommitRows DEF Decided
<1>2. TypeInv /\ TxInv /\ [Next]_vars =>
        [\A r \in Request :
           ServiceCommit(r) /\ req[r].op \in {"move", "release"} /\ Exists(req[r].ticket) =>
              ~db[req[r].ticket].archived]_vars
  BY <1>1
<1> QED
  BY <1>2, AlwaysTxInv, PTL DEF Spec, ArchivedIsNotMoved

\* Over SQLite the whole-row updates of a service undo no comment, archive
\* flag or board that another request has stored meanwhile.
THEOREM RestIsKept == ASSUME Isolation = "snapshot" PROVE Spec => ServicesKeepTheRest
<1> DEFINE Kept(t) == /\ Exists(t)'
                      /\ db'[t] = [db[t] EXCEPT !.column = db'[t].column,
                                                !.assignee = db'[t].assignee]
<1> DEFINE SameRest(new, row) == new = [row EXCEPT !.column = new.column, !.assignee = new.assignee]
<1>1. ASSUME NEW row \in Row, NEW new \in Row,
             \/ \E u \in User : new = ClaimedRow(row, u)
             \/ \E s \in TargetStatus : new = MovedRow(row, s)
             \/ new = ReleasedRow(row)
      PROVE  SameRest(new, row)
  BY <1>1 DEF Row, ClaimedRow, MovedRow, ReleasedRow
<1>2. ASSUME TypeInv, TxInv, [Next]_vars, NEW r \in Request, ServiceCommit(r),
             NEW t \in Ticket, Exists(t)
      PROVE  Kept(t)
  <2>0. TxCommit(r) /\ Decided(r)
    BY <1>2, OnlyTxCommitCommits, CommitRows
  <2>1. CASE t = req[r].ticket
    <3>1. db[t] \in Row /\ db'[t] \in Row /\ db[t] = req[r].seen /\ db'[t] = req[r].new
      BY <1>2, <2>0, <2>1, CommitRows
    <3>2. db'[t] = [db[t] EXCEPT !.column = db'[t].column, !.assignee = db'[t].assignee]
      <4>1. PICK row \in Row, new \in Row : row = req[r].seen /\ new = req[r].new
        BY <3>1
      <4>2. \/ \E u \in User : new = ClaimedRow(row, u)
            \/ \E s \in TargetStatus : new = MovedRow(row, s)
            \/ new = ReleasedRow(row)
        BY <2>0, <4>1 DEF Decided
      <4> HIDE DEF SameRest
      <4>3. SameRest(new, row)
        BY <1>1, <4>2
      <4> QED
        BY <3>1, <4>1, <4>3 DEF SameRest
    <3> QED
      BY <3>1, <3>2 DEF Exists
  <2>2. CASE t # req[r].ticket /\ t = req[r].other
    <3>1. db[t] \in Row /\ db'[t] \in Row /\ db'[t] = ReleasedRow(db[t])
      BY <1>2, <2>0, <2>2, CommitRows, NamesAssumption DEF Exists
    <3>2. db'[t] = [db[t] EXCEPT !.column = db'[t].column, !.assignee = db'[t].assignee]
      BY <3>1 DEF Row, ReleasedRow
    <3> QED
      BY <3>1, <3>2 DEF Exists
  <2>3. CASE t \notin {req[r].ticket, req[r].other}
    <3>1. db[t] \in Row /\ db'[t] = db[t]
      BY <1>2, <2>0, <2>3, CommitRows DEF Exists
    <3>2. db[t] = [db[t] EXCEPT !.column = db[t].column, !.assignee = db[t].assignee]
      BY <3>1 DEF Row
    <3> QED
      BY <3>1, <3>2 DEF Exists
  <2> QED
    BY <2>1, <2>2, <2>3
<1>3. TypeInv /\ TxInv /\ [Next]_vars =>
        [\A r \in Request : ServiceCommit(r) => \A t \in Ticket : Exists(t) => Kept(t)]_vars
  BY <1>2
<1> QED
  BY <1>3, AlwaysTxInv, PTL DEF Spec, ServicesKeepTheRest

\* Over SQLite a claim takes for what it gives: the caller ends with one
\* ticket in progress, or with no more than before, and no other ticket
\* changes but one that the caller had in progress.
THEOREM ClaimsSwap ==
    ASSUME Isolation = "snapshot", IsFiniteSet(Ticket)
    PROVE  Spec => ClaimSwaps
<1> DEFINE Swaps(r) ==
      LET u == req[r].user
          had == InProgress(u)
      IN  /\ Cardinality(InProgressIn(db', u)) <= IF had = {} THEN 1 ELSE Cardinality(had)
          /\ \A t \in Ticket \ {req[r].ticket} : db'[t] # db[t] => t \in had
<1>1. ASSUME TypeInv, TxInv, [Next]_vars, NEW r \in Request, ServiceCommit(r), req[r].op = "claim"
      PROVE  Swaps(r)
  <2>0. TxCommit(r) /\ req[r].pc = "commit"
    BY <1>1, OnlyTxCommitCommits DEF ServiceCommit
  <2>u. PICK u \in User : u = req[r].user
    BY <2>0, <1>1, CommitRows DEF Decided
  <2>t. PICK t \in Ticket : t = req[r].ticket
    BY <2>0, <1>1, CommitRows
  <2>o. PICK o : o = req[r].other
    OBVIOUS
  <2>had. PICK had \in SUBSET Ticket : had = InProgress(u)
    BY DEF InProgress, InProgressIn
  <2>has. PICK has \in SUBSET Ticket : has = InProgressIn(db', u)
    BY DEF InProgressIn
  <2>1. \A x \in Ticket \ {t} : db'[x] # db[x] => x = o /\ o \in had
    BY <1>1, <2>0, <2>u, <2>t, <2>o, <2>had, CommitRows, NamesAssumption
  <2>2. t \notin had
    <3>1. Decided(r) /\ db[t] = req[r].seen
      BY <1>1, <2>0, <2>t, CommitRows
    <3>2. db[t].assignee # u
      BY <1>1, <2>u, <3>1 DEF Decided
    <3> QED
      BY <2>had, <3>2 DEF InProgress, InProgressIn
  <2>3. \A x \in has : x = t \/ x \in had
    BY <2>1, <2>had, <2>has DEF InProgress, InProgressIn
  <2>4. o = NoTicket => had = {}
    <3>1. Current(r)
      BY <1>1, <2>0, CommitRows
    <3> QED
      <4>1. o = NoTicket => InProgress(u) \ {t} = {}
        BY <1>1, <2>0, <2>u, <2>t, <2>o, <3>1 DEF Current
      <4> QED
        BY <4>1, <2>had, <2>2
  <2>5. o # NoTicket => o \in had \ has
    <3> SUFFICES ASSUME o # NoTicket PROVE o \in had \ has
      OBVIOUS
    <3>1. o \in had /\ db'[o] = ReleasedRow(db[o])
      BY <1>1, <2>0, <2>u, <2>t, <2>o, <2>had, CommitRows
    <3>2. db'[o].column = "todo-0"
      BY <3>1, <2>had DEF InProgress, InProgressIn, ReleasedRow, Row
    <3> QED
      BY <3>1, <3>2, <2>has DEF InProgressIn
  <2>6. Cardinality(has) <= IF had = {} THEN 1 ELSE Cardinality(had)
    <3>1. CASE had = {}
      <4>1. has \subseteq {t}
        BY <2>3, <3>1
      <4>2. IsFiniteSet({t}) /\ Cardinality({t}) = 1
        BY FS_Singleton
      <4>3. Cardinality(has) <= Cardinality({t})
        BY <4>1, <4>2, FS_Subset
      <4> QED
        BY <3>1, <4>2, <4>3
    <3>2. CASE had # {}
      <4>1. o \in had /\ o \notin has
        BY <2>4, <2>5, <3>2
      <4>2. IsFiniteSet(had)
        BY FS_Subset
      <4>3. IsFiniteSet(had \ {o}) /\ Cardinality(had \ {o}) = Cardinality(had) - 1
        BY <4>1, <4>2, FS_RemoveElement
      <4>4. /\ IsFiniteSet((had \ {o}) \cup {t})
            /\ Cardinality((had \ {o}) \cup {t}) = Cardinality(had \ {o}) + 1
        BY <2>2, <4>3, FS_AddElement
      <4>5. has \subseteq (had \ {o}) \cup {t}
        BY <2>3, <4>1
      <4>6. Cardinality(has) <= Cardinality((had \ {o}) \cup {t})
        BY <4>4, <4>5, FS_Subset
      <4>7. Cardinality(had) \in Nat
        BY <4>2, FS_CardinalityType
      <4> QED
        BY <3>2, <4>3, <4>4, <4>6, <4>7
    <3> QED
      BY <3>1, <3>2
  <2> QED
    BY <2>u, <2>t, <2>had, <2>has, <2>1, <2>6
<1>2. TypeInv /\ TxInv /\ [Next]_vars =>
        [\A r \in Request : ServiceCommit(r) /\ req[r].op = "claim" => Swaps(r)]_vars
  BY <1>1
<1> QED
  BY <1>2, AlwaysTxInv, PTL DEF Spec, ClaimSwaps
=============================================================================
