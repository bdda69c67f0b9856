-------------------------- MODULE RefinementProofs --------------------------
(***************************************************************************)
(* Servers that implement TicketBoard, where each request takes effect at  *)
(* one instant: over SQLite one whose clients claim, move and release, and *)
(* archive, create and delete tickets; over any store one whose clients    *)
(* send the requests of the handlers, which hold mu from the row's read to *)
(* its write.  And what the first of the two is good for: nobody has two   *)
(* tickets in progress, and the activity log names the column a ticket is  *)
(* in.                                                                     *)
(***************************************************************************)
EXTENDS TicketServiceProofs

\* The operators of the instance are those of this module.
LEMMA SameRows ==
    /\ Atomic!Row = Row
    /\ Atomic!FreshRows = FreshRows
    /\ \A t : Atomic!Exists(t) <=> Exists(t)
    /\ \A d, u : Atomic!InProgressIn(d, u) = InProgressIn(d, u)
  BY DEF Atomic!Row, Row, Atomic!FreshRows, FreshRows, Atomic!FreshRow, FreshRow,
     Atomic!Assignee, Assignee, Atomic!Column, Column, Atomic!Exists, Exists,
     Atomic!InProgressIn, InProgressIn

LEMMA SameDecisions ==
    /\ \A u : Atomic!Privileged(u) <=> Privileged(u)
    /\ \A u, row : Atomic!CanClaim(u, row) <=> CanClaim(u, row)
    /\ \A u, row : Atomic!CanMove(u, row) <=> CanMove(u, row)
    /\ \A u, row : Atomic!CanRelease(u, row) <=> CanRelease(u, row)
    /\ \A u, row : Atomic!ClaimedRow(row, u) = ClaimedRow(row, u)
    /\ \A row : Atomic!ReleasedRow(row) = ReleasedRow(row)
    /\ \A s, row : Atomic!MovedRow(row, s) = MovedRow(row, s)
    /\ Atomic!StatusToColumnID = StatusToColumnID
  BY DEF Atomic!Privileged, Privileged, Atomic!CanClaim, CanClaim, Atomic!CanMove, CanMove,
     Atomic!CanRelease, CanRelease, Atomic!ClaimedRow, ClaimedRow, Atomic!ReleasedRow,
     ReleasedRow, Atomic!MovedRow, MovedRow, Atomic!StatusToColumnID, StatusToColumnID

LEMMA SameStatus ==
    /\ \A row : Atomic!Status(row) = Status(row)
    /\ \A u, row, force : Atomic!IsValidTransition(u, row, force)
                            <=> IsValidTransition(u, row, force)
<1>1. Atomic!StatusToColumnID = StatusToColumnID /\ Atomic!VALID_STATUSES = VALID_STATUSES
  BY DEF Atomic!StatusToColumnID, StatusToColumnID, Atomic!VALID_STATUSES, VALID_STATUSES
<1>2. \A row : Atomic!Status(row) = Status(row)
  BY <1>1 DEF Atomic!Status, Status
<1>3. Atomic!TERMINAL_STATUSES = TERMINAL_STATUSES
  BY DEF Atomic!TERMINAL_STATUSES, TERMINAL_STATUSES
<1> QED
  BY <1>2, <1>3 DEF Atomic!IsValidTransition, IsValidTransition

-----------------------------------------------------------------------------
(* Commits *)

\* Every commit is one of the three operations of TicketBoard, on the table of
\* that instant.
LEMMA CommitIsAtomic ==
    ASSUME TypeInv, TxInv, NEW r \in Request, TxCommit(r)
    PROVE  Atomic!Next
<1> DEFINE u == req[r].user
           t == req[r].ticket
           o == req[r].other
           others == InProgress(u) \ {t}
<1>1. Decided(r) /\ Current(r) /\ req[r].pc = "commit"
  BY CommitOnCurrent DEF TxCommit
<1>2. u \in User /\ t \in Ticket /\ Exists(t) /\ db[t] = req[r].seen
  BY <1>1, CommitEffect DEF Decided
<1>3. CASE req[r].op = "claim"
  <2>0. db[t].assignee # u /\ CanClaim(u, db[t]) /\ req[r].new = ClaimedRow(db[t], u)
    BY <1>1, <1>2, <1>3 DEF Decided
  <2>1. /\ db[t].assignee # u /\ CanClaim(u, db[t]) /\ req[r].new = ClaimedRow(db[t], u)
        /\ req[r].new.column = "inprogress-0"
    BY <1>2, <2>0 DEF ClaimedRow, Exists, Row
  <2>2. Atomic!InProgressIn(db, u) \ {t} = others
    BY SameRows DEF InProgress
  <2>3. CASE o = NoTicket
    <3>1. others = {}
      BY <1>1, <1>3, <2>3 DEF Current
    <3>2. db' = [db EXCEPT ![t] = Atomic!ClaimedRow(db[t], u)]
      BY <2>1, <2>3, CommitEffect, SameDecisions
    <3>3. audit' = [audit EXCEPT ![t] = "inprogress-0"]
      BY <2>1, <2>3, CommitEffect
    <3>4. Atomic!Claim(u, t)
      BY <1>2, <2>1, <2>2, <3>1, <3>2, <3>3, SameRows, SameDecisions DEF Atomic!Claim
    <3> QED
      BY <1>2, <3>4 DEF Atomic!Next
  <2>4. CASE o # NoTicket
    <3>1. o \in others
      BY <2>4, CommitEffect
    <3>2. db' = [db EXCEPT ![t] = Atomic!ClaimedRow(db[t], u), ![o] = Atomic!ReleasedRow(db[o])]
      BY <2>1, <2>4, CommitEffect, SameDecisions
    <3>3. audit' = [audit EXCEPT ![t] = "inprogress-0", ![o] = "todo-0"]
      BY <2>1, <2>4, CommitEffect
    <3>4. o # t
      BY <3>1
    <3>5. Atomic!Claim(u, t)
      BY <1>2, <2>1, <2>2, <3>1, <3>2, <3>3, <3>4, SameRows, SameDecisions DEF Atomic!Claim
    <3> QED
      BY <1>2, <3>5 DEF Atomic!Next
  <2> QED
    BY <2>3, <2>4
<1>4. CASE req[r].op = "move"
  <2>1. PICK s \in TargetStatus : Status(db[t]) # s /\ req[r].new = MovedRow(db[t], s)
    BY <1>1, <1>2, <1>4 DEF Decided
  <2>2. /\ o = NoTicket /\ ~db[t].archived /\ CanMove(u, db[t])
        /\ IsValidTransition(u, db[t], req[r].force) /\ req[r].force \in BOOLEAN
    BY <1>1, <1>2, <1>4 DEF Decided, TypeInv, TypeOK, ReqState
  <2>3. req[r].new.column = StatusToColumnID[s]
    BY <1>2, <2>1 DEF MovedRow, Exists, Row
  <2>4. /\ db' = [db EXCEPT ![t] = Atomic!MovedRow(db[t], s)]
        /\ audit' = [audit EXCEPT ![t] = Atomic!StatusToColumnID[s]]
    BY <2>1, <2>2, <2>3, CommitEffect, SameDecisions
  <2>5. Atomic!Move(u, t, s, req[r].force)
    BY <1>2, <2>1, <2>2, <2>4, SameRows, SameDecisions, SameStatus DEF Atomic!Move
  <2> QED
    BY <1>2, <2>2, <2>5 DEF Atomic!Next
<1>5. CASE req[r].op = "release"
  <2>1. /\ o = NoTicket /\ ~db[t].archived /\ db[t].assignee # NoUser /\ CanRelease(u, db[t])
        /\ req[r].new = ReleasedRow(db[t]) /\ req[r].new.column = "todo-0"
    BY <1>1, <1>2, <1>5 DEF Decided, ReleasedRow, Row
  <2>2. /\ db' = [db EXCEPT ![t] = Atomic!ReleasedRow(db[t])]
        /\ audit' = [audit EXCEPT ![t] = "todo-0"]
    BY <2>1, CommitEffect, SameDecisions
  <2>3. Atomic!Release(u, t)
    BY <1>2, <2>1, <2>2, SameRows, SameDecisions DEF Atomic!Release
  <2> QED
    BY <1>2, <2>3 DEF Atomic!Next
<1> QED
  BY <1>1, <1>3, <1>4, <1>5 DEF Decided

-----------------------------------------------------------------------------
(* The refinement *)

\* No slot writes back a row it read outside a transaction.
NoEdits == \A r \in Request : req[r].pc \notin {"write", "place"}

LEMMA InitNoEdits == Init => NoEdits
  BY DEF Init, NoEdits, IdleReq

LEMMA NextNoEdits ==
    ASSUME Ops \cap (EditOps \cup {"mcp_comment", "unarchive"}) = {}
    PROVE  TypeInv /\ NoEdits /\ [Next]_vars => NoEdits'
<1> SUFFICES ASSUME TypeInv, NoEdits, [Next]_vars PROVE NoEdits'
  OBVIOUS
<1>0. req \in [Request -> ReqState]
  BY DEF TypeInv, TypeOK
<1>i. IdleReq.pc = "idle"
  BY DEF IdleReq
<1>p. \A op, t, row, o : Replying(op, t, row, o).pc = "reply"
  BY DEF Replying, IdleReq
<1>1. ASSUME NEW r \in Request, NEW q, req' = [req EXCEPT ![r] = q],
             q.pc \notin {"write", "place"}
      PROVE  NoEdits'
  BY <1>0, <1>1 DEF NoEdits
<1>2. ASSUME NEW r \in Request, ServiceRead(r) PROVE NoEdits'
  <2>1. ASSUME NEW op, NEW u, NEW t, NEW f \in BOOLEAN, NEW pc \in {"list", "commit"}, NEW new,
               Read(r, op, u, t, f, pc, new)
        PROVE  NoEdits'
    <3> DEFINE q == [IdleReq EXCEPT !.pc = pc, !.op = op, !.user = u, !.force = f,
                                    !.ticket = t, !.seen = db[t], !.new = new]
    <3>1. q.pc = pc
      BY DEF IdleReq
    <3>2. req' = [req EXCEPT ![r] = q]
      BY <2>1 DEF Read
    <3> HIDE DEF q
    <3> QED
      BY <1>1, <3>1, <3>2
  <2>2. ASSUME NEW op, NEW t, AlreadyDone(r, op, t) PROVE NoEdits'
    BY <1>1, <1>p, <2>2 DEF AlreadyDone
  <2>3. ASSUME NEW u, NEW t, ClaimRead(r, u, t) PROVE NoEdits'
    BY <2>1, <2>2, <2>3 DEF ClaimRead
  <2>4. ASSUME NEW u, NEW t, NEW s, NEW f \in BOOLEAN, MoveRead(r, u, t, s, f) PROVE NoEdits'
    BY <2>1, <2>2, <2>4 DEF MoveRead
  <2>5. ASSUME NEW u, NEW t, ReleaseRead(r, u, t) PROVE NoEdits'
    BY <2>1, <2>2, <2>5 DEF ReleaseRead
  <2> QED
    BY <1>2, <2>3, <2>4, <2>5 DEF ServiceRead
<1>3. ASSUME NEW r \in Request PROVE ~HandlerRead(r) /\ ~UnarchivePlace(r)
  BY DEF HandlerRead, EditRead, CommentRead, EditOps, UnarchivePlace, NoEdits
<1>4. ASSUME NEW r \in Request, ClaimList(r) PROVE NoEdits'
  <2> DEFINE q == [req[r] EXCEPT !.pc = "commit"]
             w(o) == [q EXCEPT !.other = o, !.otherSeen = db[o]]
  <2>1. q.pc = "commit" /\ \A o : w(o).pc = "commit"
    BY <1>0 DEF ReqState
  <2>2. \/ req' = [req EXCEPT ![r] = q]
        \/ \E o : req' = [req EXCEPT ![r] = w(o)]
    BY <1>0, <1>4 DEF ClaimList
  <2> HIDE DEF q, w
  <2> QED
    BY <1>1, <2>1, <2>2
<1>5. ASSUME NEW r \in Request, TxCommit(r) \/ Fail(r) \/ Reply(r) \/ EditWrite(r) PROVE NoEdits'
  BY <1>1, <1>5, <1>i, <1>p DEF TxCommit, Fail, Reply, EditWrite, ReplyNext, Finish
<1>6. ASSUME NEW r \in Request, NEW u, NEW t, Unarchive(r, u, t) \/ McpCreate(r, u, t)
      PROVE  NoEdits'
  BY <1>1, <1>6, <1>p DEF Unarchive, McpCreate
<1>7. ASSUME NEW r \in Request, McpReply(r) PROVE NoEdits'
  <2> DEFINE q == [Replying("claim", req[r].other, NoRow, NoTicket) EXCEPT !.pc = "reread"]
  <2>1. q.pc = "reread"
    BY DEF Replying, IdleReq
  <2>2. req' = [req EXCEPT ![r] = q]
    BY <1>7 DEF McpReply
  <2> HIDE DEF q
  <2> QED
    BY <1>1, <2>1, <2>2
<1>8. ASSUME NEW r \in Request, McpReread(r) PROVE NoEdits'
  BY <1>1, <1>8, <1>i, <1>p DEF McpReread, Finish
<1>9. ASSUME UNCHANGED req PROVE NoEdits'
  BY <1>9 DEF NoEdits
<1>10. ASSUME NEW u, NEW S, Archive(u, S) PROVE NoEdits'
  BY <1>9, <1>10 DEF Archive
<1>11. ASSUME NEW t, Create(t) \/ Delete(t) PROVE NoEdits'
  BY <1>9, <1>11 DEF Create, Delete
<1>12. CASE Restart
  BY <1>12, <1>i DEF Restart, NoEdits
<1>13. CASE UNCHANGED vars
  BY <1>9, <1>13 DEF vars
<1> QED
  BY <1>2, <1>3, <1>4, <1>5, <1>6, <1>7, <1>8, <1>10, <1>11, <1>12, <1>13 DEF Next

LEMMA InitIsAtomic == Init => Atomic!Init
  BY SameRows DEF Init, Atomic!Init

LEMMA NextIsAtomic ==
    ASSUME TypeInv, TxInv, NoEdits, [Next]_vars,
           Ops \cap (EditOps \cup {"mcp_comment", "unarchive"}) = {}
    PROVE  [Atomic!Next]_(Atomic!vars)
<1>1. ASSUME UNCHANGED <<db, audit>> PROVE UNCHANGED Atomic!vars
  BY <1>1 DEF Atomic!vars
<1>2. ASSUME NEW r \in Request, Quiet(r) PROVE UNCHANGED Atomic!vars
  BY <1>1, <1>2, QuietSteps
<1>5. ASSUME NEW r \in Request, TxCommit(r) PROVE Atomic!Next
  BY <1>5, CommitIsAtomic
<1>6. ASSUME NEW r \in Request PROVE ~EditWrite(r)
  BY DEF EditWrite, NoEdits
<1>7. ASSUME NEW r \in Request, NEW u \in User, NEW t \in Ticket PROVE ~Unarchive(r, u, t)
  BY DEF Unarchive
<1>8. ASSUME NEW r \in Request, NEW u \in User, NEW t \in Ticket, McpCreate(r, u, t)
      PROVE  Atomic!Next
  <2>0. PICK c \in NewColumn, b \in Board : db' = [db EXCEPT ![t] = FreshRow(c, NoUser, b)]
    BY <1>8 DEF McpCreate
  <2>1. FreshRow(c, NoUser, b) \in FreshRows
    BY DEF FreshRows, Assignee
  <2>2. Atomic!Create(t)
    BY <1>8, <2>0, <2>1, SameRows DEF McpCreate, Atomic!Create
  <2> QED
    BY <2>2 DEF Atomic!Next
<1>9. ASSUME NEW u \in User, NEW S \in SUBSET Ticket, Archive(u, S) PROVE Atomic!Next
  <2>1. Atomic!Archive(u, S)
    BY <1>9, SameRows, SameDecisions DEF Archive, Atomic!Archive
  <2> QED
    BY <2>1 DEF Atomic!Next
<1>10. ASSUME NEW t \in Ticket, Create(t) PROVE Atomic!Next
  <2>1. Atomic!Create(t)
    BY <1>10, SameRows DEF Create, Atomic!Create
  <2> QED
    BY <2>1 DEF Atomic!Next
<1>11. ASSUME NEW t \in Ticket, Delete(t) PROVE Atomic!Next
  <2>1. Atomic!Delete(t)
    BY <1>11, SameRows DEF Delete, Atomic!Delete
  <2> QED
    BY <2>1 DEF Atomic!Next
<1>12. CASE Restart
  BY <1>1, <1>12 DEF Restart
<1>13. CASE UNCHANGED vars
  BY <1>1, <1>13 DEF vars
<1> QED
  BY <1>2, <1>5, <1>6, <1>7, <1>8, <1>9, <1>10, <1>11, <1>12, <1>13 DEF Next, Quiet

\* Over SQLite, and where no client edits, comments on or restores tickets, the
\* server implements TicketBoard: every claim, move, release, archive, create
\* and delete takes effect at one instant, on the tickets as they are then, and
\* every failure, crash and early return leaves them alone.
THEOREM SnapshotImplementsTicketBoard ==
    ASSUME Isolation = "snapshot",
           Ops \cap (EditOps \cup {"mcp_comment", "unarchive"}) = {}
    PROVE  Spec => AtomicSpec
<1>1. Spec => [](TypeInv /\ TxInv)
  BY AlwaysTxInv
<1>2. TypeInv /\ TxInv /\ NoEdits /\ [Next]_vars => NoEdits'
  BY NextNoEdits
<1>3. TypeInv /\ TxInv /\ NoEdits /\ [Next]_vars => [Atomic!Next]_(Atomic!vars)
  BY NextIsAtomic
<1>4. Init => NoEdits /\ Atomic!Init
  BY InitNoEdits, InitIsAtomic
<1> QED
  BY <1>1, <1>2, <1>3, <1>4, PTL DEF Spec, AtomicSpec, Atomic!Spec
-----------------------------------------------------------------------------
(* One ticket in progress, and the activity log *)

\* Clients send the requests that TicketBoard makes atomic, over SQLite.
Atomically ==
    /\ Isolation = "snapshot"
    /\ Ops \cap (EditOps \cup {"mcp_comment", "unarchive"}) = {}

\* Only claims bring tickets to the in-progress column.
OnlyClaims == "IN_PROGRESS" \notin TargetStatus /\ "inprogress-0" \notin NewColumn

OneEach == \A u \in User : \A x, y \in InProgress(u) : x = y

\* A ticket that was never created has no activity rows.
Logged == AuditMatches /\ \A t \in Ticket : db[t] = Unused => audit[t] = "none"

LEMMA AtMostOne == OneEach => OneTicketInProgress
<1> SUFFICES ASSUME OneEach, NEW u \in User PROVE Cardinality(InProgress(u)) <= 1
  BY DEF OneTicketInProgress
<1>1. CASE InProgress(u) = {}
  BY <1>1, FS_EmptySet
<1>2. ASSUME NEW x \in InProgress(u) PROVE Cardinality(InProgress(u)) <= 1
  <2>1. InProgress(u) = {x}
    BY <1>2 DEF OneEach
  <2> QED
    BY <2>1, FS_Singleton
<1> QED
  BY <1>1, <1>2

LEMMA InitProgress ==
    ASSUME Atomically
    PROVE  /\ Init => Logged
           /\ OnlyClaims /\ Init => OneEach
<1>1. ASSUME Init PROVE Logged
  BY <1>1 DEF Init, Logged, AuditMatches
<1>2. ASSUME OnlyClaims, Init PROVE OneEach
  <2>1. \A row \in FreshRows : row.column \in NewColumn
    BY DEF FreshRows, FreshRow
  <2>2. \A u : InProgress(u) = {}
    BY <1>2, <2>1, RowAssumption DEF Init, OnlyClaims, InProgress, InProgressIn
  <2> QED
    BY <2>2 DEF OneEach
<1> QED
  BY <1>1, <1>2

\* A step that takes tickets from a user, or leaves it with one.
LEMMA KeepsOneEach ==
    ASSUME OneEach,
           \A u \in User : \/ \A x \in InProgress(u)' : x \in InProgress(u)
                           \/ \E t : \A x \in InProgress(u)' : x = t
    PROVE  OneEach'
  BY DEF OneEach

LEMMA CommitProgress ==
    ASSUME TypeInv, TxInv, NEW r \in Request, TxCommit(r)
    PROVE  /\ Logged => Logged'
           /\ OnlyClaims /\ OneEach => OneEach'
<1> DEFINE t == req[r].ticket
           o == req[r].other
           new == req[r].new
<1>0. db \in [Ticket -> Entry] /\ audit \in [Ticket -> Column \cup {"none"}]
  BY DEF TypeInv, TypeOK
<1>1. Decided(r) /\ Current(r) /\ req[r].pc = "commit"
  BY CommitOnCurrent DEF TxCommit
<1>u. PICK u \in User : u = req[r].user
  BY <1>1 DEF Decided
<1>2. t \in Ticket /\ db[t] \in Row /\ db[t] = req[r].seen /\ new \in Row
  BY <1>1, CommitEffect DEF Exists, TypeInv, Pending
<1>3. o # NoTicket =>
        /\ o \in Ticket /\ o # t /\ db[o] \in Row
        /\ ReleasedRow(db[o]) \in Row
        /\ ReleasedRow(db[o]).column = "todo-0"
  BY CommitEffect DEF InProgress, InProgressIn, ReleasedRow, Row, Column, Assignee
<1>4. /\ db'[t] = new /\ audit'[t] = new.column
      /\ o # NoTicket => db'[o] = ReleasedRow(db[o]) /\ audit'[o] = "todo-0"
      /\ \A x \in Ticket \ {t, o} : db'[x] = db[x] /\ audit'[x] = audit[x]
  <2>1. CASE o = NoTicket
    BY <1>0, <1>2, <2>1, CommitEffect
  <2>2. CASE o # NoTicket
    BY <1>0, <1>2, <1>3, <2>2, CommitEffect
  <2> QED
    BY <2>1, <2>2
<1>5. ASSUME Logged PROVE Logged'
  <2> SUFFICES ASSUME NEW x \in Ticket
               PROVE /\ db'[x] \in Row /\ audit'[x] # "none" => audit'[x] = db'[x].column
                     /\ db'[x] = Unused => audit'[x] = "none"
    BY DEF Logged, AuditMatches, Exists
  <2>1. CASE x = t
    BY <1>2, <1>4, <2>1, RowAssumption
  <2>2. CASE o # NoTicket /\ x = o
    BY <1>3, <1>4, <2>2, RowAssumption
  <2>3. CASE x \notin {t, o}
    BY <1>4, <1>5, <2>3 DEF Logged, AuditMatches, Exists
  <2> QED
    BY <2>1, <2>2, <2>3, NamesAssumption
<1>6. ASSUME OnlyClaims, OneEach PROVE OneEach'
  <2>1. ASSUME NEW w \in User, NEW x \in InProgress(w)', x # t PROVE x \in InProgress(w)
    <3>1. x \in Ticket /\ db'[x].column = "inprogress-0"
      BY DEF InProgress, InProgressIn
    <3>2. x # o
      BY <1>3, <1>4, <3>1, NamesAssumption
    <3>3. db'[x] = db[x]
      BY <1>4, <2>1, <3>1, <3>2
    <3> QED
      BY <3>3 DEF InProgress, InProgressIn
  <2>2. CASE req[r].op = "claim"
    <3>1. new.assignee = u
      BY <1>1, <1>2, <1>u, <2>2 DEF Decided, ClaimedRow, Row
    <3>2. \A w \in User \ {u} : t \notin InProgress(w)'
      BY <1>4, <3>1 DEF InProgress, InProgressIn
    <3>3. \A x \in InProgress(u)' : x = t
      <4> SUFFICES ASSUME NEW x \in InProgress(u)', x # t PROVE FALSE
        OBVIOUS
      <4>1. x \in InProgress(u) \ {t}
        BY <2>1
      <4>2. CASE o = NoTicket
        BY <1>1, <1>u, <2>2, <4>1, <4>2 DEF Current
      <4>3. CASE o # NoTicket
        <5>1. o \in InProgress(u)
          BY <1>u, <4>3, CommitEffect
        <5>2. x = o
          BY <1>6, <4>1, <5>1 DEF OneEach
        <5> QED
          BY <1>3, <1>4, <4>3, <5>2 DEF InProgress, InProgressIn
      <4> QED
        BY <4>2, <4>3
    <3> QED
      BY <1>6, <2>1, <3>2, <3>3, KeepsOneEach
  <2>3. CASE req[r].op = "move"
    <3>1. PICK s \in TargetStatus : new = MovedRow(db[t], s)
      BY <1>1, <1>2, <2>3 DEF Decided
    <3>2. new.column = StatusToColumnID[s] /\ s # "IN_PROGRESS" /\ s \in VALID_STATUSES
      BY <1>2, <1>6, <3>1, StatusAssumption DEF MovedRow, Row, OnlyClaims
    <3>3. new.column # "inprogress-0"
      BY <3>2 DEF StatusToColumnID, VALID_STATUSES
    <3>4. \A w \in User : t \notin InProgress(w)'
      BY <1>4, <3>3 DEF InProgress, InProgressIn
    <3> QED
      BY <1>6, <2>1, <3>4, KeepsOneEach
  <2>4. CASE req[r].op = "release"
    <3>1. new.column = "todo-0"
      BY <1>1, <1>2, <2>4 DEF Decided, ReleasedRow, Row
    <3>2. \A w \in User : t \notin InProgress(w)'
      BY <1>4, <3>1 DEF InProgress, InProgressIn
    <3> QED
      BY <1>6, <2>1, <3>2, KeepsOneEach
  <2> QED
    BY <1>1, <2>2, <2>3, <2>4 DEF Decided
<1> QED
  BY <1>5, <1>6

\* A new row of a ticket that did not exist.
LEMMA CreateProgress ==
    ASSUME TypeInv, NEW t \in Ticket, db[t] = Unused, NEW row \in FreshRows,
           db' = [db EXCEPT ![t] = row], audit' = audit
    PROVE  /\ Logged => Logged'
           /\ OnlyClaims /\ OneEach => OneEach'
<1>0. db \in [Ticket -> Entry] /\ row \in Row /\ row.column \in NewColumn
  BY FreshRowsAreRows DEF TypeInv, TypeOK, FreshRows, FreshRow
<1>1. \A x \in Ticket : db'[x] = (IF x = t THEN row ELSE db[x])
  BY <1>0
<1>2. ASSUME Logged PROVE Logged'
  BY <1>0, <1>1, <1>2, RowAssumption DEF Logged, AuditMatches, Exists
<1>3. ASSUME OnlyClaims, OneEach PROVE OneEach'
  BY <1>0, <1>1, <1>3, KeepsOneEach DEF OnlyClaims, InProgress, InProgressIn
<1> QED
  BY <1>2, <1>3

LEMMA NextProgress ==
    ASSUME TypeInv, TxInv, NoEdits, [Next]_vars, Atomically
    PROVE  /\ Logged => Logged'
           /\ OnlyClaims /\ OneEach => OneEach'
<1> DEFINE Kept == (Logged => Logged') /\ (OnlyClaims /\ OneEach => OneEach')
<1>0. db \in [Ticket -> Entry]
  BY DEF TypeInv, TypeOK
<1>1. ASSUME UNCHANGED <<db, audit>> PROVE Kept
  BY <1>1 DEF Logged, AuditMatches, Exists, OneEach, InProgress, InProgressIn
<1>2. ASSUME NEW r \in Request, Quiet(r) PROVE Kept
  BY <1>1, <1>2, QuietSteps
<1>3. ASSUME NEW r \in Request, TxCommit(r) PROVE Kept
  BY <1>3, CommitProgress
<1>4. ASSUME NEW r \in Request PROVE ~EditWrite(r)
  BY DEF EditWrite, NoEdits
<1>5. ASSUME NEW r \in Request, NEW u \in User, NEW t \in Ticket PROVE ~Unarchive(r, u, t)
  BY DEF Unarchive, Atomically
<1>6. ASSUME NEW r \in Request, NEW u \in User, NEW t \in Ticket, McpCreate(r, u, t)
      PROVE  Kept
  <2>1. PICK c \in NewColumn, b \in Board : db' = [db EXCEPT ![t] = FreshRow(c, NoUser, b)]
    BY <1>6 DEF McpCreate
  <2>2. FreshRow(c, NoUser, b) \in FreshRows
    BY DEF FreshRows, Assignee
  <2>3. db[t] = Unused /\ audit' = audit
    BY <1>6 DEF McpCreate
  <2> QED
    BY <2>1, <2>2, <2>3, CreateProgress
<1>7. ASSUME NEW t \in Ticket, Create(t) PROVE Kept
  BY <1>7, CreateProgress DEF Create
<1>8. ASSUME NEW u \in User, NEW S \in SUBSET Ticket, Archive(u, S) PROVE Kept
  <2>1. \A x \in Ticket :
          /\ x \notin S => db'[x] = db[x]
          /\ x \in S => /\ db[x] \in Row /\ db'[x] = [db[x] EXCEPT !.archived = TRUE]
                        /\ db'[x] \in Row /\ db'[x].column = db[x].column
                        /\ db'[x].archived = TRUE
    BY <1>8 DEF Archive, Exists, Row
  <2>2. audit' = audit
    BY <1>8 DEF Archive
  <2>3. ASSUME Logged PROVE Logged'
    BY <2>1, <2>2, <2>3, RowAssumption DEF Logged, AuditMatches, Exists
  <2>4. ASSUME OneEach PROVE OneEach'
    BY <2>1, <2>4, KeepsOneEach DEF InProgress, InProgressIn
  <2> QED
    BY <2>3, <2>4
<1>9. ASSUME NEW t \in Ticket, Delete(t) PROVE Kept
  <2>1. \A x \in Ticket : db'[x] = (IF x = t THEN Deleted ELSE db[x])
    BY <1>0, <1>9 DEF Delete
  <2>2. audit' = audit
    BY <1>9 DEF Delete
  <2>3. ASSUME Logged PROVE Logged'
    BY <2>1, <2>2, <2>3, RowAssumption DEF Logged, AuditMatches, Exists
  <2>4. ASSUME OneEach PROVE OneEach'
    BY <2>1, <2>4, RowAssumption, KeepsOneEach DEF InProgress, InProgressIn
  <2> QED
    BY <2>3, <2>4
<1>10. CASE Restart
  BY <1>1, <1>10 DEF Restart
<1>11. CASE UNCHANGED vars
  BY <1>1, <1>11 DEF vars
<1> QED
  BY <1>2, <1>3, <1>4, <1>5, <1>6, <1>7, <1>8, <1>9, <1>10, <1>11 DEF Next, Quiet

LEMMA AlwaysNoEdits ==
    ASSUME Atomically
    PROVE  Spec => [](TypeInv /\ TxInv /\ NoEdits)
<1>1. Spec => [](TypeInv /\ TxInv)
  BY AlwaysTxInv DEF Atomically
<1>2. TypeInv /\ NoEdits /\ [Next]_vars => NoEdits'
  BY NextNoEdits DEF Atomically
<1> QED
  BY <1>1, <1>2, InitNoEdits, PTL DEF Spec

\* Over SQLite the newest activity row of a ticket names the column it is in,
\* whatever transactions overlap, fail or are cut short by a crash.
THEOREM LogNamesTheColumn == ASSUME Atomically PROVE Spec => []AuditMatches
<1>1. TypeInv /\ TxInv /\ NoEdits /\ Logged /\ [Next]_vars => Logged'
  BY NextProgress
<1>2. Spec => []Logged
  BY <1>1, InitProgress, AlwaysNoEdits, PTL DEF Spec
<1> QED
  BY <1>2, PTL DEF Logged

\* Where only claims bring tickets to the in-progress column, nobody ever has
\* two of them there, however many claims of a user run at the same time.
THEOREM NobodyHasTwo == ASSUME Atomically, OnlyClaims PROVE Spec => []OneTicketInProgress
<1>1. TypeInv /\ TxInv /\ NoEdits /\ OneEach /\ [Next]_vars => OneEach'
  BY NextProgress
<1>2. Init => OneEach
  BY InitProgress
<1>3. Spec => []OneEach
  BY <1>1, <1>2, AlwaysNoEdits, PTL DEF Spec
<1> QED
  BY <1>3, AtMostOne, PTL
-----------------------------------------------------------------------------
(* The handlers that read a row and write the whole row back *)

\* Neither a service nor the MCP comment tool, which write without mu.
OnlyHandlers == Ops \cap (TxOps \cup {"mcp_comment"}) = {}

\* The row with which an unarchive puts a ticket into its place.
PlacedRow(row, c, b) == [row EXCEPT !.column = c, !.board = b, !.archived = FALSE]

\* The row that slot r writes back is the one it read but for what its request
\* is about.
EditOf(r, op, row, new) ==
    \/ op = "edit" /\ new = row
    \/ op = "assign" /\ \E a \in Assignee : new = [row EXCEPT !.assignee = a]
    \/ op = "comment" /\ new = [row EXCEPT !.comments = @ \cup {r}]
    \/ op = "uncomment" /\ \E c \in Comment : new = [row EXCEPT !.comments = @ \ {c}]
    \/ /\ op = "unarchive"
       /\ ~row.archived
       /\ \E c \in NewColumn \cup {row.column}, b \in Board : new = PlacedRow(row, c, b)

\* The slot between its read and its write holds mu, and what it read is what
\* the table holds.
Locked(r) ==
    /\ ~InTx(r)
    /\ req[r].pc \in {"write", "place"} => mu = r
    /\ req[r].pc = "place" => /\ req[r].op = "unarchive"
                              /\ db[req[r].ticket] \in Row
                              /\ ~db[req[r].ticket].archived
    /\ req[r].pc = "write" => /\ req[r].seen \in Row
                              /\ db[req[r].ticket] = req[r].seen
                              /\ EditOf(r, req[r].op, req[r].seen, req[r].new)

LockInv == \A r \in Request : Locked(r)

LEMMA InitLockInv == Init => LockInv
  BY DEF Init, LockInv, Locked, InTx, IdleReq

\* A step of slot r that ends between two requests, and leaves the rows of
\* the others and their lock alone.
LEMMA SlotEnds ==
    ASSUME TypeInv, LockInv, NEW r \in Request, NEW q, req' = [req EXCEPT ![r] = q],
           q.pc \in {"idle", "reply", "reread"},
           \A p \in Request \ {r} : req[p].pc \in {"write", "place"} =>
               mu' = mu /\ db'[req[p].ticket] = db[req[p].ticket]
    PROVE  LockInv'
<1> SUFFICES ASSUME NEW p \in Request PROVE Locked(p)'
  BY DEF LockInv
<1>0. req \in [Request -> ReqState]
  BY DEF TypeInv, TypeOK
<1>1. CASE p = r
  <2>1. req'[p] = q
    BY <1>0, <1>1
  <2> QED
    BY <2>1 DEF Locked, InTx
<1>2. CASE p # r
  <2>1. req'[p] = req[p]
    BY <1>0, <1>2
  <2> QED
    BY <1>2, <2>1 DEF LockInv, Locked, InTx
<1> QED
  BY <1>1, <1>2

\* While mu is free nobody is between a read and a write.
LEMMA FreeMeansNobody ==
    ASSUME LockInv, MuFree, NEW p \in Request
    PROVE  req[p].pc \notin {"list", "commit", "write", "place"}
  BY NamesAssumption DEF LockInv, Locked, MuFree, InTx

\* The holder of mu is the only one.
LEMMA OneHolder ==
    ASSUME LockInv, NEW r \in Request, req[r].pc \in {"write", "place"},
           NEW p \in Request \ {r}
    PROVE  req[p].pc \notin {"list", "commit", "write", "place"}
  BY DEF LockInv, Locked, InTx

\* A step of slot r after which it, and nobody else, holds mu.
LEMMA SlotHolds ==
    ASSUME TypeInv, LockInv, NEW r \in Request, NEW q, req' = [req EXCEPT ![r] = q],
           \A p \in Request \ {r} : req[p].pc \notin {"list", "commit", "write", "place"},
           Locked(r)'
    PROVE  LockInv'
<1> SUFFICES ASSUME NEW p \in Request, p # r PROVE Locked(p)'
  BY DEF LockInv
<1>1. req'[p] = req[p]
  BY DEF TypeInv, TypeOK
<1> QED
  BY <1>1 DEF Locked, InTx

LEMMA HandlerReadLockInv ==
    ASSUME OnlyHandlers, TypeInv, LockInv, NEW r \in Request, HandlerRead(r)
    PROVE  LockInv'
<1>0. PICK u \in User, t \in Ticket : EditRead(r, u, t) \/ CommentRead(r, u, t)
  BY DEF HandlerRead
<1>1. MuFree /\ mu' = r /\ Exists(t)
  BY <1>0 DEF EditRead, CommentRead, OnlyHandlers
<1>2. ASSUME NEW op, NEW new \in Row, Read(r, op, u, t, FALSE, "write", new),
             \/ op = "edit" /\ new = db[t]
             \/ op = "assign" /\ \E a \in Assignee : new = [db[t] EXCEPT !.assignee = a]
             \/ op = "comment" /\ new = [db[t] EXCEPT !.comments = @ \cup {r}]
             \/ op = "uncomment" /\ \E c \in Comment : new = [db[t] EXCEPT !.comments = @ \ {c}]
      PROVE  LockInv'
  <2> DEFINE q == [IdleReq EXCEPT !.pc = "write", !.op = op, !.user = u, !.force = FALSE,
                                  !.ticket = t, !.seen = db[t], !.new = new]
  <2>1. /\ q.pc = "write" /\ q.op = op /\ q.ticket = t /\ q.seen = db[t] /\ q.new = new
    BY DEF IdleReq
  <2>2. req' = [req EXCEPT ![r] = q] /\ UNCHANGED db
    BY <1>2 DEF Read
  <2> HIDE DEF q
  <2>3. req'[r] = q
    BY <2>2 DEF TypeInv, TypeOK
  <2>4. EditOf(r, req[r].op, req[r].seen, req[r].new)'
    BY <1>2, <2>1, <2>3 DEF EditOf
  <2>5. Locked(r)'
    BY <1>1, <2>1, <2>2, <2>3, <2>4 DEF Locked, InTx, Exists
  <2> QED
    BY <1>1, <2>2, <2>5, FreeMeansNobody, SlotHolds
<1>3. db[t] \in Row /\ r \in Comment
  BY <1>1, RequestAssumption DEF Exists
<1>4. CASE EditRead(r, u, t)
  <2>1. \A a \in Assignee : [db[t] EXCEPT !.assignee = a] \in Row
    BY <1>3 DEF Row
  <2>2. \A c \in db[t].comments : c \in Comment /\ [db[t] EXCEPT !.comments = @ \ {c}] \in Row
    BY <1>3 DEF Row
  <2> QED
    BY <1>2, <1>3, <1>4, <2>1, <2>2 DEF EditRead
<1>5. CASE CommentRead(r, u, t)
  <2>1. [db[t] EXCEPT !.comments = @ \cup {r}] \in Row
    BY <1>3 DEF Row
  <2>2. Read(r, "comment", u, t, FALSE, "write", [db[t] EXCEPT !.comments = @ \cup {r}])
    BY <1>5 DEF CommentRead, OnlyHandlers
  <2> QED
    BY <1>2, <2>1, <2>2
<1> QED
  BY <1>0, <1>4, <1>5

LEMMA NextLockInv ==
    ASSUME OnlyHandlers
    PROVE  TypeInv /\ LockInv /\ [Next]_vars => LockInv'
<1> SUFFICES ASSUME TypeInv, LockInv, [Next]_vars PROVE LockInv'
  OBVIOUS
<1>0. req \in [Request -> ReqState] /\ db \in [Ticket -> Entry]
  BY DEF TypeInv, TypeOK
<1>i. IdleReq.pc = "idle"
  BY DEF IdleReq
<1>p. \A op, t, row, o : Replying(op, t, row, o).pc = "reply"
  BY DEF Replying, IdleReq
<1>1. ASSUME NEW r \in Request PROVE ~ServiceRead(r) /\ ~ClaimList(r) /\ ~TxCommit(r)
  BY DEF ServiceRead, ClaimRead, MoveRead, ReleaseRead, ClaimList, TxCommit, OnlyHandlers, TxOps,
         LockInv, Locked, InTx
<1>2. ASSUME NEW r \in Request, HandlerRead(r) PROVE LockInv'
  BY <1>2, HandlerReadLockInv
<1>3. ASSUME NEW r \in Request, EditWrite(r) PROVE LockInv'
  <2>1. req[r].pc = "write"
    BY <1>3 DEF EditWrite
  <2>2. \A p \in Request \ {r} : req[p].pc \notin {"write", "place"}
    BY <2>1, OneHolder
  <2>3. \E q : req' = [req EXCEPT ![r] = q] /\ q.pc \in {"idle", "reply"}
    BY <1>3, <1>i, <1>p DEF EditWrite, ReplyNext, Finish
  <2> QED
    BY <2>2, <2>3, SlotEnds
<1>4. ASSUME NEW r \in Request, NEW u \in User, NEW t \in Ticket, Unarchive(r, u, t) PROVE LockInv'
  <2>0. MuFree
    BY <1>4 DEF Unarchive
  <2>1. CASE UNCHANGED <<req, mu>>
    BY <2>0, <2>1, FreeMeansNobody DEF LockInv, Locked, InTx
  <2>2. CASE /\ mu' = r
             /\ req' = [req EXCEPT ![r] = [IdleReq EXCEPT !.pc = "place", !.op = "unarchive",
                                                          !.user = u, !.ticket = t]]
    <3>1. req'[r].pc = "place" /\ req'[r].op = "unarchive" /\ req'[r].ticket = t
      BY <1>0, <2>2 DEF IdleReq
    <3>r. db'[t] = [db[t] EXCEPT !.archived = FALSE] /\ db[t] \in Row
      BY <1>0, <1>4 DEF Unarchive, Exists
    <3>a. db'[t] \in Row /\ ~db'[t].archived
      BY <3>r DEF Row
    <3>2. Locked(r)'
      BY <2>2, <3>1, <3>a DEF Locked, InTx
    <3> QED
      BY <2>0, <2>2, <3>2, FreeMeansNobody, SlotHolds
  <2> QED
    BY <1>4, <2>1, <2>2 DEF Unarchive
<1>5. ASSUME NEW r \in Request, UnarchivePlace(r) PROVE LockInv'
  <2> DEFINE t == req[r].ticket
  <2>0. /\ req[r].pc = "place" /\ UNCHANGED <<db, mu>> /\ req[r].op = "unarchive"
        /\ db[t] \in Row /\ ~db[t].archived
    BY <1>5 DEF UnarchivePlace, Exists, LockInv, Locked
  <2>1. PICK c \in NewColumn \cup {db[t].column}, b \in Board :
          req' = [req EXCEPT ![r].pc = "write", ![r].seen = db[t],
                             ![r].new = PlacedRow(db[t], c, b)]
    BY <1>5 DEF UnarchivePlace, PlacedRow
  <2> DEFINE q == [req[r] EXCEPT !.pc = "write", !.seen = db[t],
                                 !.new = PlacedRow(db[t], c, b)]
  <2>2. req' = [req EXCEPT ![r] = q]
    BY <1>0, <2>1
  <2>3. /\ q.pc = "write" /\ q.seen = db[t] /\ q.ticket = req[r].ticket /\ q.op = "unarchive"
        /\ q.new = PlacedRow(db[t], c, b)
    BY <1>0, <2>0 DEF ReqState
  <2> HIDE DEF q
  <2>4. req'[r] = q
    BY <1>0, <2>2
  <2>e. EditOf(r, q.op, q.seen, q.new)
    BY <2>0, <2>3 DEF EditOf
  <2>5. Locked(r)'
    BY <2>0, <2>3, <2>4, <2>e DEF LockInv, Locked, InTx
  <2> QED
    BY <2>0, <2>2, <2>5, OneHolder, SlotHolds
<1>6. ASSUME NEW r \in Request, Fail(r) PROVE LockInv'
  <2>1. req[r].pc \in {"write", "place"}
    BY <1>6 DEF Fail, LockInv, Locked, InTx
  <2>2. \A p \in Request \ {r} : req[p].pc \notin {"write", "place"}
    BY <2>1, OneHolder
  <2> QED
    BY <1>6, <1>i, <2>2, SlotEnds DEF Fail, Finish
<1>7. ASSUME NEW r \in Request, Reply(r) \/ McpReply(r) \/ McpReread(r) PROVE LockInv'
  <2> DEFINE q == [Replying("claim", req[r].other, NoRow, NoTicket) EXCEPT !.pc = "reread"]
  <2>0. UNCHANGED <<db, mu>>
    BY <1>7 DEF Reply, McpReply, McpReread
  <2>1. q.pc = "reread"
    BY DEF Replying, IdleReq
  <2>2. Reply(r) \/ McpReread(r) => LockInv'
    BY <2>0, <1>i, <1>p, SlotEnds DEF Reply, McpReread, Finish
  <2>3. McpReply(r) => req' = [req EXCEPT ![r] = q]
    BY DEF McpReply
  <2> HIDE DEF q
  <2>4. McpReply(r) => LockInv'
    BY <2>0, <2>1, <2>3, SlotEnds
  <2> QED
    BY <1>7, <2>2, <2>4
<1>8. ASSUME NEW r \in Request, NEW u \in User, NEW t \in Ticket, McpCreate(r, u, t) PROVE LockInv'
  <2>1. PICK c \in NewColumn, b \in Board :
          req' = [req EXCEPT ![r] = Replying("mcp_create", t, FreshRow(c, NoUser, b), NoTicket)]
    BY <1>8 DEF McpCreate
  <2>2. UNCHANGED mu /\ db[t] = Unused /\ \A x \in Ticket \ {t} : db'[x] = db[x]
    BY <1>0, <1>8 DEF McpCreate
  <2>3. \A p \in Request : req[p].pc \in {"write", "place"} =>
          req[p].ticket \in Ticket /\ req[p].ticket # t
    BY <2>2, RowAssumption DEF TypeInv, Pending, LockInv, Locked
  <2>p. \A p \in Request \ {r} : req[p].pc \in {"write", "place"} =>
          mu' = mu /\ db'[req[p].ticket] = db[req[p].ticket]
    BY <2>2, <2>3
  <2> DEFINE q == Replying("mcp_create", t, FreshRow(c, NoUser, b), NoTicket)
  <2>q. req' = [req EXCEPT ![r] = q] /\ q.pc = "reply"
    BY <1>p, <2>1
  <2> HIDE DEF q
  <2> QED
    BY <2>p, <2>q, SlotEnds
<1>9. ASSUME MuFree, UNCHANGED <<req, mu>> PROVE LockInv'
  BY <1>9, FreeMeansNobody DEF LockInv, Locked, InTx
<1>10. ASSUME NEW u \in User, NEW S \in SUBSET Ticket, Archive(u, S) PROVE LockInv'
  BY <1>9, <1>10 DEF Archive
<1>11. ASSUME NEW t \in Ticket, Create(t) \/ Delete(t) PROVE LockInv'
  BY <1>9, <1>11 DEF Create, Delete
<1>12. CASE Restart
  BY <1>12, <1>i DEF Restart, LockInv, Locked, InTx
<1>13. CASE UNCHANGED vars
  BY <1>13 DEF vars, LockInv, Locked, InTx
<1> QED
  BY <1>1, <1>2, <1>3, <1>4, <1>5, <1>6, <1>7, <1>8, <1>10, <1>11, <1>12, <1>13 DEF Next

LEMMA AlwaysLockInv == ASSUME OnlyHandlers PROVE Spec => [](TypeInv /\ LockInv)
<1>1. TypeInv /\ LockInv /\ [Next]_vars => LockInv'
  BY NextLockInv
<1> QED
  BY <1>1, InitTypeInv, NextTypeInv, InitLockInv, PTL DEF Spec

\* The write of a handler, on the table it has read.
LEMMA WriteEffect ==
    ASSUME TypeInv, LockInv, NEW r \in Request, req[r].pc = "write",
           db' = [db EXCEPT ![req[r].ticket] = Written(req[r].ticket, req[r].new)]
    PROVE  /\ req[r].ticket \in Ticket /\ EditOf(r, req[r].op, req[r].seen, req[r].new)
           /\ db[req[r].ticket] = req[r].seen /\ req[r].seen \in Row
           /\ db'[req[r].ticket] = req[r].new
           /\ \A x \in Ticket \ {req[r].ticket} : db'[x] = db[x]
  BY DEF TypeInv, TypeOK, Pending, LockInv, Locked, Written, Exists

\* An edit, a comment or a subtask never changes a field that its request does
\* not name, whatever other handlers did since it read the row: the mutex
\* covers the read and the write.
THEOREM HandlersKeepFields == ASSUME OnlyHandlers PROVE Spec => UnnamedFieldsKept
<1> DEFINE Kept(r) ==
      LET t == req[r].ticket
      IN  Exists(t) => db'[t] = [db[t] EXCEPT !.comments = db'[t].comments]
<1>1. ASSUME TypeInv, LockInv, NEW r \in Request, EditCommit(r),
             req[r].op \in {"edit", "comment", "uncomment"}
      PROVE  Kept(r)
  <2>1. PICK seen \in Row, new \in {req[r].new} :
          /\ seen = req[r].seen /\ new = req[r].new
          /\ db[req[r].ticket] = seen /\ db'[req[r].ticket] = new
    BY <1>1, WriteEffect DEF EditCommit
  <2>2. \/ new = seen
        \/ new = [seen EXCEPT !.comments = @ \cup {r}]
        \/ \E c \in Comment : new = [seen EXCEPT !.comments = @ \ {c}]
    <3>1. EditOf(r, req[r].op, req[r].seen, req[r].new)
      BY <1>1 DEF EditCommit, LockInv, Locked
    <3> QED
      BY <1>1, <2>1, <3>1 DEF EditOf
  <2>3. new = [seen EXCEPT !.comments = new.comments]
    BY <2>2 DEF Row
  <2> QED
    BY <2>1, <2>3
<1>2. TypeInv /\ LockInv /\ [Next]_vars =>
        [\A r \in Request :
           EditCommit(r) /\ req[r].op \in {"edit", "comment", "uncomment"} => Kept(r)]_vars
  BY <1>1
<1> QED
  BY <1>2, AlwaysLockInv, PTL DEF Spec, UnnamedFieldsKept

\* A stored comment disappears only by a request that deletes a comment or the
\* ticket, however handlers wait for each other, fail or are cut short.
THEOREM HandlersKeepComments == ASSUME OnlyHandlers PROVE Spec => CommentsKept
<1> DEFINE Kept(t) ==
      Exists(t) /\ Exists(t)' =>
        \/ db[t].comments \subseteq db'[t].comments
        \/ \E r \in Request : EditCommit(r) /\ req[r].op = "uncomment"
<1>1. ASSUME TypeInv, LockInv, [Next]_vars, NEW t \in Ticket PROVE Kept(t)
  <2>0. db \in [Ticket -> Entry]
    BY <1>1 DEF TypeInv, TypeOK
  <2>1. ASSUME NEW r \in Request, EditWrite(r) PROVE Kept(t)
    <3>0. /\ req[r].pc = "write"
          /\ db' = [db EXCEPT ![req[r].ticket] = Written(req[r].ticket, req[r].new)]
      BY <2>1 DEF EditWrite
    <3>1. CASE t # req[r].ticket
      BY <1>1, <3>0, <3>1, WriteEffect
    <3>2. CASE t = req[r].ticket /\ req[r].op = "uncomment"
      <4>1. req'[r].pc \in {"idle", "reply"}
        <5>1. \/ req' = [req EXCEPT ![r] = IdleReq]
              \/ req' = [req EXCEPT ![r] =
                           Replying(req[r].op, req[r].ticket, req[r].new, req[r].other)]
          BY <2>1 DEF EditWrite, ReplyNext, Finish
        <5>2. /\ IdleReq.pc = "idle"
              /\ Replying(req[r].op, req[r].ticket, req[r].new, req[r].other).pc = "reply"
          BY DEF Replying, IdleReq
        <5> QED
          BY <1>1, <5>1, <5>2 DEF TypeInv, TypeOK
      <4> QED
        BY <3>0, <3>2, <4>1 DEF EditCommit
    <3>3. CASE t = req[r].ticket /\ req[r].op # "uncomment"
      <4>1. PICK seen \in Row, new \in {req[r].new} :
              /\ seen = req[r].seen /\ new = req[r].new /\ db[t] = seen /\ db'[t] = new
        BY <1>1, <3>0, <3>3, WriteEffect
      <4>2. \/ new = seen
            \/ \E a \in Assignee : new = [seen EXCEPT !.assignee = a]
            \/ new = [seen EXCEPT !.comments = @ \cup {r}]
            \/ \E c \in NewColumn \cup {seen.column}, b \in Board :
                 new = PlacedRow(seen, c, b)
        <5>1. EditOf(r, req[r].op, seen, new)
          BY <1>1, <3>0, <4>1 DEF LockInv, Locked
        <5> QED
          BY <3>3, <4>1, <5>1 DEF EditOf
      <4>3. seen.comments \subseteq new.comments
        BY <4>2 DEF Row, PlacedRow
      <4> QED
        BY <4>1, <4>3
    <3> QED
      BY <3>1, <3>2, <3>3
  <2>2. ASSUME UNCHANGED db PROVE Kept(t)
    BY <2>2
  <2>3. ASSUME NEW r \in Request PROVE ~TxCommit(r)
    BY <1>1 DEF TxCommit, LockInv, Locked, InTx
  <2>4. ASSUME NEW r \in Request, NEW u \in User, NEW x \in Ticket, Unarchive(r, u, x)
        PROVE  Kept(t)
    <3>1. db' = [db EXCEPT ![x].archived = FALSE] /\ db[x] \in Row
      BY <2>4 DEF Unarchive, Exists
    <3> QED
      BY <2>0, <3>1 DEF Row
  <2>5. ASSUME NEW x \in Ticket, db[x] = Unused, \A y \in Ticket \ {x} : db'[y] = db[y]
        PROVE  Kept(t)
    BY <2>5, RowAssumption DEF Exists
  <2>6. ASSUME NEW r \in Request, NEW u \in User, NEW x \in Ticket, McpCreate(r, u, x)
        PROVE  Kept(t)
    BY <2>0, <2>5, <2>6 DEF McpCreate
  <2>7. ASSUME NEW x \in Ticket, Create(x) PROVE Kept(t)
    BY <2>0, <2>5, <2>7 DEF Create
  <2>8. ASSUME NEW u \in User, NEW S \in SUBSET Ticket, Archive(u, S) PROVE Kept(t)
    <3>1. t \in S => db[t] \in Row /\ db'[t] = [db[t] EXCEPT !.archived = TRUE]
      BY <2>8 DEF Archive, Exists
    <3>2. t \notin S => db'[t] = db[t]
      BY <2>8 DEF Archive
    <3> QED
      BY <3>1, <3>2 DEF Row
  <2>9. ASSUME NEW x \in Ticket, Delete(x) PROVE Kept(t)
    BY <2>0, <2>9, RowAssumption DEF Delete, Exists
  <2>10. ASSUME NEW r \in Request, Quiet(r) PROVE Kept(t)
    BY <2>2, <2>10, QuietSteps
  <2>11. Restart \/ UNCHANGED vars => Kept(t)
    BY <2>2 DEF Restart, vars
  <2> HIDE DEF Kept
  <2> QED
    BY <1>1, <2>1, <2>3, <2>4, <2>6, <2>7, <2>8, <2>9, <2>10, <2>11 DEF Next, Quiet
<1>2. TypeInv /\ LockInv /\ [Next]_vars => [\A t \in Ticket : Kept(t)]_vars
  BY <1>1
<1> QED
  BY <1>2, AlwaysLockInv, PTL DEF Spec, CommentsKept
-----------------------------------------------------------------------------
(* The refinement *)

LEMMA WriteIsAtomic ==
    ASSUME TypeInv, LockInv, NEW r \in Request, EditWrite(r)
    PROVE  Atomic!Next \/ UNCHANGED <<db, audit>>
<1>0. /\ req[r].pc = "write" /\ audit' = audit
      /\ db' = [db EXCEPT ![req[r].ticket] = Written(req[r].ticket, req[r].new)]
      /\ db \in [Ticket -> Entry]
  BY DEF EditWrite, TypeInv, TypeOK
<1>1. PICK t \in Ticket : t = req[r].ticket
  BY <1>0, WriteEffect
<1>2. PICK row \in Row, new \in {req[r].new} :
        /\ row = req[r].seen /\ new = req[r].new
        /\ db[t] = row /\ db' = [db EXCEPT ![t] = new]
  BY <1>0, <1>1, WriteEffect DEF Written, Exists
<1>3. EditOf(r, req[r].op, row, new)
  BY <1>0, <1>2 DEF LockInv, Locked
<1>4. CASE req[r].op = "edit"
  BY <1>0, <1>2, <1>3, <1>4 DEF EditOf
<1>5. CASE req[r].op \in {"assign", "comment", "uncomment"}
  <2>1. \/ \E a \in Assignee : new = [row EXCEPT !.assignee = a]
        \/ new = [row EXCEPT !.comments = @ \cup {r}]
        \/ \E c \in Comment : new = [row EXCEPT !.comments = @ \ {c}]
    BY <1>2, <1>3, <1>5 DEF EditOf
  <2>e. Atomic!Exists(t) /\ r \in Comment
    BY <1>2, SameRows, RequestAssumption DEF Exists
  <2>a. ASSUME NEW a \in Assignee, new = [row EXCEPT !.assignee = a] PROVE Atomic!Edit(t)
    <3>1. db' = [db EXCEPT ![t].assignee = a]
      BY <1>0, <1>2, <2>a
    <3> QED
      BY <1>0, <2>e, <3>1 DEF Atomic!Edit, Atomic!Assignee, Assignee
  <2>b. ASSUME new = [row EXCEPT !.comments = @ \cup {r}] PROVE Atomic!Edit(t)
    <3>1. db' = [db EXCEPT ![t].comments = @ \cup {r}]
      BY <1>0, <1>2, <2>b
    <3> QED
      BY <1>0, <2>e, <3>1 DEF Atomic!Edit
  <2>c. ASSUME NEW c \in Comment, new = [row EXCEPT !.comments = @ \ {c}] PROVE Atomic!Edit(t)
    <3>1. db' = [db EXCEPT ![t].comments = @ \ {c}]
      BY <1>0, <1>2, <2>c
    <3> QED
      BY <1>0, <2>e, <3>1 DEF Atomic!Edit
  <2>2. Atomic!Edit(t)
    BY <2>1, <2>a, <2>b, <2>c
  <2> QED
    BY <2>2 DEF Atomic!Next
<1>6. CASE req[r].op = "unarchive"
  <2>1. PICK c \in NewColumn \cup {row.column}, b \in Board :
          new = PlacedRow(row, c, b)
    BY <1>2, <1>3, <1>6 DEF EditOf
  <2>2. ~row.archived
    BY <1>2, <1>3, <1>6 DEF EditOf
  <2>3. new = [row EXCEPT !.column = c, !.board = b]
    BY <2>1, <2>2 DEF Row, PlacedRow
  <2>w. db' = [db EXCEPT ![t].column = c, ![t].board = b]
    BY <1>0, <1>2, <2>3
  <2>4. Atomic!Place(t)
    BY <1>0, <1>2, <2>1, <2>2, <2>w, SameRows DEF Exists, Atomic!Place
  <2> QED
    BY <2>4 DEF Atomic!Next
<1> QED
  BY <1>3, <1>4, <1>5, <1>6 DEF EditOf

LEMMA HandlerStepIsAtomic ==
    ASSUME TypeInv, LockInv, [Next]_vars
    PROVE  [Atomic!Next]_(Atomic!vars)
<1>1. ASSUME UNCHANGED <<db, audit>> PROVE UNCHANGED Atomic!vars
  BY <1>1 DEF Atomic!vars
<1>2. ASSUME NEW r \in Request, Quiet(r) PROVE UNCHANGED Atomic!vars
  BY <1>1, <1>2, QuietSteps
<1>3. ASSUME NEW r \in Request PROVE ~TxCommit(r)
  BY DEF TxCommit, LockInv, Locked, InTx
<1>4. ASSUME NEW r \in Request, EditWrite(r) PROVE Atomic!Next \/ UNCHANGED Atomic!vars
  BY <1>1, <1>4, WriteIsAtomic
<1>5. ASSUME NEW r \in Request, NEW u \in User, NEW t \in Ticket, Unarchive(r, u, t)
      PROVE  Atomic!Next
  <2>1. Atomic!Unarchive(u, t)
    BY <1>5, SameRows, SameDecisions DEF Unarchive, Atomic!Unarchive
  <2> QED
    BY <2>1 DEF Atomic!Next
<1>6. ASSUME NEW r \in Request, NEW u \in User, NEW t \in Ticket, McpCreate(r, u, t)
      PROVE  Atomic!Next
  <2>0. PICK c \in NewColumn, b \in Board : db' = [db EXCEPT ![t] = FreshRow(c, NoUser, b)]
    BY <1>6 DEF McpCreate
  <2>1. FreshRow(c, NoUser, b) \in FreshRows
    BY DEF FreshRows, Assignee
  <2>2. Atomic!Create(t)
    BY <1>6, <2>0, <2>1, SameRows DEF McpCreate, Atomic!Create
  <2> QED
    BY <2>2 DEF Atomic!Next
<1>7. ASSUME NEW u \in User, NEW S \in SUBSET Ticket, Archive(u, S) PROVE Atomic!Next
  <2>1. Atomic!Archive(u, S)
    BY <1>7, SameRows, SameDecisions DEF Archive, Atomic!Archive
  <2> QED
    BY <2>1 DEF Atomic!Next
<1>8. ASSUME NEW t \in Ticket, Create(t) \/ Delete(t) PROVE Atomic!Next
  <2>1. Atomic!Create(t) \/ Atomic!Delete(t)
    BY <1>8, SameRows DEF Create, Atomic!Create, Delete, Atomic!Delete
  <2> QED
    BY <2>1 DEF Atomic!Next
<1>9. Restart \/ UNCHANGED vars => UNCHANGED Atomic!vars
  BY <1>1 DEF Restart, vars
<1> QED
  BY <1>2, <1>3, <1>4, <1>5, <1>6, <1>7, <1>8, <1>9 DEF Next, Quiet

\* The edit, comment, archive, unarchive, create and delete handlers implement
\* TicketBoard on any store: each takes effect at one instant, on the tickets
\* as they are then, because mu covers its read and its write.
THEOREM HandlersImplementTicketBoard == ASSUME OnlyHandlers PROVE Spec => AtomicSpec
<1>1. TypeInv /\ LockInv /\ [Next]_vars => [Atomic!Next]_(Atomic!vars)
  BY HandlerStepIsAtomic
<1> QED
  BY <1>1, AlwaysLockInv, InitIsAtomic, PTL DEF Spec, AtomicSpec, Atomic!Spec
=============================================================================
