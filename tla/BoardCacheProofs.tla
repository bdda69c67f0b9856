-------------------------- MODULE BoardCacheProofs --------------------------
(***************************************************************************)
(* Proofs about BoardCache, for any tickets, slots and boards and for both *)
(* isolation levels: the boards keep their shape, and they show what the   *)
(* table holds of every ticket that is not excused and that no request has *)
(* yet to sync.                                                            *)
(***************************************************************************)
EXTENDS BoardCache, TicketServiceProofs

-----------------------------------------------------------------------------
(* Beside the table *)

\* A step of the cached server is one of TicketService, but for a create whose
\* store call fails: that uses an id up.
LEMMA CacheSteps ==
    ASSUME CacheNext
    PROVE  [Next]_vars \/ \E t \in Ticket : CreateWithoutRow(t)
<1>1. ASSUME NEW r \in Request, StoreStep(r) PROVE Next
  BY <1>1 DEF StoreStep, CachedEditWrite, CachedReread, Next
<1>2. ASSUME NEW r \in Request, Sync(r) PROVE Next
  BY <1>2 DEF Sync, CachedReply, CachedMcpReply, Next
<1>3. ASSUME NEW r \in Request, ServiceRead(r) \/ HandlerRead(r) PROVE Next
  BY <1>3 DEF Next
<1>4. ASSUME NEW r \in Request, NEW u \in User, NEW t \in Ticket,
             CachedUnarchive(r, u, t) \/ McpCreate(r, u, t)
      PROVE  Next
  BY <1>4 DEF CachedUnarchive, Next
<1>5. ASSUME NEW u \in User, NEW S \in SUBSET Ticket, CachedArchive(u, S) PROVE Next
  BY <1>5 DEF CachedArchive, Next
<1>6. ASSUME NEW t \in Ticket, CachedCreate(t) \/ CachedDelete(t) PROVE Next
  BY <1>6 DEF CachedCreate, CachedDelete, Next
<1>7. ASSUME NEW t \in Ticket, DeleteKeepsRow(t) PROVE UNCHANGED vars
  BY <1>7 DEF DeleteKeepsRow
<1>8. CachedRestart => Next
  BY DEF CachedRestart, Next
<1> QED
  BY <1>1, <1>2, <1>3, <1>4, <1>5, <1>6, <1>7, <1>8 DEF CacheNext

\* Whatever is proved of TicketService holds beside the cache, as long as no
\* create loses its row.
THEOREM CacheImplementsTicketService ==
    ASSUME "create_lost" \notin Ops PROVE CacheSpec => Spec
<1>1. CacheInit => Init
  BY DEF CacheInit
<1>2. [CacheNext]_cacheVars => [Next]_vars
  BY CacheSteps DEF CreateWithoutRow, cacheVars
<1> QED
  BY <1>1, <1>2, PTL DEF CacheSpec, Spec

LEMMA CacheTypeInv == TypeInv /\ [CacheNext]_cacheVars => TypeInv'
<1> SUFFICES ASSUME TypeInv, [CacheNext]_cacheVars PROVE TypeInv'
  OBVIOUS
<1>1. CASE [Next]_vars
  BY <1>1, NextTypeInv
<1>2. ASSUME NEW t \in Ticket, CreateWithoutRow(t) PROVE TypeInv'
  <2>1. /\ db' = [db EXCEPT ![t] = Deleted] /\ db \in [Ticket -> Entry] /\ Deleted \in Entry
        /\ UNCHANGED <<audit, req, stale, mu>>
    BY <1>2 DEF CreateWithoutRow, TypeInv, TypeOK, Entry
  <2>2. db' \in [Ticket -> Entry]
    BY <2>1
  <2> HIDE <1>2
  <2> QED
    BY <2>1, <2>2 DEF TypeInv, TypeOK, Pending, InTx
<1> QED
  BY <1>1, <1>2, CacheSteps DEF cacheVars, vars

\* An id is used once.
LEMMA UsedStays ==
    ASSUME TypeInv, [CacheNext]_cacheVars, NEW t \in Ticket, db'[t] = Unused
    PROVE  db[t] = Unused
<1>0. db \in [Ticket -> Entry]
  BY DEF TypeInv, TypeOK
<1>r. \A row \in Row : row # Unused
  BY RowAssumption
<1>w. ASSUME NEW row \in Row, db'[t] = Written(t, row) PROVE db[t] = Unused
  BY <1>w, <1>r DEF Written
<1>1. CASE UNCHANGED db
  BY <1>1
<1>2. ASSUME NEW r \in Request, TxCommit(r) PROVE db[t] = Unused
  <2>1. req[r].pc = "commit" /\ req[r].new \in Row
    BY <1>2 DEF TxCommit, TypeInv, Pending
  <2>2. req[r].other # NoTicket => ReleasedRow(req[r].otherSeen) \in Row
    BY <2>1 DEF TypeInv, Pending, ReleasedRow, Row, Column, Assignee
  <2>3. db' = CommittedDb(r)
    BY <1>2 DEF TxCommit
  <2>4. CASE t = req[r].ticket
    BY <2>1, <2>3, <2>4, <1>w DEF CommittedDb
  <2>5. CASE t # req[r].ticket /\ t = req[r].other
    BY <2>2, <2>3, <2>5, <1>w, NamesAssumption DEF CommittedDb
  <2>6. CASE t # req[r].ticket /\ t # req[r].other
    BY <2>3, <2>6 DEF CommittedDb
  <2> QED
    BY <2>4, <2>5, <2>6
<1>3. ASSUME NEW r \in Request, EditWrite(r) PROVE db[t] = Unused
  <2>1. req[r].new \in Row /\ db' = [db EXCEPT ![req[r].ticket] = Written(req[r].ticket, req[r].new)]
    BY <1>3 DEF EditWrite, TypeInv, Pending
  <2> QED
    BY <1>0, <2>1, <1>w
<1>4. ASSUME NEW r \in Request, NEW u \in User, NEW x \in Ticket, Unarchive(r, u, x)
      PROVE  db[t] = Unused
  <2>1. db' = [db EXCEPT ![x] = [db[x] EXCEPT !.archived = FALSE]] /\ db[x] \in Row
    BY <1>4 DEF Unarchive, Exists
  <2>2. [db[x] EXCEPT !.archived = FALSE] \in Row
    BY <2>1 DEF Row
  <2> QED
    BY <1>0, <1>r, <2>1, <2>2
<1>5. ASSUME NEW r \in Request, NEW u \in User, NEW x \in Ticket, McpCreate(r, u, x)
      PROVE  db[t] = Unused
  <2>1. PICK c \in NewColumn, b \in Board : db' = [db EXCEPT ![x] = FreshRow(c, NoUser, b)]
    BY <1>5 DEF McpCreate
  <2>2. FreshRow(c, NoUser, b) \in Row
    BY FreshRowsAreRows DEF FreshRows, Assignee
  <2> QED
    BY <1>0, <1>r, <2>1, <2>2
<1>6. ASSUME NEW u \in User, NEW S \in SUBSET Ticket, Archive(u, S) PROVE db[t] = Unused
  <2>1. /\ db' = [x \in Ticket |-> IF x \in S THEN [db[x] EXCEPT !.archived = TRUE] ELSE db[x]]
        /\ \A x \in S : db[x] \in Row
    BY <1>6 DEF Archive, Exists
  <2>2. \A x \in S : [db[x] EXCEPT !.archived = TRUE] \in Row
    BY <2>1 DEF Row
  <2> QED
    BY <1>r, <2>1, <2>2
<1>7. ASSUME NEW x \in Ticket, Create(x) PROVE db[t] = Unused
  BY <1>0, <1>r, <1>7, FreshRowsAreRows DEF Create
<1>8. ASSUME NEW x \in Ticket, Delete(x) \/ CreateWithoutRow(x) PROVE db[t] = Unused
  <2>1. db' = [db EXCEPT ![x] = Deleted]
    BY <1>8 DEF Delete, CreateWithoutRow
  <2> QED
    BY <1>0, <2>1, RowAssumption
<1>9. CASE Next
  <2>1. ASSUME NEW r \in Request, Quiet(r) PROVE UNCHANGED db
    BY <2>1, QuietSteps
  <2>2. CASE Restart
    BY <1>1, <2>2 DEF Restart
  <2> QED
    BY <1>1, <1>2, <1>3, <1>4, <1>5, <1>6, <1>7, <1>8, <1>9, <2>1, <2>2 DEF Next, Quiet
<1> QED
  BY <1>1, <1>8, <1>9, CacheSteps DEF cacheVars, vars
-----------------------------------------------------------------------------
(* The boards *)

\* What a board may hold of one ticket.
OnePerBoard(P) ==
    /\ P \subseteq Placement
    /\ \A p \in P :
         /\ p.column \in BoardColumn[p.board]
         /\ \A q \in P : p.board = q.board => p = q

Boards(c) == c = [t \in Ticket |-> c[t]] /\ \A t \in Ticket : OnePerBoard(c[t])

LEMMA Places ==
    ASSUME NEW row \in Row
    PROVE  /\ OnePerBoard(PlaceOf(row))
           /\ \A p \in PlaceOf(row) : p.board = row.board /\ p.column = row.column /\ p.row = row
<1>1. row.board \in Board /\ row.column \in Column
  BY DEF Row
<1> QED
  BY <1>1 DEF PlaceOf, OnePerBoard, Placement

\* Syncing a ticket leaves it at the place of the row, and at those it had on
\* other boards.
LEMMA SyncedBoards ==
    ASSUME NEW c, Boards(c), NEW t \in Ticket, NEW row \in Row
    PROVE  /\ Boards(Synced(c, t, row))
           /\ Synced(c, t, row)[t] = {p \in c[t] : p.board # row.board} \cup PlaceOf(row)
           /\ \A x \in Ticket \ {t} : Synced(c, t, row)[x] = c[x]
<1> DEFINE P == {p \in c[t] : p.board # row.board} \cup PlaceOf(row)
<1>1. OnePerBoard(P)
  <2>1. OnePerBoard(c[t])
    BY DEF Boards
  <2> QED
    BY <2>1, Places DEF OnePerBoard
<1>2. Synced(c, t, row) = [c EXCEPT ![t] = P]
  BY DEF Synced
<1> HIDE DEF P
<1>3. /\ Boards(Synced(c, t, row))
      /\ Synced(c, t, row)[t] = P
      /\ \A x \in Ticket \ {t} : Synced(c, t, row)[x] = c[x]
  BY <1>1, <1>2 DEF Boards
<1> QED
  BY <1>3 DEF P

LEMMA ReplacedBoards ==
    ASSUME NEW c, Boards(c), NEW t \in Ticket, NEW row \in Row, NEW d \in Replaced(c, t, row)
    PROVE  /\ Boards(d)
           /\ \/ c[t] = {} /\ d[t] = {}
              \/ \E p \in c[t] : d[t] = (c[t] \ {p}) \cup {[p EXCEPT !.row = row]}
           /\ \A x \in Ticket \ {t} : d[x] = c[x]
<1>1. CASE c[t] = {}
  BY <1>1 DEF Replaced
<1>2. CASE c[t] # {}
  <2>1. PICK p \in c[t] : d = [c EXCEPT ![t] = (c[t] \ {p}) \cup {[p EXCEPT !.row = row]}]
    BY <1>2 DEF Replaced
  <2>2. OnePerBoard(c[t])
    BY DEF Boards
  <2> DEFINE n == [p EXCEPT !.row = row]
  <2>3. n \in Placement /\ n.board = p.board /\ n.column = p.column
    BY <2>2 DEF OnePerBoard, Placement
  <2> HIDE DEF n
  <2>4. OnePerBoard((c[t] \ {p}) \cup {n})
    BY <2>2, <2>3 DEF OnePerBoard
  <2>5. d = [c EXCEPT ![t] = (c[t] \ {p}) \cup {n}]
    BY <2>1 DEF n
  <2>6. /\ Boards(d) /\ d[t] = (c[t] \ {p}) \cup {n}
        /\ \A x \in Ticket \ {t} : d[x] = c[x]
    BY <2>4, <2>5 DEF Boards
  <2> QED
    BY <2>6 DEF n
<1> QED
  BY <1>1, <1>2

LEMMA HiddenBoards ==
    ASSUME NEW c, Boards(c), NEW S, NEW d \in Hidden(c, S)
    PROVE  /\ Boards(d)
           /\ \A t \in Ticket :
                IF t \in S /\ c[t] # {} THEN \E p \in c[t] : d[t] = c[t] \ {p} ELSE d[t] = c[t]
<1>1. /\ d = [t \in Ticket |-> d[t]]
      /\ \A t \in Ticket :
           IF t \in S /\ c[t] # {} THEN \E p \in c[t] : d[t] = c[t] \ {p} ELSE d[t] = c[t]
  BY DEF Hidden
<1>2. \A t \in Ticket : d[t] \subseteq c[t]
  BY <1>1
<1> QED
  BY <1>1, <1>2 DEF Boards, OnePerBoard
-----------------------------------------------------------------------------
(* The shape of the boards *)

\* What a request holds.  The row that it answers with is a row, its tickets
\* have been created, and a handler between its read and its write has mu.
Filed(r) ==
    /\ req[r].pc = "reply" => req[r].new \in Row
    /\ req[r].pc # "idle" => db[req[r].ticket] # Unused
    /\ req[r].other # NoTicket => db[req[r].other] # Unused
    /\ req[r].pc = "place" => req[r].op = "unarchive"
    /\ req[r].pc = "write" => req[r].op \in EditOps \cup {"mcp_comment", "unarchive"}
    /\ req[r].pc = "write" /\ req[r].op \in EditOps => mu = r

\* A create puts its ticket on the board without a look at it, so that the
\* board must not have it.
BoardInv ==
    /\ TypeInv
    /\ Boards(cache)
    /\ excused \subseteq Ticket
    /\ \A r \in Request : Filed(r)
    /\ \A t \in Ticket : db[t] = Unused => cache[t] = {}

\* What a request does with the column, the board and the flag of its ticket
\* on every screen.
Shape(row) == <<row.board, row.column, row.archived>>

\* What a service or a handler holds after its first read.
Begun(r, t) ==
    /\ Idle(r) /\ Exists(t)
    /\ UNCHANGED <<db, audit, stale>>
    /\ \A p \in Request \ {r} : req'[p] = req[p]
    /\ req'[r].ticket = t /\ req'[r].other = NoTicket /\ req'[r].op # "unarchive"
    /\ req'[r].new \in Row /\ req'[r].new.board = db[t].board
    /\ \/ req'[r].pc = "reply" /\ req'[r].new = db[t] /\ UNCHANGED mu
       \/ req'[r].pc \in {"list", "commit"} /\ UNCHANGED mu
       \/ /\ req'[r].pc = "write" /\ Shape(req'[r].new) = Shape(db[t])
          /\ \/ req'[r].op \in EditOps /\ MuFree /\ mu' = r
             \/ req'[r].op = "mcp_comment" /\ UNCHANGED mu

LEMMA ReadBegins ==
    ASSUME TypeInv, NEW r \in Request, NEW op, NEW u, NEW t \in Ticket, NEW f, NEW pc, NEW new,
           Exists(t), Read(r, op, u, t, f, pc, new), op # "unarchive",
           new \in Row, new.board = db[t].board,
           \/ pc \in {"list", "commit"} /\ UNCHANGED mu
           \/ /\ pc = "write" /\ Shape(new) = Shape(db[t])
              /\ \/ op \in EditOps /\ MuFree /\ mu' = r
                 \/ op = "mcp_comment" /\ UNCHANGED mu
    PROVE  Begun(r, t)
<1> DEFINE q == [IdleReq EXCEPT !.pc = pc, !.op = op, !.user = u, !.force = f,
                                !.ticket = t, !.seen = db[t], !.new = new]
<1>1. q.pc = pc /\ q.op = op /\ q.ticket = t /\ q.new = new /\ q.other = NoTicket
  BY DEF IdleReq
<1>2. req' = [req EXCEPT ![r] = q] /\ Idle(r) /\ UNCHANGED <<db, audit, stale>>
  BY DEF Read
<1> HIDE DEF q
<1>3. req'[r] = q /\ \A p \in Request \ {r} : req'[p] = req[p]
  BY <1>2 DEF TypeInv, TypeOK
<1> QED
  BY <1>1, <1>2, <1>3 DEF Begun

LEMMA AlreadyDoneBegins ==
    ASSUME TypeInv, NEW r \in Request, NEW op, NEW t \in Ticket,
           Exists(t), AlreadyDone(r, op, t), op # "unarchive", UNCHANGED mu
    PROVE  Begun(r, t)
<1> DEFINE q == Replying(op, t, db[t], NoTicket)
<1>1. q.pc = "reply" /\ q.op = op /\ q.ticket = t /\ q.new = db[t] /\ q.other = NoTicket
  BY DEF Replying, IdleReq
<1>2. req' = [req EXCEPT ![r] = q] /\ Idle(r) /\ UNCHANGED <<db, audit, stale>>
  BY DEF AlreadyDone
<1> HIDE DEF q
<1>3. req'[r] = q /\ \A p \in Request \ {r} : req'[p] = req[p]
  BY <1>2 DEF TypeInv, TypeOK
<1> QED
  BY <1>1, <1>2, <1>3 DEF Begun, Exists

LEMMA ReadsBegin ==
    ASSUME TypeInv, NEW r \in Request, ServiceRead(r) \/ HandlerRead(r)
    PROVE  \E t \in Ticket : Begun(r, t)
<1>1. ASSUME NEW u \in User, NEW t \in Ticket, ClaimRead(r, u, t) PROVE Begun(r, t)
  <2>1. Exists(t) /\ UNCHANGED mu
    BY <1>1 DEF ClaimRead
  <2>2. ClaimedRow(db[t], u) \in Row /\ ClaimedRow(db[t], u).board = db[t].board
    BY <2>1 DEF Exists, ClaimedRow, Row, Assignee, Column
  <2> QED
    BY <1>1, <2>1, <2>2, ReadBegins, AlreadyDoneBegins DEF ClaimRead
<1>2. ASSUME NEW u \in User, NEW t \in Ticket, NEW s \in TargetStatus, NEW f \in BOOLEAN,
             MoveRead(r, u, t, s, f)
      PROVE  Begun(r, t)
  <2>1. Exists(t) /\ UNCHANGED mu
    BY <1>2 DEF MoveRead
  <2>2. StatusToColumnID[s] \in Column
    BY StatusAssumption DEF StatusToColumnID, VALID_STATUSES, Column
  <2>3. MovedRow(db[t], s) \in Row /\ MovedRow(db[t], s).board = db[t].board
    BY <2>1, <2>2 DEF Exists, MovedRow, Row
  <2> QED
    BY <1>2, <2>1, <2>3, ReadBegins, AlreadyDoneBegins DEF MoveRead
<1>3. ASSUME NEW u \in User, NEW t \in Ticket, ReleaseRead(r, u, t) PROVE Begun(r, t)
  <2>1. Exists(t) /\ UNCHANGED mu
    BY <1>3 DEF ReleaseRead
  <2>2. ReleasedRow(db[t]) \in Row /\ ReleasedRow(db[t]).board = db[t].board
    BY <2>1 DEF Exists, ReleasedRow, Row, Assignee, Column
  <2> QED
    BY <1>3, <2>1, <2>2, ReadBegins, AlreadyDoneBegins DEF ReleaseRead
<1>4. ASSUME NEW u \in User, NEW t \in Ticket, EditRead(r, u, t) PROVE Begun(r, t)
  <2>1. Exists(t) /\ MuFree /\ mu' = r
    BY <1>4 DEF EditRead
  <2>2. ASSUME NEW op \in EditOps, NEW new \in Row, Shape(new) = Shape(db[t]),
               Read(r, op, u, t, FALSE, "write", new)
        PROVE  Begun(r, t)
    <3>1. new.board = db[t].board /\ op # "unarchive"
      BY <2>2 DEF Shape, EditOps
    <3> QED
      BY <2>1, <2>2, <3>1, ReadBegins
  <2>3. \A a \in Assignee : LET new == [db[t] EXCEPT !.assignee = a]
                            IN  new \in Row /\ Shape(new) = Shape(db[t])
    BY <2>1 DEF Exists, Row, Shape
  <2>4. \A c : LET new == [db[t] EXCEPT !.comments = @ \ {c}]
               IN  new \in Row /\ Shape(new) = Shape(db[t])
    BY <2>1 DEF Exists, Row, Shape
  <2>5. db[t] \in Row /\ {"edit", "assign", "uncomment"} \subseteq EditOps
    BY <2>1 DEF Exists, EditOps
  <2> QED
    BY <1>4, <2>2, <2>3, <2>4, <2>5 DEF EditRead
<1>5. ASSUME NEW u \in User, NEW t \in Ticket, CommentRead(r, u, t) PROVE Begun(r, t)
  <2> DEFINE new == [db[t] EXCEPT !.comments = @ \cup {r}]
  <2>1. PICK op \in {"comment", "mcp_comment"} :
           /\ op = "comment" => MuFree
           /\ Exists(t)
           /\ Read(r, op, u, t, FALSE, "write", new)
           /\ mu' = IF op = "comment" THEN r ELSE mu
    BY <1>5 DEF CommentRead
  <2>2. new \in Row /\ Shape(new) = Shape(db[t]) /\ new.board = db[t].board
    BY <2>1, RequestAssumption DEF Exists, Row, Shape
  <2> HIDE DEF new
  <2> QED
    BY <2>1, <2>2, ReadBegins DEF EditOps
<1> QED
  BY <1>1, <1>2, <1>3, <1>4, <1>5 DEF ServiceRead, HandlerRead
-----------------------------------------------------------------------------
\* The end of a request, and of its store calls.
LEMMA SlotEnds ==
    ASSUME TypeInv, NEW r \in Request
    PROVE  /\ Finish(r) => /\ req'[r].pc = "idle" /\ req'[r].ticket = NoTicket
                           /\ req'[r].other = NoTicket
                           /\ \A p \in Request \ {r} : req'[p] = req[p]
           /\ ReplyNext(r) => /\ req'[r].pc = "reply" /\ req'[r].op = req[r].op
                              /\ req'[r].ticket = req[r].ticket
                              /\ req'[r].new = req[r].new /\ req'[r].other = req[r].other
                              /\ \A p \in Request \ {r} : req'[p] = req[p]
<1>0. req \in [Request -> ReqState]
  BY DEF TypeInv, TypeOK
<1>1. CASE Finish(r)
  <2>1. IdleReq.pc = "idle" /\ IdleReq.ticket = NoTicket /\ IdleReq.other = NoTicket
    BY DEF IdleReq
  <2>2. req'[r] = IdleReq /\ \A p \in Request \ {r} : req'[p] = req[p]
    BY <1>0, <1>1 DEF Finish
  <2>3. ~ReplyNext(r)
    <3>1. Replying(req[r].op, req[r].ticket, req[r].new, req[r].other).pc = "reply"
      BY DEF Replying, IdleReq
    <3> QED
      BY <1>0, <2>1, <2>2, <3>1 DEF ReplyNext
  <2> QED
    BY <2>1, <2>2, <2>3
<1>2. CASE ReplyNext(r)
  <2> DEFINE q == Replying(req[r].op, req[r].ticket, req[r].new, req[r].other)
  <2>1. /\ q.pc = "reply" /\ q.op = req[r].op /\ q.ticket = req[r].ticket
        /\ q.new = req[r].new /\ q.other = req[r].other
    BY DEF Replying, IdleReq
  <2>2. req' = [req EXCEPT ![r] = q]
    BY <1>2 DEF ReplyNext
  <2> HIDE DEF q
  <2>3. req'[r] = q /\ \A p \in Request \ {r} : req'[p] = req[p]
    BY <1>0, <2>2
  <2>4. ~Finish(r)
    BY <1>0, <2>1, <2>3 DEF Finish, IdleReq
  <2> QED
    BY <2>1, <2>3, <2>4
<1> QED
  BY <1>1, <1>2

LEMMA SlotBoardInv ==
    ASSUME BoardInv, TypeInv',
           \A t \in Ticket : db'[t] = Unused => db[t] = Unused /\ cache'[t] = cache[t],
           NEW r \in Request, \A p \in Request \ {r} : req'[p] = req[p],
           UNCHANGED mu \/ MuFree \/ mu = r,
           Filed(r)', Boards(cache'), excused' \subseteq Ticket
    PROVE  BoardInv'
<1>1. \A t \in Ticket : db'[t] = Unused => cache'[t] = {}
  BY DEF BoardInv
<1>2. ASSUME NEW p \in Request \ {r} PROVE Filed(p)'
  <2>1. Filed(p) /\ req'[p] = req[p]
    BY DEF BoardInv
  <2>2. req[p].pc # "idle" => req[p].ticket \in Ticket
    BY DEF BoardInv, TypeInv, Pending
  <2>3. req[p].other \in Ticket \cup {NoTicket}
    BY DEF BoardInv, TypeInv, TypeOK, ReqState
  <2>4. mu = p => mu' = p
    BY NamesAssumption DEF MuFree
  <2> QED
    BY <2>1, <2>2, <2>3, <2>4 DEF Filed
<1> QED
  BY <1>1, <1>2 DEF BoardInv

\* No slot moves.
LEMMA TableBoardInv ==
    ASSUME BoardInv, TypeInv', UNCHANGED <<req, mu>>,
           \A t \in Ticket : db'[t] = Unused => db[t] = Unused /\ cache'[t] = cache[t],
           Boards(cache'), excused' \subseteq Ticket
    PROVE  BoardInv'
<1>1. \A t \in Ticket : db'[t] = Unused => cache'[t] = {}
  BY DEF BoardInv
<1>2. ASSUME NEW p \in Request PROVE Filed(p)'
  <2>1. Filed(p) /\ req'[p] = req[p]
    BY DEF BoardInv
  <2>2. req[p].pc # "idle" => req[p].ticket \in Ticket
    BY DEF BoardInv, TypeInv, Pending
  <2>3. req[p].other \in Ticket \cup {NoTicket}
    BY DEF BoardInv, TypeInv, TypeOK, ReqState
  <2> QED
    BY <2>1, <2>2, <2>3 DEF Filed
<1> QED
  BY <1>1, <1>2 DEF BoardInv

\* A start shows what it should of every ticket that it does not excuse.
LEMMA InitBoardsShow ==
    ASSUME NEW c, NEW x, InitBoards(c, x)
    PROVE  /\ Boards(c) /\ x \subseteq Ticket
           /\ \A t \in Ticket :
                (t \in x \/ c[t] = Shown(db[t])) /\ (db[t] = Unused => c[t] = {})
<1>1. PICK S \in SUBSET Ticket :
        /\ c = [t \in Ticket |-> IF t \in S THEN Loaded[t] ELSE {}]
        /\ x = {t \in Ticket \ S : Loaded[t] # {}}
  BY DEF InitBoards
<1>2. \A t \in Ticket : Loaded[t] = Shown(db[t])
  BY DEF Loaded
<1>3. \A t \in Ticket : OnePerBoard(Shown(db[t])) /\ (db[t] = Unused => Shown(db[t]) = {})
  BY Places, RowAssumption DEF Shown, OnePerBoard
<1>4. OnePerBoard({})
  BY DEF OnePerBoard
<1>5. Boards(c)
  BY <1>1, <1>2, <1>3, <1>4 DEF Boards
<1> QED
  BY <1>1, <1>2, <1>3, <1>5

LEMMA InitBoardInv == CacheInit => BoardInv
<1> SUFFICES ASSUME CacheInit PROVE BoardInv
  OBVIOUS
<1>1. TypeInv
  BY InitTypeInv DEF CacheInit
<1>2. /\ Boards(cache) /\ excused \subseteq Ticket
      /\ \A t \in Ticket : db[t] = Unused => cache[t] = {}
  BY InitBoardsShow DEF CacheInit
<1>3. \A r \in Request : Filed(r)
  BY DEF CacheInit, Init, IdleReq, Filed
<1> QED
  BY <1>1, <1>2, <1>3 DEF BoardInv

\* What a request has in hand is a row of a ticket that was created.
LEMMA InHand ==
    ASSUME BoardInv, NEW r \in Request, req[r].pc # "idle"
    PROVE  /\ req[r].ticket \in Ticket /\ db[req[r].ticket] # Unused
           /\ req[r].other # NoTicket => req[r].other \in Ticket /\ db[req[r].other] # Unused
           /\ req[r].pc \in {"list", "commit", "write", "reply"} => req[r].new \in Row
           /\ req[r].pc \notin {"commit", "reply"} => req[r].other = NoTicket
<1>1. TypeInv /\ Pending(r) /\ Filed(r)
  BY DEF BoardInv, TypeInv
<1>2. req[r].other \in Ticket \cup {NoTicket}
  BY <1>1 DEF TypeInv, TypeOK, ReqState
<1> QED
  BY <1>1, <1>2 DEF Pending, Filed

LEMMA SyncBoardInv ==
    ASSUME BoardInv, TypeInv', UNCHANGED db, excused' \subseteq Ticket, NEW r \in Request, Sync(r)
    PROVE  BoardInv'
<1>0. TypeInv /\ Boards(cache) /\ req \in [Request -> ReqState]
  BY DEF BoardInv, TypeInv, TypeOK
<1> DEFINE t == req[r].ticket
           o == req[r].other
           c == Synced(cache, t, req[r].new)
<1>1. req[r].pc = "reply" /\ UNCHANGED mu
  BY DEF Sync, CachedReply, CachedMcpReply, Reply, McpReply
<1>2. /\ t \in Ticket /\ db[t] # Unused /\ req[r].new \in Row
      /\ o # NoTicket => o \in Ticket /\ db[o] # Unused
  BY <1>1, InHand
<1>3. Boards(c) /\ \A x \in Ticket \ {t} : c[x] = cache[x]
  BY <1>0, <1>2, SyncedBoards
<1> HIDE DEF t, o, c
<1>4. CASE CachedReply(r)
  <2>1. \/ o # NoTicket /\ Exists(o) /\ cache' = Synced(c, o, db[o])
        \/ cache' = c
    BY <1>4 DEF CachedReply, c, t, o
  <2>2. Boards(cache') /\ \A x \in Ticket \ {t, o} : cache'[x] = cache[x]
    <3>1. CASE o # NoTicket /\ Exists(o) /\ cache' = Synced(c, o, db[o])
      <4>1. o \in Ticket /\ db[o] \in Row
        BY <1>2, <3>1 DEF Exists
      <4>2. /\ Boards(Synced(c, o, db[o]))
            /\ \A x \in Ticket \ {o} : Synced(c, o, db[o])[x] = c[x]
        BY <1>3, <4>1, SyncedBoards
      <4> QED
        BY <1>3, <3>1, <4>2
    <3>2. CASE cache' = c
      BY <1>3, <3>2
    <3> QED
      BY <2>1, <3>1, <3>2
  <2>3. Finish(r)
    BY <1>4 DEF CachedReply, Reply
  <2>4. Filed(r)' /\ \A p \in Request \ {r} : req'[p] = req[p]
    BY <1>0, <2>3, SlotEnds DEF Filed
  <2>5. \A x \in Ticket : db'[x] = Unused => db[x] = Unused /\ cache'[x] = cache[x]
    BY <1>2, <2>2, NamesAssumption
  <2> QED
    BY <1>1, <2>2, <2>4, <2>5, SlotBoardInv
<1>5. CASE CachedMcpReply(r)
  <2> DEFINE q == [Replying("claim", req[r].other, NoRow, NoTicket) EXCEPT !.pc = "reread"]
  <2>1. cache' = c /\ o # NoTicket /\ req' = [req EXCEPT ![r] = q]
    BY <1>5 DEF CachedMcpReply, McpReply, c, t, o
  <2>2. q.pc = "reread" /\ q.ticket = o /\ q.other = NoTicket
    BY DEF Replying, IdleReq, o
  <2> HIDE DEF q
  <2>3. req'[r] = q /\ \A p \in Request \ {r} : req'[p] = req[p]
    BY <1>0, <2>1
  <2>4. Filed(r)'
    BY <1>2, <2>1, <2>2, <2>3 DEF Filed
  <2>5. \A x \in Ticket : db'[x] = Unused => db[x] = Unused /\ cache'[x] = cache[x]
    BY <1>2, <1>3, <2>1
  <2> QED
    BY <1>1, <1>3, <2>1, <2>3, <2>4, <2>5, SlotBoardInv
<1> QED
  BY <1>4, <1>5 DEF Sync

LEMMA StoreBoardInv ==
    ASSUME BoardInv, TypeInv', excused' \subseteq Ticket, NEW r \in Request, StoreStep(r),
           \A x \in Ticket : db'[x] = Unused => db[x] = Unused
    PROVE  BoardInv'
<1>0. TypeInv /\ Boards(cache) /\ req \in [Request -> ReqState] /\ Filed(r)
  BY DEF BoardInv, TypeInv, TypeOK
<1>1. CASE CachedEditWrite(r)
  <2>1. req[r].pc = "write" /\ (UNCHANGED mu \/ mu = r) /\ (Finish(r) \/ ReplyNext(r))
    BY <1>1 DEF CachedEditWrite, EditWrite
  <2>2. /\ req[r].ticket \in Ticket /\ db[req[r].ticket] # Unused /\ req[r].new \in Row
        /\ req[r].other = NoTicket
    BY <2>1, InHand
  <2>3. Boards(cache') /\ \A x \in Ticket \ {req[r].ticket} : cache'[x] = cache[x]
    BY <1>0, <1>1, <2>2, ReplacedBoards DEF CachedEditWrite
  <2>4. Filed(r)' /\ \A p \in Request \ {r} : req'[p] = req[p]
    BY <1>0, <2>1, <2>2, SlotEnds DEF Filed
  <2> QED
    BY <2>1, <2>2, <2>3, <2>4, SlotBoardInv
<1>2. ASSUME UNCHANGED cache, UNCHANGED mu \/ mu = r, Filed(r)',
             \A p \in Request \ {r} : req'[p] = req[p]
      PROVE  BoardInv'
  BY <1>0, <1>2, SlotBoardInv
<1>3. CASE UNCHANGED cache /\ ClaimList(r)
  <2>1. req[r].pc = "list" /\ UNCHANGED <<db, mu>>
    BY <1>3 DEF ClaimList
  <2>2. \A p \in Request \ {r} : req'[p] = req[p]
    BY <1>0, <1>3 DEF ClaimList
  <2>3. /\ req'[r].pc = "commit" /\ req'[r].ticket = req[r].ticket
        /\ req'[r].other # req[r].other => db[req'[r].other] \in Row
    <3>1. CASE req' = [req EXCEPT ![r] = [req[r] EXCEPT !.pc = "commit"]]
      BY <1>0, <3>1 DEF ReqState
    <3>2. ASSUME NEW x \in InProgress(req[r].user),
                 req' = [req EXCEPT ![r] = [req[r] EXCEPT !.pc = "commit", !.other = x,
                                                          !.otherSeen = db[x]]]
          PROVE  /\ req'[r].pc = "commit" /\ req'[r].ticket = req[r].ticket
                 /\ db[req'[r].other] \in Row
      <4>1. db[x] \in Row
        BY DEF InProgress, InProgressIn
      <4> QED
        BY <1>0, <3>2, <4>1 DEF ReqState
    <3> QED
      BY <1>0, <1>3, <3>1, <3>2 DEF ClaimList
  <2>4. Filed(r)'
    BY <1>0, <2>1, <2>3, RowAssumption DEF Filed
  <2> QED
    BY <1>2, <1>3, <2>1, <2>2, <2>4
<1>4. CASE UNCHANGED cache /\ TxCommit(r)
  <2>1. req[r].pc = "commit" /\ ReplyNext(r) /\ UNCHANGED mu
    BY <1>4 DEF TxCommit
  <2>2. Filed(r)' /\ \A p \in Request \ {r} : req'[p] = req[p]
    BY <1>0, <2>1, SlotEnds, InHand DEF Filed
  <2> QED
    BY <1>2, <1>4, <2>1, <2>2
<1>5. CASE UNCHANGED cache /\ UnarchivePlace(r)
  <2>1. req[r].pc = "place" /\ UNCHANGED <<db, mu>>
    BY <1>5 DEF UnarchivePlace
  <2>2. \A p \in Request \ {r} : req'[p] = req[p]
    BY <1>0, <1>5 DEF UnarchivePlace
  <2>3. /\ req'[r].pc = "write" /\ req'[r].ticket = req[r].ticket
        /\ req'[r].other = req[r].other /\ req'[r].op = req[r].op
    BY <1>0, <1>5 DEF UnarchivePlace, ReqState
  <2>4. req[r].op = "unarchive"
    BY <1>0, <2>1 DEF Filed
  <2>5. Filed(r)'
    BY <1>0, <2>1, <2>3, <2>4 DEF Filed, EditOps
  <2> QED
    BY <1>2, <1>5, <2>1, <2>2, <2>5
<1>6. CASE UNCHANGED cache /\ Fail(r)
  <2>1. Finish(r) /\ (UNCHANGED mu \/ mu = r)
    BY <1>6 DEF Fail
  <2> QED
    BY <1>0, <1>2, <1>6, <2>1, SlotEnds DEF Filed
<1>7. CASE CachedReread(r)
  <2>1. UNCHANGED <<db, mu, cache>> /\ req[r].pc = "reread"
    BY <1>7 DEF CachedReread, McpReread
  <2>2. CASE Finish(r)
    BY <1>0, <1>2, <2>1, <2>2, SlotEnds DEF Filed
  <2>3. CASE ~Finish(r)
    <3> DEFINE o == req[r].ticket
               q == Replying("claim", o, db[o], NoTicket)
    <3>1. req' = [req EXCEPT ![r] = q] /\ db[o] \in Row
      BY <1>7, <2>3 DEF CachedReread, McpReread, Exists
    <3>2. q.pc = "reply" /\ q.ticket = o /\ q.new = db[o] /\ q.other = NoTicket
      BY DEF Replying, IdleReq
    <3> HIDE DEF q
    <3>3. req'[r] = q /\ \A p \in Request \ {r} : req'[p] = req[p]
      BY <1>0, <3>1
    <3>4. Filed(r)'
      BY <2>1, <3>1, <3>2, <3>3, RowAssumption DEF Filed
    <3> QED
      BY <1>2, <2>1, <3>3, <3>4
  <2> QED
    BY <2>2, <2>3
<1> QED
  BY <1>1, <1>3, <1>4, <1>5, <1>6, <1>7 DEF StoreStep

\* The steps that begin or are single statements.
LEMMA StatementBoardInv ==
    ASSUME BoardInv, TypeInv', excused' \subseteq Ticket,
           \A x \in Ticket : db'[x] = Unused => db[x] = Unused,
           \/ \E r \in Request, u \in User, t \in Ticket :
                \/ CachedUnarchive(r, u, t)
                \/ McpCreate(r, u, t) /\ UNCHANGED <<cache, excused>>
           \/ \E u \in User, S \in SUBSET Ticket : CachedArchive(u, S)
           \/ \E t \in Ticket :
                CachedCreate(t) \/ CreateWithoutRow(t) \/ CachedDelete(t) \/ DeleteKeepsRow(t)
    PROVE  BoardInv'
<1>0. /\ TypeInv /\ Boards(cache) /\ req \in [Request -> ReqState] /\ db \in [Ticket -> Entry]
      /\ \A t \in Ticket : OnePerBoard(cache[t]) /\ (db[t] = Unused => cache[t] = {})
  BY DEF BoardInv, TypeInv, TypeOK, Boards
<1>1. ASSUME NEW r \in Request, NEW u \in User, NEW t \in Ticket, CachedUnarchive(r, u, t)
      PROVE  BoardInv'
  <2>1. /\ UNCHANGED cache /\ MuFree /\ db[t] \in Row
        /\ \/ UNCHANGED <<req, mu>>
           \/ req' = [req EXCEPT ![r] = [IdleReq EXCEPT !.pc = "place", !.op = "unarchive",
                                                        !.user = u, !.ticket = t]]
    BY <1>1 DEF CachedUnarchive, Unarchive, Exists
  <2>2. CASE UNCHANGED <<req, mu>>
    BY <1>0, <2>1, <2>2, TableBoardInv
  <2>3. ASSUME NEW q, req' = [req EXCEPT ![r] = q],
               q.pc = "place", q.op = "unarchive", q.ticket = t, q.other = NoTicket
        PROVE  BoardInv'
    <3>1. req'[r] = q /\ \A p \in Request \ {r} : req'[p] = req[p]
      BY <1>0, <2>3
    <3>2. Filed(r)'
      BY <2>1, <2>3, <3>1, RowAssumption DEF Filed
    <3> QED
      BY <1>0, <2>1, <3>1, <3>2, SlotBoardInv
  <2> DEFINE placed == [IdleReq EXCEPT !.pc = "place", !.op = "unarchive", !.user = u, !.ticket = t]
  <2>4. /\ placed.pc = "place" /\ placed.op = "unarchive" /\ placed.ticket = t
        /\ placed.other = NoTicket
    BY DEF IdleReq
  <2>5. UNCHANGED <<req, mu>> \/ req' = [req EXCEPT ![r] = placed]
    BY <2>1
  <2> HIDE DEF placed
  <2> QED
    BY <2>2, <2>3, <2>4, <2>5
<1>2. ASSUME NEW r \in Request, NEW u \in User, NEW t \in Ticket, McpCreate(r, u, t),
             UNCHANGED cache
      PROVE  BoardInv'
  <2>1. PICK c \in NewColumn, b \in Board :
          /\ db' = [db EXCEPT ![t] = FreshRow(c, NoUser, b)]
          /\ req' = [req EXCEPT ![r] = Replying("mcp_create", t, FreshRow(c, NoUser, b), NoTicket)]
          /\ UNCHANGED mu
    BY <1>2 DEF McpCreate
  <2> DEFINE row == FreshRow(c, NoUser, b)
             q == Replying("mcp_create", t, row, NoTicket)
  <2>2. row \in Row
    BY FreshRowsAreRows DEF FreshRows, Assignee
  <2>3. q.pc = "reply" /\ q.ticket = t /\ q.new = row /\ q.other = NoTicket
    BY DEF Replying, IdleReq
  <2> HIDE DEF q, row
  <2>4. req'[r] = q /\ db'[t] = row /\ \A p \in Request \ {r} : req'[p] = req[p]
    BY <1>0, <2>1 DEF q, row
  <2>5. Filed(r)'
    BY <2>2, <2>3, <2>4, RowAssumption DEF Filed
  <2> QED
    BY <1>0, <1>2, <2>1, <2>4, <2>5, SlotBoardInv
<1>3. ASSUME NEW u \in User, NEW S \in SUBSET Ticket, CachedArchive(u, S) PROVE BoardInv'
  <2>1. cache' \in Hidden(cache, S) /\ UNCHANGED <<req, mu>> /\ \A t \in S : db[t] \in Row
    BY <1>3 DEF CachedArchive, Archive, Exists
  <2>2. /\ Boards(cache')
        /\ \A t \in Ticket \ S : cache'[t] = cache[t]
    BY <1>0, <2>1, HiddenBoards
  <2>3. \A t \in S : db[t] # Unused
    BY <2>1, RowAssumption
  <2> QED
    BY <2>1, <2>2, <2>3, TableBoardInv
<1>4. ASSUME NEW t \in Ticket, NEW row \in Row, db[t] = Unused, UNCHANGED <<req, mu>>,
             db'[t] # Unused, cache' = [cache EXCEPT ![t] = cache[t] \cup PlaceOf(row)]
      PROVE  BoardInv'
  <2>1. /\ Boards(cache')
        /\ \A x \in Ticket \ {t} : cache'[x] = cache[x]
    <3>1. OnePerBoard(PlaceOf(row)) /\ cache[t] = {}
      BY <1>0, <1>4, Places
    <3>2. cache' = [cache EXCEPT ![t] = PlaceOf(row)]
      BY <1>4, <3>1
    <3> QED
      BY <1>0, <3>1, <3>2 DEF Boards
  <2>2. \A x \in Ticket : db'[x] = Unused => cache'[x] = cache[x]
    BY <1>4, <2>1
  <2> QED
    BY <1>4, <2>1, <2>2, TableBoardInv
<1>5. ASSUME NEW t \in Ticket, CachedCreate(t) PROVE BoardInv'
  <2>1. PICK row \in FreshRows : db' = [db EXCEPT ![t] = row]
    BY <1>5 DEF CachedCreate, Create
  <2>2. row \in Row /\ db'[t] = row /\ row # Unused
    BY <1>0, <2>1, FreshRowsAreRows, RowAssumption
  <2> QED
    BY <1>4, <1>5, <2>2 DEF CachedCreate, Create
<1>6. ASSUME NEW t \in Ticket, CreateWithoutRow(t) PROVE BoardInv'
  <2>1. PICK row \in FreshRows : cache' = [cache EXCEPT ![t] = cache[t] \cup PlaceOf(row)]
    BY <1>6 DEF CreateWithoutRow
  <2>2. row \in Row /\ db'[t] # Unused
    BY <1>0, <1>6, FreshRowsAreRows, RowAssumption DEF CreateWithoutRow
  <2> QED
    BY <1>4, <1>6, <2>1, <2>2 DEF CreateWithoutRow
<1>7. ASSUME NEW t \in Ticket, CachedDelete(t) \/ DeleteKeepsRow(t) PROVE BoardInv'
  <2>1. /\ cache' = [cache EXCEPT ![t] = {}] /\ UNCHANGED <<req, mu>> /\ db[t] \in Row
    BY <1>7 DEF CachedDelete, Delete, DeleteKeepsRow, vars, Exists
  <2>2. /\ Boards(cache')
        /\ \A x \in Ticket \ {t} : cache'[x] = cache[x]
    BY <1>0, <2>1 DEF Boards, OnePerBoard
  <2> QED
    BY <2>1, <2>2, TableBoardInv, RowAssumption
<1> QED
  BY <1>1, <1>2, <1>3, <1>5, <1>6, <1>7

LEMMA TicketsInHand ==
    ASSUME BoardInv, NEW r \in Request
    PROVE  /\ CachedReread(r) => req[r].ticket \in Ticket
           /\ req[r].other # NoTicket => req[r].other \in Ticket
<1>1. CachedReread(r) => req[r].pc # "idle"
  BY DEF CachedReread, McpReread
<1>2. req[r].other \in Ticket \cup {NoTicket}
  BY DEF BoardInv, TypeInv, TypeOK, ReqState
<1> QED
  BY <1>1, <1>2, InHand

LEMMA NextBoardInv == BoardInv /\ [CacheNext]_cacheVars => BoardInv'
<1> SUFFICES ASSUME BoardInv, [CacheNext]_cacheVars PROVE BoardInv'
  OBVIOUS
<1>1. TypeInv' /\ \A x \in Ticket : db'[x] = Unused => db[x] = Unused
  BY CacheTypeInv, UsedStays DEF BoardInv
<1>0. TypeInv /\ Boards(cache) /\ excused \subseteq Ticket
  BY DEF BoardInv
<1>2. CASE UNCHANGED cacheVars
  BY <1>0, <1>1, <1>2, TableBoardInv DEF cacheVars, vars
<1>3. ASSUME NEW r \in Request, StoreStep(r) PROVE BoardInv'
  <2>1. excused' \subseteq Ticket
    BY <1>0, <1>3, TicketsInHand DEF StoreStep, CachedEditWrite, CachedReread, Overlaps, Excuses
  <2> QED
    BY <1>1, <1>3, <2>1, StoreBoardInv
<1>4. ASSUME NEW r \in Request, Sync(r) PROVE BoardInv'
  <2>1. excused' \subseteq Ticket /\ UNCHANGED db
    BY <1>0, <1>4, TicketsInHand DEF Sync, CachedReply, CachedMcpReply, Reply, McpReply,
                                      Overlaps, Excuses
  <2> QED
    BY <1>1, <1>4, <2>1, SyncBoardInv
<1>5. ASSUME NEW r \in Request, ServiceRead(r) \/ HandlerRead(r), UNCHANGED <<cache, excused>>
      PROVE  BoardInv'
  <2>1. PICK t \in Ticket : Begun(r, t)
    BY <1>0, <1>5, ReadsBegin
  <2>2. Filed(r)'
    <3>1. /\ db'[req'[r].ticket] # Unused /\ req'[r].other = NoTicket /\ req'[r].new \in Row
      BY <2>1, RowAssumption DEF Begun, Exists
    <3>2. /\ req'[r].pc # "place"
          /\ req'[r].pc = "write" => \/ req'[r].op \in EditOps /\ mu' = r
                                     \/ req'[r].op = "mcp_comment" /\ req'[r].op \notin EditOps
      BY <2>1 DEF Begun, EditOps
    <3> QED
      BY <3>1, <3>2 DEF Filed
  <2> QED
    BY <1>0, <1>1, <1>5, <2>1, <2>2, SlotBoardInv DEF Begun
<1>6. CASE CachedRestart
  <2>1. req' = [r \in Request |-> IdleReq] /\ UNCHANGED db /\ InitBoards(cache', excused')
    BY <1>6 DEF CachedRestart, Restart
  <2>2. \A r \in Request : Filed(r)'
    BY <2>1 DEF Filed, IdleReq
  <2>3. /\ Boards(cache') /\ excused' \subseteq Ticket
        /\ \A t \in Ticket : db[t] = Unused => cache'[t] = {}
    BY <2>1, InitBoardsShow
  <2> QED
    BY <1>1, <2>1, <2>2, <2>3 DEF BoardInv
<1>7. CASE \/ \E r \in Request, u \in User, t \in Ticket :
                \/ CachedUnarchive(r, u, t)
                \/ McpCreate(r, u, t) /\ UNCHANGED <<cache, excused>>
           \/ \E u \in User, S \in SUBSET Ticket : CachedArchive(u, S)
           \/ \E t \in Ticket :
                CachedCreate(t) \/ CreateWithoutRow(t) \/ CachedDelete(t) \/ DeleteKeepsRow(t)
  <2>1. excused' \subseteq Ticket
    BY <1>0, <1>7 DEF CachedUnarchive, CachedArchive, CachedCreate, CreateWithoutRow, CachedDelete,
                      DeleteKeepsRow, Overlaps, Excuses
  <2> QED
    BY <1>1, <1>7, <2>1, StatementBoardInv
<1> QED
  BY <1>2, <1>3, <1>4, <1>5, <1>6, <1>7 DEF CacheNext

THEOREM AlwaysBoardInv == CacheSpec => []BoardInv
  BY InitBoardInv, NextBoardInv, PTL DEF CacheSpec

\* The boards keep their shape: whatever overlaps or fails, a board shows a
\* ticket at most once, in one of its own columns.
THEOREM CacheTypeCorrect == CacheSpec => []CacheTypeOK
<1>1. BoardInv => CacheTypeOK
  <2> SUFFICES ASSUME BoardInv PROVE CacheTypeOK
    OBVIOUS
  <2>1. cache = [t \in Ticket |-> cache[t]] /\ \A t \in Ticket : OnePerBoard(cache[t])
    BY DEF BoardInv, Boards
  <2>2. cache \in [Ticket -> SUBSET Placement]
    BY <2>1 DEF OnePerBoard
  <2> QED
    BY <2>1, <2>2 DEF BoardInv, CacheTypeOK, OnePerBoard
<1> QED
  BY <1>1, AlwaysBoardInv, PTL
-----------------------------------------------------------------------------
(* What the boards show *)

\* Some request has yet to sync t.
Owed(t) == \E r \in Request : Owes(r, t)

\* What the board has of a ticket that nobody owes: the row in the table, and
\* perhaps nothing if that is archived.
Settled(t) ==
    IF Exists(t)
    THEN /\ cache[t] \subseteq PlaceOf(db[t])
         /\ ~db[t].archived => cache[t] = PlaceOf(db[t])
    ELSE cache[t] = {}

\* What slot r holds of t agrees with the table as far as its next step needs:
\* the row it will sync is the row in the table, no row that it will write
\* takes the ticket to another board, and a handler that has mu changes the
\* place of the ticket only behind the back of a request that owes it.
Abreast(r, t) ==
    LET q == req[r]
    IN  /\ q.ticket = t => q.op # "unarchive"
        /\ q.ticket = t /\ q.pc = "reply" => q.new = db[t]
        /\ q.ticket = t /\ q.pc \in {"list", "commit", "write"} /\ Exists(t) =>
             q.new.board = db[t].board
        /\ q.other = t /\ q.pc = "commit" /\ Exists(t) => q.otherSeen.board = db[t].board
        /\ q.ticket = t /\ q.pc = "write" /\ q.op \in EditOps /\ Exists(t) /\ ~Owed(t) =>
             Shape(q.new) = Shape(db[t])

Tracked(t) ==
    /\ Exists(t) => \A p \in cache[t] : p.board = db[t].board
    /\ Owed(t) => Exists(t)
    /\ Owed(t) \/ Settled(t)
    /\ \A r \in Request : Abreast(r, t)

CacheInv == BoardInv /\ \A t \in Ticket : t \in excused \/ Tracked(t)

\* A place of a row is the only one.
LEMMA OnePlace ==
    ASSUME NEW row \in Row, NEW P \in SUBSET PlaceOf(row), NEW p \in P
    PROVE  P = {p} /\ PlaceOf(row) = {p}
           /\ p = [board |-> row.board, column |-> row.column, row |-> row]
  BY DEF PlaceOf

LEMMA AbreastStays ==
    ASSUME NEW t \in Ticket, NEW p \in Request, Abreast(p, t), req'[p] = req[p],
           db'[t] = db[t], Owed(t) => Owed(t)'
    PROVE  Abreast(p, t)'
  BY DEF Abreast, Exists

\* Slot r moves and has nothing to do with t, or it owes t as before, or begins
\* to owe it.
LEMMA Frame ==
    ASSUME NEW t \in Ticket, Tracked(t), NEW r \in Request,
           \A p \in Request \ {r} : req'[p] = req[p],
           db'[t] = db[t], cache'[t] = cache[t],
           Owes(r, t) => Owes(r, t)', Owes(r, t)' => Exists(t), Abreast(r, t)'
    PROVE  Tracked(t)'
<1>1. \A p \in Request \ {r} : Owes(p, t)' <=> Owes(p, t)
  BY DEF Owes
<1>2. (Owed(t) => Owed(t)') /\ (Owed(t)' => Exists(t))
  BY <1>1 DEF Owed, Tracked
<1>3. \A p \in Request : Abreast(p, t)'
  BY <1>2, AbreastStays DEF Tracked
<1>4. Settled(t) => Settled(t)'
  BY DEF Settled, Exists
<1> QED
  BY <1>2, <1>3, <1>4 DEF Tracked, Exists

\* Nothing that concerns t moves.
LEMMA SameFrame ==
    ASSUME NEW t \in Ticket, Tracked(t), UNCHANGED req, db'[t] = db[t], cache'[t] = cache[t]
    PROVE  Tracked(t)'
<1>1. Owed(t)' <=> Owed(t)
  BY DEF Owed, Owes
<1>2. \A p \in Request : Abreast(p, t)'
  BY <1>1, AbreastStays DEF Tracked
<1>3. Settled(t) => Settled(t)'
  BY DEF Settled, Exists
<1> QED
  BY <1>1, <1>2, <1>3 DEF Tracked, Exists

\* Who owes a ticket when its row changes, or goes, does not get away with it.
LEMMA OverlapsExcuse ==
    ASSUME Overlaps, NEW t \in Ticket, t \notin excused'
    PROVE  /\ t \notin excused
           /\ \A p \in Request : Owes(p, t)' => Exists(t)' /\ (Owes(p, t) => db'[t] = db[t])
  BY DEF Overlaps

\* Slot r writes the row of t and owes it from now on.
LEMMA Overwritten ==
    ASSUME NEW t \in Ticket, Tracked(t), Overlaps, t \notin excused', NEW r \in Request,
           \A p \in Request \ {r} : req'[p] = req[p],
           Owes(r, t)', ~Owes(r, t), Exists(t), db'[t].board = db[t].board,
           cache'[t] = cache[t], Abreast(r, t)'
    PROVE  Tracked(t)'
<1>1. Owed(t)' /\ Exists(t)'
  BY OverlapsExcuse DEF Owed
<1>2. ASSUME NEW p \in Request \ {r} PROVE Abreast(p, t)'
  <2>1. Abreast(p, t) /\ req'[p] = req[p]
    BY DEF Tracked
  <2>2. req[p].ticket = t /\ req[p].pc = "reply" => db'[t] = db[t]
    <3>1. req[p].ticket = t /\ req[p].pc = "reply" => Owes(p, t) /\ Owes(p, t)'
      BY <2>1 DEF Owes
    <3> QED
      BY <3>1, OverlapsExcuse
  <2> QED
    BY <1>1, <2>1, <2>2 DEF Abreast
<1>3. \A p \in cache'[t] : p.board = db'[t].board
  BY DEF Tracked
<1> QED
  BY <1>1, <1>2, <1>3 DEF Tracked

LEMMA ReadTracked ==
    ASSUME NEW t \in Ticket, Tracked(t), NEW r \in Request, NEW x \in Ticket, Begun(r, x),
           UNCHANGED cache
    PROVE  Tracked(t)'
<1>1. ~Owes(r, t)
  BY DEF Begun, Idle, Owes
<1>2. CASE x # t
  <2>1. req'[r].ticket # t /\ req'[r].other # t
    BY <1>2, NamesAssumption DEF Begun
  <2>2. ~Owes(r, t)' /\ Abreast(r, t)'
    BY <2>1 DEF Owes, Abreast
  <2> QED
    BY <1>1, <2>2, Frame DEF Begun
<1>3. CASE x = t
  <2>1. Exists(t) /\ db'[t] = db[t] /\ req'[r].other # t
    BY <1>3, NamesAssumption DEF Begun
  <2>2. Abreast(r, t)'
    BY <1>3, <2>1 DEF Begun, Abreast
  <2> QED
    BY <1>1, <2>1, <2>2, Frame DEF Begun
<1> QED
  BY <1>2, <1>3

\* A claim sees the board of the ticket that it will release.
LEMMA ListTracked ==
    ASSUME BoardInv, NEW t \in Ticket, Tracked(t), NEW r \in Request, ClaimList(r), UNCHANGED cache
    PROVE  Tracked(t)'
<1>0. req \in [Request -> ReqState] /\ req[r].pc = "list" /\ UNCHANGED db
  BY DEF BoardInv, TypeInv, TypeOK, ClaimList
<1>1. ASSUME NEW q, req' = [req EXCEPT ![r] = q],
             q.pc = "commit" /\ q.op = req[r].op /\ q.ticket = req[r].ticket /\ q.new = req[r].new,
             q.other = t => q.otherSeen = db[t]
      PROVE  Tracked(t)'
  <2>1. req'[r] = q /\ \A p \in Request \ {r} : req'[p] = req[p]
    BY <1>0, <1>1
  <2>2. Abreast(r, t)
    BY DEF Tracked
  <2>3. Abreast(r, t)'
    BY <1>0, <1>1, <2>1, <2>2 DEF Abreast, Exists
  <2>4. ~Owes(r, t) /\ ~Owes(r, t)'
    BY <1>0, <1>1, <2>1 DEF Owes
  <2> QED
    BY <1>0, <2>1, <2>3, <2>4, Frame
<1>2. CASE req' = [req EXCEPT ![r] = [req[r] EXCEPT !.pc = "commit"]]
  <2> DEFINE q == [req[r] EXCEPT !.pc = "commit"]
  <2>1. /\ q.pc = "commit" /\ q.op = req[r].op /\ q.ticket = req[r].ticket /\ q.new = req[r].new
        /\ q.other = req[r].other
    BY <1>0 DEF ReqState
  <2>2. req[r].other # t
    BY <1>0, InHand, NamesAssumption
  <2> HIDE DEF q
  <2>3. req' = [req EXCEPT ![r] = q]
    BY <1>2 DEF q
  <2> QED
    BY <1>1, <2>1, <2>2, <2>3
<1>3. ASSUME NEW o, req' = [req EXCEPT ![r] = [req[r] EXCEPT !.pc = "commit", !.other = o,
                                                             !.otherSeen = db[o]]]
      PROVE  Tracked(t)'
  <2> DEFINE q == [req[r] EXCEPT !.pc = "commit", !.other = o, !.otherSeen = db[o]]
  <2>1. /\ q.pc = "commit" /\ q.op = req[r].op /\ q.ticket = req[r].ticket /\ q.new = req[r].new
        /\ q.other = o /\ q.otherSeen = db[o]
    BY <1>0 DEF ReqState
  <2> HIDE DEF q
  <2>3. req' = [req EXCEPT ![r] = q]
    BY <1>3 DEF q
  <2> QED
    BY <1>1, <2>1, <2>3
<1> QED
  BY <1>0, <1>2, <1>3 DEF ClaimList

\* A commit owes what it writes.
LEMMA CommitTracked ==
    ASSUME BoardInv, NEW t \in Ticket, t \in excused \/ Tracked(t), Overlaps, t \notin excused',
           NEW r \in Request, TxCommit(r), UNCHANGED cache
    PROVE  Tracked(t)'
<1>0. /\ TypeInv /\ req[r].pc = "commit" /\ db' = CommittedDb(r)
      /\ req'[r].pc = "reply" /\ req'[r].op = req[r].op /\ req'[r].ticket = req[r].ticket
      /\ req'[r].new = req[r].new /\ req'[r].other = req[r].other
      /\ \A p \in Request \ {r} : req'[p] = req[p]
  BY SlotEnds DEF BoardInv, TxCommit
<1>1. Tracked(t) /\ Abreast(r, t) /\ ~Owes(r, t)
  BY <1>0, OverlapsExcuse DEF Tracked, Owes
<1>2. req[r].new \in Row
  BY <1>0, InHand
<1>3. CASE t \notin {req[r].ticket, req[r].other}
  <2>1. db'[t] = db[t]
    BY <1>0, <1>3 DEF CommittedDb
  <2>2. ~Owes(r, t)' /\ Abreast(r, t)'
    BY <1>0, <1>3 DEF Owes, Abreast
  <2> QED
    BY <1>0, <1>1, <2>1, <2>2, Frame
<1>4. ASSUME NEW row \in Row, t \in {req[r].ticket, req[r].other}, db'[t] = Written(t, row),
             Exists(t) => row.board = db[t].board, t = req[r].ticket => row = req[r].new
      PROVE  Tracked(t)'
  <2>1. Owes(r, t)'
    BY <1>0, <1>4 DEF Owes
  <2>2. Exists(t)'
    BY <2>1, OverlapsExcuse
  <2>3. Exists(t) /\ db'[t] = row
    BY <1>4, <2>2 DEF Exists, Written
  <2>4. Abreast(r, t)'
    BY <1>0, <1>1, <1>4, <2>3 DEF Abreast
  <2> QED
    BY <1>0, <1>1, <1>4, <2>1, <2>3, <2>4, Overwritten
<1>5. CASE t = req[r].ticket
  <2>1. db'[t] = Written(t, req[r].new)
    BY <1>0, <1>5 DEF CommittedDb
  <2>2. Exists(t) => req[r].new.board = db[t].board
    BY <1>0, <1>1, <1>5 DEF Abreast
  <2> QED
    BY <1>2, <1>4, <1>5, <2>1, <2>2
<1>6. CASE t # req[r].ticket /\ t = req[r].other
  <2>1. db'[t] = Written(t, ReleasedRow(req[r].otherSeen))
    BY <1>0, <1>6 DEF CommittedDb
  <2>2. req[r].otherSeen \in Row
    BY <1>0, <1>6, NamesAssumption DEF TypeInv, Pending
  <2>3. /\ ReleasedRow(req[r].otherSeen) \in Row
        /\ ReleasedRow(req[r].otherSeen).board = req[r].otherSeen.board
    BY <2>2 DEF ReleasedRow, Row, Column, Assignee
  <2>4. Exists(t) => req[r].otherSeen.board = db[t].board
    BY <1>0, <1>1, <1>6 DEF Abreast
  <2> QED
    BY <1>4, <1>6, <2>1, <2>3, <2>4
<1> QED
  BY <1>3, <1>5, <1>6

\* A handler that holds mu leaves the ticket where it is on the board.
LEMMA EditTracked ==
    ASSUME BoardInv, NEW t \in Ticket, Tracked(t), Overlaps, t \notin excused',
           NEW r \in Request, EditWrite(r), Finish(r), req[r].ticket = t, req[r].op \in EditOps,
           cache' \in Replaced(cache, t, req[r].new)
    PROVE  Tracked(t)'
<1> DEFINE new == req[r].new
<1>0. /\ TypeInv /\ Boards(cache) /\ db \in [Ticket -> Entry] /\ new \in Row
      /\ req[r].pc = "write" /\ mu = r
  BY InHand DEF BoardInv, Filed, EditWrite, TypeInv, TypeOK
<1>1. /\ req'[r].pc = "idle" /\ req'[r].ticket # t /\ req'[r].other # t
      /\ \A p \in Request \ {r} : req'[p] = req[p]
  BY <1>0, SlotEnds, NamesAssumption
<1>2. Abreast(r, t)' /\ ~Owes(r, t) /\ ~Owes(r, t)'
  BY <1>0, <1>1 DEF Abreast, Owes
<1>3. db'[t] = Written(t, new)
  BY <1>0 DEF EditWrite
<1>4. /\ \/ cache[t] = {} /\ cache'[t] = {}
         \/ \E p \in cache[t] : cache'[t] = (cache[t] \ {p}) \cup {[p EXCEPT !.row = new]}
      /\ cache[t] \subseteq Placement
  <2>1. cache[t] \subseteq Placement
    BY <1>0 DEF Boards, OnePerBoard
  <2> QED
    BY <1>0, <2>1, ReplacedBoards
<1> HIDE DEF new
<1>5. CASE ~Exists(t)
  <2>1. db'[t] = db[t] /\ cache[t] = {} /\ cache'[t] = cache[t]
    BY <1>3, <1>4, <1>5 DEF Written, Tracked, Settled
  <2> QED
    BY <1>1, <1>2, <2>1, Frame
<1>6. CASE Exists(t) /\ Owed(t)
  <2>1. PICK p \in Request : Owes(p, t)
    BY <1>6 DEF Owed
  <2>2. Owes(p, t)' /\ p # r
    BY <1>1, <1>2, <2>1 DEF Owes
  <2>3. db'[t] = db[t] /\ Owed(t)'
    BY <2>1, <2>2, OverlapsExcuse DEF Owed
  <2>4. \A x \in Request : Abreast(x, t)'
    BY <1>1, <1>2, <2>3, AbreastStays DEF Tracked
  <2>5. \A x \in cache'[t] : x.board = db[t].board
    <3>1. \A x \in cache[t] : x.board = db[t].board /\ [x EXCEPT !.row = new].board = x.board
      BY <1>4, <1>6 DEF Tracked, Placement
    <3> QED
      BY <1>4, <3>1
  <2> QED
    BY <1>6, <2>3, <2>4, <2>5 DEF Tracked, Exists
<1>7. CASE Exists(t) /\ ~Owed(t)
  <2>1. db'[t] = new /\ Exists(t)' /\ db[t] \in Row
    BY <1>0, <1>3, <1>7 DEF Written, Exists
  <2>2. new.board = db[t].board /\ new.column = db[t].column /\ new.archived = db[t].archived
    <3>1. Shape(new) = Shape(db[t])
      BY <1>0, <1>7 DEF Tracked, Abreast, new
    <3> QED
      BY <3>1 DEF Shape
  <2>3. cache[t] \subseteq PlaceOf(db[t]) /\ (~db[t].archived => cache[t] = PlaceOf(db[t]))
    BY <1>7 DEF Tracked, Settled
  <2>4. Settled(t)'
    <3>1. CASE cache[t] = {} /\ cache'[t] = {}
      <4>1. PlaceOf(db[t]) = {} => PlaceOf(new) = {}
        BY <2>2 DEF PlaceOf
      <4> QED
        BY <2>1, <2>2, <2>3, <3>1, <4>1 DEF Settled
    <3>2. ASSUME NEW p \in cache[t], cache'[t] = (cache[t] \ {p}) \cup {[p EXCEPT !.row = new]}
          PROVE  Settled(t)'
      <4>1. /\ cache[t] = {p} /\ PlaceOf(db[t]) = {p}
            /\ p = [board |-> db[t].board, column |-> db[t].column, row |-> db[t]]
        BY <2>1, <2>3, OnePlace
      <4>2. [p EXCEPT !.row = new] = [board |-> new.board, column |-> new.column, row |-> new]
        BY <2>2, <4>1
      <4>3. new.column \in BoardColumn[new.board]
        BY <2>2, <4>1 DEF PlaceOf
      <4>4. cache'[t] = PlaceOf(new)
        BY <3>2, <4>1, <4>2, <4>3 DEF PlaceOf
      <4> QED
        BY <2>1, <4>4 DEF Settled
    <3> QED
      BY <1>4, <3>1, <3>2
  <2>5. \A p \in cache'[t] : p.board = db'[t].board
    <3>1. new \in Row /\ cache'[t] \subseteq PlaceOf(new)
      BY <1>0, <2>1, <2>4 DEF Settled
    <3> QED
      BY <2>1, <3>1, Places
  <2>6. ASSUME NEW p \in Request \ {r} PROVE Abreast(p, t)'
    <3>1. Abreast(p, t) /\ req'[p] = req[p] /\ Filed(p)
      BY <1>1 DEF Tracked, BoardInv
    <3>2. ~(req[p].ticket = t /\ req[p].pc = "reply")
      BY <1>7 DEF Owed, Owes
    <3>3. ~(req[p].pc = "write" /\ req[p].op \in EditOps)
      BY <1>0, <3>1 DEF Filed
    <3> QED
      BY <1>7, <2>1, <2>2, <3>1, <3>2, <3>3 DEF Abreast
  <2> QED
    BY <1>2, <2>1, <2>4, <2>5, <2>6 DEF Tracked
<1> QED
  BY <1>5, <1>6, <1>7

LEMMA WriteTracked ==
    ASSUME BoardInv, NEW t \in Ticket, t \in excused \/ Tracked(t), t \notin excused',
           NEW r \in Request, CachedEditWrite(r)
    PROVE  Tracked(t)'
<1>0. /\ TypeInv /\ Boards(cache) /\ db \in [Ticket -> Entry] /\ Filed(r)
      /\ req[r].pc = "write" /\ EditWrite(r) /\ Overlaps
      /\ req[r].ticket \in Ticket /\ req[r].other = NoTicket /\ req[r].new \in Row
  BY InHand DEF BoardInv, EditWrite, CachedEditWrite, TypeInv, TypeOK
<1>1. Tracked(t) /\ Abreast(r, t)
  BY <1>0, OverlapsExcuse DEF Tracked
<1>2. /\ req'[r].other = NoTicket /\ req'[r].ticket \in {NoTicket, req[r].ticket}
      /\ \A p \in Request \ {r} : req'[p] = req[p]
  BY <1>0, SlotEnds DEF EditWrite
<1>3. CASE req[r].ticket # t
  <2>1. db'[t] = db[t] /\ cache'[t] = cache[t]
    BY <1>0, <1>3, ReplacedBoards DEF CachedEditWrite, EditWrite
  <2>2. req'[r].ticket # t /\ req'[r].other # t
    BY <1>2, <1>3, NamesAssumption
  <2>3. ~Owes(r, t) /\ ~Owes(r, t)' /\ Abreast(r, t)'
    BY <1>0, <2>2 DEF Owes, Abreast
  <2> QED
    BY <1>1, <1>2, <2>1, <2>3, Frame
<1>4. CASE req[r].ticket = t /\ req[r].op \in EditOps
  <2>1. Finish(r) /\ cache' \in Replaced(cache, t, req[r].new)
    BY <1>0, <1>4 DEF EditWrite, CachedEditWrite, EditOps
  <2> QED
    BY <1>0, <1>1, <1>4, <2>1, EditTracked
<1>5. CASE req[r].ticket = t /\ req[r].op \notin EditOps
  <2>1. req[r].op = "mcp_comment"
    BY <1>0, <1>1, <1>5 DEF Filed, Abreast
  <2>2. /\ cache' = cache /\ req'[r].pc = "reply" /\ req'[r].op = "mcp_comment"
        /\ req'[r].ticket = t /\ req'[r].new = req[r].new
    BY <1>0, <1>5, <2>1, SlotEnds DEF CachedEditWrite, EditWrite
  <2>3. Owes(r, t)' /\ ~Owes(r, t)
    BY <1>0, <2>2 DEF Owes
  <2>4. Exists(t)' /\ db'[t] = Written(t, req[r].new)
    BY <1>0, <1>5, <2>3, OverlapsExcuse DEF EditWrite
  <2>5. Exists(t) /\ db'[t] = req[r].new
    BY <2>4 DEF Exists, Written
  <2>6. db'[t].board = db[t].board
    BY <1>0, <1>1, <1>5, <2>5 DEF Abreast
  <2>7. Abreast(r, t)'
    BY <1>2, <2>2, <2>5, NamesAssumption DEF Abreast
  <2> QED
    BY <1>0, <1>1, <1>2, <2>2, <2>3, <2>5, <2>6, <2>7, Overwritten
<1> QED
  BY <1>3, <1>4, <1>5

\* The other steps of a request in the store: an unarchive's ticket is excused,
\* and the ticket that an MCP claim reads again is owed before and after, unless
\* the read fails.
LEMMA StoreTracked ==
    ASSUME BoardInv, NEW t \in Ticket, Tracked(t), t \notin excused', NEW r \in Request,
           UNCHANGED cache, UnarchivePlace(r) \/ CachedReread(r) \/ Fail(r)
    PROVE  Tracked(t)'
<1>0. /\ TypeInv /\ req \in [Request -> ReqState] /\ Filed(r) /\ Abreast(r, t) /\ UNCHANGED db
  BY DEF BoardInv, TypeInv, TypeOK, UnarchivePlace, CachedReread, McpReread, Fail, Tracked
<1>f. ASSUME Finish(r), ~Owes(r, t) PROVE Tracked(t)'
  <2>1. ~Owes(r, t)' /\ Abreast(r, t)' /\ \A p \in Request \ {r} : req'[p] = req[p]
    BY <1>0, <1>f, SlotEnds, NamesAssumption DEF Owes, Abreast
  <2> QED
    BY <1>0, <1>f, <2>1, Frame
<1>1. CASE UnarchivePlace(r)
  <2>1. req[r].pc = "place" /\ req[r].op = "unarchive"
    BY <1>0, <1>1 DEF UnarchivePlace, Filed
  <2>2. req[r].ticket # t /\ req[r].other # t
    BY <1>0, <2>1, InHand, NamesAssumption DEF Abreast
  <2>3. /\ req'[r].ticket = req[r].ticket /\ req'[r].other = req[r].other
        /\ \A p \in Request \ {r} : req'[p] = req[p]
    <3>1. PICK row : req' = [req EXCEPT ![r] = [req[r] EXCEPT !.pc = "write", !.seen = db[req[r].ticket],
                                                              !.new = row]]
      BY <1>1 DEF UnarchivePlace
    <3> QED
      BY <1>0, <3>1 DEF ReqState
  <2>4. ~Owes(r, t) /\ ~Owes(r, t)' /\ Abreast(r, t)'
    BY <2>2, <2>3 DEF Owes, Abreast
  <2> QED
    BY <1>0, <2>3, <2>4, Frame
<1>2. CASE Fail(r)
  <2>1. Finish(r) /\ ~Owes(r, t)
    BY <1>2 DEF Fail, Owes
  <2> QED
    BY <1>f, <2>1
<1>3. CASE CachedReread(r)
  <2> DEFINE o == req[r].ticket
             q == Replying("claim", o, db[o], NoTicket)
  <2>1. McpReread(r) /\ req[r].pc = "reread" /\ req[r].other = NoTicket
    BY <1>3, InHand DEF CachedReread, McpReread
  <2>2. Owes(r, t) <=> o = t
    BY <2>1, NamesAssumption DEF Owes
  <2>3. CASE Finish(r)
    <3>1. Idle(r)'
      BY <1>0, <2>3, SlotEnds DEF Idle
    <3>2. ~Owes(r, t)
      <4>1. o = t => ~Exists(t)
        BY <1>3, <3>1 DEF CachedReread, Excuses
      <4>2. Owes(r, t) => Exists(t)
        BY DEF Tracked, Owed
      <4> QED
        BY <2>2, <4>1, <4>2
    <3> QED
      BY <1>f, <2>3, <3>2
  <2>4. CASE ~Finish(r)
    <3>1. Exists(o) /\ req' = [req EXCEPT ![r] = q]
      BY <2>1, <2>4 DEF McpReread
    <3>2. /\ q.pc = "reply" /\ q.op = "claim" /\ q.ticket = o /\ q.new = db[o]
          /\ q.other = NoTicket
      BY DEF Replying, IdleReq
    <3> HIDE DEF q
    <3>3. req'[r] = q /\ \A p \in Request \ {r} : req'[p] = req[p]
      BY <1>0, <3>1
    <3>4. Owes(r, t)' <=> o = t
      BY <3>2, <3>3, NamesAssumption DEF Owes
    <3>5. Abreast(r, t)'
      BY <1>0, <3>2, <3>3, NamesAssumption DEF Abreast
    <3> QED
      BY <1>0, <2>2, <3>1, <3>3, <3>4, <3>5, Frame
  <2> QED
    BY <2>3, <2>4
<1> QED
  BY <1>1, <1>2, <1>3

\* A row is put on the board while mu is held.
LEMMA PutOnBoard ==
    ASSUME BoardInv, NEW t \in Ticket, Tracked(t), Exists(t), UNCHANGED db, MuFree, NEW r \in Request,
           \A p \in Request \ {r} : req'[p] = req[p],
           cache'[t] = PlaceOf(db[t]), Abreast(r, t)'
    PROVE  Tracked(t)'
<1>1. db[t] \in Row /\ Exists(t)'
  BY DEF Exists
<1>2. Settled(t)' /\ \A p \in cache'[t] : p.board = db[t].board
  BY <1>1, Places DEF Settled
<1>3. ASSUME NEW p \in Request \ {r} PROVE Abreast(p, t)'
  <2>1. Abreast(p, t) /\ Filed(p) /\ req'[p] = req[p]
    BY DEF Tracked, BoardInv
  <2>2. ~(req[p].pc = "write" /\ req[p].op \in EditOps)
    BY <2>1, NamesAssumption DEF Filed, MuFree
  <2> QED
    BY <1>1, <2>1, <2>2 DEF Abreast
<1> QED
  BY <1>1, <1>2, <1>3 DEF Tracked

\* The row that a request syncs is the one in the table, and the ticket is on
\* no other board.
LEMMA SyncedPlace ==
    ASSUME NEW t \in Ticket, Tracked(t), Exists(t), NEW c, Boards(c),
           c[t] = cache[t] \/ c[t] = PlaceOf(db[t])
    PROVE  Synced(c, t, db[t])[t] = PlaceOf(db[t])
<1>1. db[t] \in Row
  BY DEF Exists
<1>2. Synced(c, t, db[t])[t] = {p \in c[t] : p.board # db[t].board} \cup PlaceOf(db[t])
  BY <1>1, SyncedBoards
<1>3. \A p \in c[t] : p.board = db[t].board
  BY <1>1, Places DEF Tracked
<1> QED
  BY <1>2, <1>3

LEMMA SyncTracked ==
    ASSUME BoardInv, NEW t \in Ticket, t \in excused \/ Tracked(t), t \notin excused',
           NEW r \in Request, Sync(r)
    PROVE  Tracked(t)'
<1> DEFINE x == req[r].ticket
           o == req[r].other
           c == Synced(cache, x, req[r].new)
<1>0. /\ TypeInv /\ Boards(cache) /\ req \in [Request -> ReqState]
      /\ req[r].pc = "reply" /\ MuFree /\ UNCHANGED db /\ t \notin excused
      /\ x \in Ticket /\ req[r].new \in Row
      /\ o # NoTicket => o \in Ticket
  BY InHand, OverlapsExcuse
     DEF BoardInv, Sync, CachedReply, CachedMcpReply, Reply, McpReply, Excuses, TypeInv, TypeOK
<1>1. Tracked(t) /\ (Owes(r, t) <=> t \in {x, o})
  BY <1>0 DEF Owes
<1>2. t \in {x, o} => Exists(t)
  BY <1>1 DEF Tracked, Owed
<1>3. t = x => req[r].new = db[t]
  BY <1>0, <1>1 DEF Tracked, Abreast
<1>4. Boards(c) /\ (t # x => c[t] = cache[t])
  BY <1>0, SyncedBoards
<1>5. t = x => c[t] = PlaceOf(db[t])
  BY <1>0, <1>1, <1>2, <1>3, SyncedPlace
<1> HIDE DEF x, o, c
<1>6. CASE CachedReply(r)
  <2>1. /\ Finish(r)
        /\ \/ o # NoTicket /\ Exists(o) /\ cache' = Synced(c, o, db[o])
           \/ cache' = c /\ t # o
    BY <1>2, <1>6, NamesAssumption DEF CachedReply, Reply, Excuses, c, x, o
  <2>2. /\ ~Owes(r, t)' /\ Abreast(r, t)'
        /\ \A p \in Request \ {r} : req'[p] = req[p]
    BY <1>0, <2>1, SlotEnds, NamesAssumption DEF Owes, Abreast
  <2>3. CASE t = o
    <3>1. cache' = Synced(c, t, db[t])
      BY <2>1, <2>3
    <3>2. cache'[t] = PlaceOf(db[t])
      BY <1>1, <1>2, <1>4, <1>5, <2>3, <3>1, SyncedPlace
    <3> QED
      BY <1>0, <1>1, <1>2, <2>2, <2>3, <3>2, PutOnBoard
  <2>4. CASE t # o
    <3>1. cache'[t] = c[t]
      <4>1. CASE o # NoTicket /\ Exists(o) /\ cache' = Synced(c, o, db[o])
        <5>1. o \in Ticket /\ db[o] \in Row
          BY <1>0, <4>1 DEF Exists
        <5> QED
          BY <1>4, <2>4, <4>1, <5>1, SyncedBoards
      <4> QED
        BY <2>1, <4>1
    <3>2. CASE t = x
      BY <1>0, <1>1, <1>2, <1>5, <2>2, <3>1, <3>2, PutOnBoard
    <3>3. CASE t # x
      <4>1. ~Owes(r, t) /\ cache'[t] = cache[t]
        BY <1>1, <1>4, <2>4, <3>1, <3>3
      <4> QED
        BY <1>0, <1>1, <2>2, <4>1, Frame
    <3> QED
      BY <3>2, <3>3
  <2> QED
    BY <2>3, <2>4
<1>7. CASE CachedMcpReply(r)
  <2> DEFINE q == [Replying("claim", req[r].other, NoRow, NoTicket) EXCEPT !.pc = "reread"]
  <2>1. cache' = c /\ req' = [req EXCEPT ![r] = q]
    BY <1>7 DEF CachedMcpReply, McpReply, c, x
  <2>2. q.pc = "reread" /\ q.op = "claim" /\ q.ticket = o /\ q.other = NoTicket
    BY DEF Replying, IdleReq, o
  <2> HIDE DEF q
  <2>3. req'[r] = q /\ \A p \in Request \ {r} : req'[p] = req[p]
    BY <1>0, <2>1
  <2>4. Abreast(r, t)'
    BY <2>2, <2>3, NamesAssumption DEF Abreast
  <2>5. CASE t = x
    BY <1>0, <1>1, <1>2, <1>5, <2>1, <2>3, <2>4, <2>5, PutOnBoard
  <2>6. CASE t # x
    <3>1. cache'[t] = cache[t]
      BY <1>4, <2>1, <2>6
    <3>2. (Owes(r, t) => Owes(r, t)') /\ (Owes(r, t)' => Exists(t))
      BY <1>1, <1>2, <2>2, <2>3, <2>6, NamesAssumption DEF Owes
    <3> QED
      BY <1>0, <1>1, <2>3, <2>4, <3>1, <3>2, Frame
  <2> QED
    BY <2>5, <2>6
<1> QED
  BY <1>6, <1>7 DEF Sync

\* Nobody is at work on a ticket that has just been created.
LEMMA CreateTracked ==
    ASSUME BoardInv, NEW t \in Ticket, Tracked(t), db[t] = Unused, Exists(t)',
           cache'[t] \subseteq PlaceOf(db'[t]), Owed(t)' \/ cache'[t] = PlaceOf(db'[t]),
           \A p \in Request : req'[p] = req[p] \/ Abreast(p, t)'
    PROVE  Tracked(t)'
<1>1. ASSUME NEW p \in Request, req'[p] = req[p] PROVE Abreast(p, t)'
  <2>1. Filed(p) /\ Pending(p) /\ Abreast(p, t)
    BY DEF BoardInv, TypeInv, Tracked
  <2>2. req[p].ticket = t => req[p].pc = "idle"
    BY <2>1 DEF Filed
  <2>3. req[p].other # t
    BY <2>1, NamesAssumption DEF Filed
  <2> QED
    BY <1>1, <2>1, <2>2, <2>3 DEF Abreast
<1>2. db'[t] \in Row
  BY DEF Exists
<1>3. \A p \in cache'[t] : p.board = db'[t].board
  BY <1>2, Places
<1>4. Owed(t)' \/ Settled(t)'
  BY DEF Settled
<1> QED
  BY <1>1, <1>3, <1>4 DEF Tracked

-----------------------------------------------------------------------------
\* A row is put back on the table, and its ticket is excused: the others do not
\* notice.
LEMMA UnarchiveTracked ==
    ASSUME BoardInv, NEW t \in Ticket, Tracked(t), NEW r \in Request, NEW u \in User, NEW x \in Ticket,
           x # t, UNCHANGED cache, Unarchive(r, u, x)
    PROVE  Tracked(t)'
<1>0. /\ req \in [Request -> ReqState] /\ Idle(r) /\ db' = [db EXCEPT ![x].archived = FALSE]
  BY DEF BoardInv, TypeInv, TypeOK, Unarchive
<1>1. db'[t] = db[t] /\ cache'[t] = cache[t]
  BY <1>0 DEF BoardInv, TypeInv, TypeOK
<1> DEFINE q == [IdleReq EXCEPT !.pc = "place", !.op = "unarchive", !.user = u, !.ticket = x]
<1>2. q.pc = "place" /\ q.ticket = x /\ q.other = NoTicket
  BY DEF IdleReq
<1>3. UNCHANGED req \/ req' = [req EXCEPT ![r] = q]
  BY DEF Unarchive
<1> HIDE DEF q
<1>4. CASE UNCHANGED req
  BY <1>1, <1>4, SameFrame
<1>5. CASE req' = [req EXCEPT ![r] = q]
  <2>1. req'[r] = q /\ \A p \in Request \ {r} : req'[p] = req[p]
    BY <1>0, <1>5
  <2>2. ~Owes(r, t) /\ ~Owes(r, t)' /\ Abreast(r, t)'
    BY <1>0, <1>2, <2>1, NamesAssumption DEF Idle, Owes, Abreast
  <2> QED
    BY <1>1, <2>1, <2>2, Frame
<1> QED
  BY <1>3, <1>4, <1>5

LEMMA McpCreateTracked ==
    ASSUME BoardInv, NEW t \in Ticket, Tracked(t), NEW r \in Request, NEW u \in User, NEW x \in Ticket,
           UNCHANGED cache, McpCreate(r, u, x)
    PROVE  Tracked(t)'
<1>0. /\ req \in [Request -> ReqState] /\ db \in [Ticket -> Entry] /\ Idle(r) /\ db[x] = Unused
      /\ cache[x] = {}
  BY DEF BoardInv, TypeInv, TypeOK, McpCreate
<1>1. PICK c \in NewColumn, b \in Board :
        /\ db' = [db EXCEPT ![x] = FreshRow(c, NoUser, b)]
        /\ req' = [req EXCEPT ![r] = Replying("mcp_create", x, FreshRow(c, NoUser, b), NoTicket)]
  BY DEF McpCreate
<1> DEFINE row == FreshRow(c, NoUser, b)
           q == Replying("mcp_create", x, row, NoTicket)
<1>2. row \in Row
  BY FreshRowsAreRows DEF FreshRows, Assignee
<1>3. q.pc = "reply" /\ q.op = "mcp_create" /\ q.ticket = x /\ q.new = row /\ q.other = NoTicket
  BY DEF Replying, IdleReq
<1> HIDE DEF q, row
<1>4. /\ req'[r] = q /\ db'[x] = row
      /\ \A p \in Request \ {r} : req'[p] = req[p]
      /\ \A y \in Ticket \ {x} : db'[y] = db[y]
  BY <1>0, <1>1 DEF q, row
<1>5. CASE x # t
  <2>1. ~Owes(r, t) /\ ~Owes(r, t)' /\ Abreast(r, t)'
    BY <1>0, <1>3, <1>4, <1>5, NamesAssumption DEF Idle, Owes, Abreast
  <2> QED
    BY <1>4, <1>5, <2>1, Frame
<1>6. CASE x = t
  <2>1. Abreast(r, t)' /\ Owed(t)' /\ Exists(t)' /\ cache'[t] = {}
    BY <1>0, <1>2, <1>3, <1>4, <1>6, NamesAssumption DEF Abreast, Owed, Owes, Exists
  <2> QED
    BY <1>0, <1>4, <1>6, <2>1, CreateTracked
<1> QED
  BY <1>5, <1>6

\* The flag is set in the table and the place is taken from the board.
LEMMA ArchiveTracked ==
    ASSUME BoardInv, NEW t \in Ticket, Tracked(t), Overlaps, t \notin excused',
           NEW u \in User, NEW S \in SUBSET Ticket, Archive(u, S), cache' \in Hidden(cache, S)
    PROVE  Tracked(t)'
<1>0. /\ UNCHANGED req /\ MuFree
      /\ db'[t] = IF t \in S THEN [db[t] EXCEPT !.archived = TRUE] ELSE db[t]
      /\ t \in S => Exists(t)
  BY DEF Archive
<1>1. IF t \in S /\ cache[t] # {} THEN \E p \in cache[t] : cache'[t] = cache[t] \ {p}
                                  ELSE cache'[t] = cache[t]
  BY HiddenBoards DEF BoardInv
<1>2. CASE t \notin S
  BY <1>0, <1>1, <1>2, SameFrame
<1>3. CASE t \in S
  <2> DEFINE row == [db[t] EXCEPT !.archived = TRUE]
  <2>1. db[t] \in Row /\ row \in Row /\ row.board = db[t].board /\ row.archived
    BY <1>0, <1>3 DEF Exists, Row
  <2> HIDE DEF row
  <2>2. db'[t] = row /\ Exists(t)' /\ cache'[t] \subseteq cache[t]
    BY <1>0, <1>1, <1>3, <2>1 DEF Exists, row
  <2>3. \A p \in cache'[t] : p.board = db'[t].board
    BY <2>1, <2>2 DEF Tracked, Exists
  <2>4. Owed(t)' <=> Owed(t)
    BY <1>0 DEF Owed, Owes
  <2>5. Owed(t) \/ Settled(t)'
    <3>1. SUFFICES ASSUME ~Owed(t) PROVE cache'[t] = {}
      BY <2>1, <2>2 DEF Settled
    <3>2. cache[t] \subseteq PlaceOf(db[t])
      BY <2>1, <3>1 DEF Tracked, Settled, Exists
    <3> QED
      BY <1>1, <1>3, <2>1, <3>2, OnePlace
  <2>6. ASSUME NEW p \in Request PROVE Abreast(p, t)'
    <3>1. Abreast(p, t) /\ Filed(p) /\ req'[p] = req[p]
      BY <1>0 DEF Tracked, BoardInv
    <3>2. ~(req[p].pc = "write" /\ req[p].op \in EditOps)
      BY <1>0, <3>1, NamesAssumption DEF Filed, MuFree
    <3>3. req[p].ticket = t /\ req[p].pc = "reply" => db'[t] = db[t]
      <4>1. req[p].ticket = t /\ req[p].pc = "reply" => Owes(p, t) /\ Owes(p, t)'
        BY <3>1 DEF Owes
      <4> QED
        BY <4>1, OverlapsExcuse
    <3>4. Exists(t)' /\ Exists(t) /\ db'[t].board = db[t].board
      BY <2>1, <2>2 DEF Exists
    <3> QED
      BY <3>1, <3>2, <3>3, <3>4 DEF Abreast
  <2> QED
    BY <2>2, <2>3, <2>4, <2>5, <2>6 DEF Tracked
<1> QED
  BY <1>2, <1>3

\* A handler that holds mu creates or deletes a ticket in the table and on the
\* board.
LEMMA TicketTracked ==
    ASSUME BoardInv, NEW t \in Ticket, t \in excused \/ Tracked(t), t \notin excused',
           NEW x \in Ticket,
           CachedCreate(x) \/ CreateWithoutRow(x) \/ CachedDelete(x) \/ DeleteKeepsRow(x)
    PROVE  Tracked(t)'
<1>0. Boards(cache) /\ db \in [Ticket -> Entry] /\ UNCHANGED req
  BY DEF BoardInv, TypeInv, TypeOK, CachedCreate, Create, CreateWithoutRow, CachedDelete, Delete,
         DeleteKeepsRow, vars
<1>1. Tracked(t)
  BY OverlapsExcuse DEF CachedCreate, CreateWithoutRow, CachedDelete, DeleteKeepsRow, Excuses
<1>2. CASE x # t
  <2>1. db'[t] = db[t]
    BY <1>0, <1>2 DEF CachedCreate, Create, CreateWithoutRow, CachedDelete, Delete, DeleteKeepsRow, vars
  <2>2. cache'[t] = cache[t]
    BY <1>0, <1>2 DEF Boards, CachedCreate, CreateWithoutRow, CachedDelete, DeleteKeepsRow
  <2> QED
    BY <1>0, <1>1, <2>1, <2>2, SameFrame
<1>3. CASE x = t
  <2>1. ~CreateWithoutRow(x) /\ ~DeleteKeepsRow(x)
    BY <1>3 DEF CreateWithoutRow, DeleteKeepsRow, Excuses
  <2>2. CASE CachedCreate(x)
    <3>1. PICK row \in FreshRows : db' = [db EXCEPT ![x] = row]
      BY <2>2 DEF CachedCreate, Create
    <3>2. db[t] = Unused /\ Exists(t)' /\ cache[t] = {}
      BY <1>0, <1>3, <2>2, <3>1, FreshRowsAreRows DEF CachedCreate, Create, Exists, BoardInv
    <3>3. cache' = [cache EXCEPT ![t] = cache[t] \cup PlaceOf(db'[t])]
      BY <1>3, <2>2 DEF CachedCreate
    <3>4. cache'[t] = PlaceOf(db'[t])
      BY <1>0, <3>2, <3>3 DEF Boards
    <3> QED
      BY <1>0, <1>1, <3>2, <3>4, CreateTracked
  <2>3. CASE CachedDelete(x)
    <3>1. db'[t] = Deleted /\ cache'[t] = {} /\ Overlaps
      BY <1>0, <1>3, <2>3 DEF CachedDelete, Delete, Boards
    <3>2. ~Exists(t)'
      BY <3>1, RowAssumption DEF Exists
    <3>3. ~Owed(t)'
      BY <3>1, <3>2, OverlapsExcuse DEF Owed
    <3>4. \A p \in Request : ~Owes(p, t)'
      BY <3>3 DEF Owed
    <3>5. ASSUME NEW p \in Request PROVE Abreast(p, t)'
      BY <1>0, <1>1, <3>2, <3>4 DEF Tracked, Abreast, Owes
    <3> QED
      BY <3>1, <3>2, <3>3, <3>5 DEF Tracked, Settled
  <2> QED
    BY <2>1, <2>2, <2>3
<1> QED
  BY <1>2, <1>3

\* Nobody is at work and the boards have just been loaded.
LEMMA LoadedTracked ==
    ASSUME req = [r \in Request |-> IdleReq], NEW t \in Ticket, cache[t] = Shown(db[t])
    PROVE  Tracked(t)
<1>1. \A p \in Request : req[p].pc = "idle" /\ req[p].ticket # t /\ req[p].other # t
  BY NamesAssumption DEF IdleReq
<1>2. ~Owed(t) /\ \A p \in Request : Abreast(p, t)
  BY <1>1 DEF Owed, Owes, Abreast
<1>3. Settled(t) /\ (Exists(t) => cache[t] \subseteq PlaceOf(db[t]))
  BY DEF Settled, Shown, Exists
<1>4. Exists(t) => \A p \in cache[t] : p.board = db[t].board
  BY <1>3, Places DEF Exists
<1> QED
  BY <1>2, <1>3, <1>4 DEF Tracked

LEMMA NextCacheInv == CacheInv /\ [CacheNext]_cacheVars => CacheInv'
<1> SUFFICES ASSUME CacheInv, [CacheNext]_cacheVars, NEW t \in Ticket, t \notin excused'
             PROVE  Tracked(t)'
  BY NextBoardInv DEF CacheInv
<1>0. BoardInv /\ TypeInv /\ (t \in excused \/ Tracked(t))
  BY DEF CacheInv, BoardInv
<1>1. CASE UNCHANGED cacheVars
  BY <1>0, <1>1, SameFrame DEF cacheVars, vars
<1>2. ASSUME NEW r \in Request, StoreStep(r) PROVE Tracked(t)'
  <2>1. CASE CachedEditWrite(r)
    BY <1>0, <2>1, WriteTracked
  <2>2. CASE ~CachedEditWrite(r)
    <3>1. UNCHANGED cache /\ (CachedReread(r) \/ Overlaps)
      BY <1>2, <2>2 DEF StoreStep, CachedReread
    <3>2. Tracked(t)
      BY <1>0, <3>1, OverlapsExcuse DEF CachedReread, Excuses
    <3> QED
      BY <1>0, <1>2, <2>2, <3>1, <3>2, ListTracked, CommitTracked, StoreTracked DEF StoreStep
  <2> QED
    BY <2>1, <2>2
<1>3. ASSUME NEW r \in Request, Sync(r) PROVE Tracked(t)'
  BY <1>0, <1>3, SyncTracked
<1>4. ASSUME NEW r \in Request, ServiceRead(r) \/ HandlerRead(r), UNCHANGED <<cache, excused>>
      PROVE  Tracked(t)'
  <2>1. PICK x \in Ticket : Begun(r, x)
    BY <1>0, <1>4, ReadsBegin
  <2> QED
    BY <1>0, <1>4, <2>1, ReadTracked
<1>5. ASSUME NEW r \in Request, NEW u \in User, NEW x \in Ticket, CachedUnarchive(r, u, x)
      PROVE  Tracked(t)'
  <2>1. x # t /\ Tracked(t) /\ Unarchive(r, u, x) /\ UNCHANGED cache
    BY <1>0, <1>5 DEF CachedUnarchive, Excuses
  <2> QED
    BY <1>0, <2>1, UnarchiveTracked
<1>6. ASSUME NEW r \in Request, NEW u \in User, NEW x \in Ticket, McpCreate(r, u, x),
             UNCHANGED <<cache, excused>>
      PROVE  Tracked(t)'
  BY <1>0, <1>6, McpCreateTracked
<1>7. ASSUME NEW u \in User, NEW S \in SUBSET Ticket, CachedArchive(u, S) PROVE Tracked(t)'
  <2>1. Archive(u, S) /\ cache' \in Hidden(cache, S) /\ Overlaps
    BY <1>7 DEF CachedArchive
  <2>2. Tracked(t)
    BY <1>0, <2>1, OverlapsExcuse
  <2> QED
    BY <1>0, <2>1, <2>2, ArchiveTracked
<1>8. ASSUME NEW x \in Ticket,
             CachedCreate(x) \/ CreateWithoutRow(x) \/ CachedDelete(x) \/ DeleteKeepsRow(x)
      PROVE  Tracked(t)'
  BY <1>0, <1>8, TicketTracked
<1>9. CASE CachedRestart
  <2>1. req' = [r \in Request |-> IdleReq] /\ InitBoards(cache', excused') /\ UNCHANGED db
    BY <1>9 DEF CachedRestart, Restart
  <2>2. cache'[t] = Shown(db'[t])
    BY <2>1, InitBoardsShow
  <2>3. \A p \in Request : req'[p].pc = "idle" /\ req'[p].ticket # t /\ req'[p].other # t
    BY <2>1, NamesAssumption DEF IdleReq
  <2>4. ~Owed(t)' /\ \A p \in Request : Abreast(p, t)'
    BY <2>3 DEF Owed, Owes, Abreast
  <2>5. Settled(t)' /\ (Exists(t)' => cache'[t] \subseteq PlaceOf(db'[t]))
    BY <2>2 DEF Settled, Shown, Exists
  <2>6. Exists(t)' => \A p \in cache'[t] : p.board = db'[t].board
    BY <2>5, Places DEF Exists
  <2> QED
    BY <2>4, <2>5, <2>6 DEF Tracked
<1> QED
  BY <1>1, <1>2, <1>3, <1>4, <1>5, <1>6, <1>7, <1>8, <1>9 DEF CacheNext

THEOREM AlwaysCacheInv == CacheSpec => []CacheInv
<1>1. CacheInit => CacheInv
  BY InitBoardInv, InitBoardsShow, LoadedTracked DEF CacheInit, Init, CacheInv
<1> QED
  BY <1>1, NextCacheInv, PTL DEF CacheSpec

\* A board shows the row that the table holds, or nothing of a ticket that is
\* archived or gone, unless something happened to the ticket that the cache
\* does not cope with or a request has yet to sync it: for any number of
\* tickets, requests and boards, in any order, with SQLite and Postgres.
THEOREM BoardsShowTheTable == CacheSpec => []CoherentOrExcused
<1>1. ASSUME NEW t \in Ticket, Settled(t) PROVE Coherent(t)
  <2>1. CASE Exists(t)
    <3>1. db[t] \in Row /\ cache[t] \subseteq PlaceOf(db[t])
      BY <1>1, <2>1 DEF Settled, Exists
    <3>2. \A p \in cache[t] : p.row = db[t]
      BY <3>1, Places
    <3>3. CASE db[t].archived
      BY <3>2, <3>3 DEF Coherent, Visible, Shown
    <3>4. CASE ~db[t].archived
      BY <1>1, <2>1, <3>1, <3>2, <3>4 DEF Settled, Coherent, Visible, Shown
    <3> QED
      BY <3>3, <3>4
  <2>2. CASE ~Exists(t)
    BY <1>1, <2>2 DEF Settled, Coherent, Visible, Shown, Exists
  <2> QED
    BY <2>1, <2>2
<1>2. CacheInv => CoherentOrExcused
  BY <1>1 DEF CacheInv, Tracked, Owed, CoherentOrExcused
<1> QED
  BY <1>2, AlwaysCacheInv, PTL
-----------------------------------------------------------------------------
=============================================================================
