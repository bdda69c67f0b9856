---------------------------- MODULE BoardCache ----------------------------
(***************************************************************************)
(* The boards the server keeps in memory (handlers/boards.go: boardStates) *)
(* beside the table of TicketService.  Board requests are answered from    *)
(* this cache alone.  Edit, archive, create and delete handlers change it  *)
(* while they hold mu.  Claim, move and release change it after their      *)
(* transaction, when they get mu, from the row they have in memory; so do  *)
(* the MCP tools.  Unarchive does not change it.                           *)
(***************************************************************************)
EXTENDS TicketService

CONSTANT BoardColumn   \* the columns configured for each board

ASSUME BoardColumnAssumption == BoardColumn \in [Board -> SUBSET Column]

VARIABLES
    cache,   \* per ticket, where boardStates holds it and with what row
    excused  \* history: tickets that something has happened to which the cache
             \* does not cope with

cacheVars == <<vars, cache, excused>>

\* Column.Tickets holds a pointer to a ticket: a place on a board and a row.
Placement == [board: Board, column: Column, row: Row]

\* The place of a row: none if its board has no such column.
PlaceOf(row) ==
    IF row.column \in BoardColumn[row.board]
    THEN {[board |-> row.board, column |-> row.column, row |-> row]}
    ELSE {}

\* handlers/boards.go: what loadTicketsFromDB makes of an entry of the table.
Shown(e) == IF e \in Row /\ ~e.archived THEN PlaceOf(e) ELSE {}

Loaded == [t \in Ticket |-> Shown(db[t])]

\* syncTicketInMemory: clears the columns of the row's own board only, then
\* appends the row.
\* Mutant: the old places are kept.
SyncedMutant(c, t, row) == [c EXCEPT ![t] = @ \cup PlaceOf(row)]
Synced(c, t, row) == [c EXCEPT ![t] = {p \in @ : p.board # row.board} \cup PlaceOf(row)]

\* replaceTicketInCache: the first place found gets the new row, in the same
\* column; the boards are walked in no particular order.
Replaced(c, t, row) ==
    IF c[t] = {} THEN {c}
    ELSE {[c EXCEPT ![t] = (@ \ {p}) \cup {[p EXCEPT !.row = row]}] : p \in c[t]}

\* syncArchivedTicketInMemory: the first place found is removed.
\* Mutant: the flag is set and the place stays.
HiddenMutant(c, S) == {c}
Hidden(c, S) ==
    {d \in [Ticket -> SUBSET UNION {c[t] : t \in Ticket}] :
        \A t \in Ticket :
            IF t \in S /\ c[t] # {} THEN \E p \in c[t] : d[t] = c[t] \ {p} ELSE d[t] = c[t]}

\* Slot r has a row of t in memory that it has yet to put on the board.
Owes(r, t) ==
    /\ req[r].pc \in {"reply", "reread"}
    /\ t \in {req[r].ticket, req[r].other}

\* The excuse of every step that has no excuse of its own: a request has yet to
\* sync a ticket, and meanwhile another changes the row or it is deleted.
Overlaps ==
    excused' = excused \cup
        {t \in Ticket : \E r \in Request :
            /\ Owes(r, t)'
            /\ \/ Owes(r, t) /\ db'[t] # db[t]
               \/ ~Exists(t)'}

Excuses(t) == excused' = excused \cup {t}
-----------------------------------------------------------------------------
(* The steps of TicketService, with what they do to the cache *)

\* HandleClaim, HandleMoveV1, HandleRelease: mu is locked, the row of the
\* service is synced, a released ticket is read again and synced as well,
\* unless GetTicket fails: then it stays where it was.
CachedReply(r) ==
    /\ MuFree
    /\ Reply(r)
    /\ LET c == Synced(cache, req[r].ticket, req[r].new)
           o == req[r].other
           released == o # NoTicket /\ Exists(o)
       IN  \/ /\ cache' = IF released THEN Synced(c, o, db[o]) ELSE c
              /\ Overlaps
           \/ /\ released
              /\ cache' = c
              /\ Excuses(o)

\* mcp/notify.go: announce, through SyncTicketInMemoryLocked.
CachedMcpReply(r) ==
    /\ MuFree
    /\ McpReply(r)
    /\ cache' = Synced(cache, req[r].ticket, req[r].new)
    /\ Overlaps

\* mcp/tools.go: claimTicket syncs the released ticket only if it can read it.
CachedReread(r) ==
    /\ McpReread(r)
    /\ IF Idle(r)' /\ Exists(req[r].ticket) THEN Excuses(req[r].ticket) ELSE Overlaps
    /\ UNCHANGED cache

CachedEditWrite(r) ==
    /\ EditWrite(r)
    /\ IF req[r].op \in EditOps
       THEN cache' \in Replaced(cache, req[r].ticket, req[r].new)
       ELSE UNCHANGED cache
    /\ Overlaps

CachedArchive(u, S) ==
    /\ Archive(u, S)
    /\ cache' \in Hidden(cache, S)
    /\ Overlaps

\* The ticket is back in the table, and the board does not show it.
CachedUnarchive(r, u, t) ==
    /\ Unarchive(r, u, t)
    /\ Excuses(t)
    /\ UNCHANGED cache

\* The ticket is appended to its column before it is stored.
CachedCreate(t) ==
    /\ Create(t)
    /\ cache' = [cache EXCEPT ![t] = @ \cup PlaceOf(db'[t])]
    /\ Overlaps

\* The store call fails, or it finds a ticket with the same idempotency key
\* and returns that one: the new id has a place on the board and no row.
CreateWithoutRow(t) ==
    /\ "create_lost" \in Ops
    /\ MuFree
    /\ db[t] = Unused
    /\ \E row \in FreshRows : cache' = [cache EXCEPT ![t] = @ \cup PlaceOf(row)]
    /\ db' = [db EXCEPT ![t] = Deleted]
    /\ Excuses(t)
    /\ UNCHANGED <<audit, req, stale, mu>>

\* Every place of the ticket is removed before the row is deleted.
CachedDelete(t) ==
    /\ Delete(t)
    /\ cache' = [cache EXCEPT ![t] = {}]
    /\ Overlaps

\* The store call fails.
DeleteKeepsRow(t) ==
    /\ "delete_lost" \in Ops
    /\ MuFree
    /\ Exists(t)
    /\ cache' = [cache EXCEPT ![t] = {}]
    /\ Excuses(t)
    /\ UNCHANGED vars

\* InitBoards: the boards are empty at first.  loadTicketsFromDB puts the
\* tickets on them, but for rows it cannot scan, and none if the query fails:
\* it says so in the log, and the server goes on.
InitBoards(c, x) ==
    \E S \in SUBSET Ticket :
        /\ c = [t \in Ticket |-> IF t \in S THEN Loaded[t] ELSE {}]
        /\ x = {t \in Ticket \ S : Loaded[t] # {}}

CachedRestart ==
    /\ Restart
    /\ InitBoards(cache', excused')

CacheInit ==
    /\ Init
    /\ InitBoards(cache, excused)

\* The part of a request that runs without waiting for mu.
StoreStep(r) ==
    \/ CachedEditWrite(r)
    \/ CachedReread(r)
    \/ /\ ClaimList(r) \/ TxCommit(r) \/ UnarchivePlace(r) \/ Fail(r)
       /\ Overlaps
       /\ UNCHANGED cache

\* The part that locks mu again.
Sync(r) == CachedReply(r) \/ CachedMcpReply(r)

CacheNext ==
    \/ \E r \in Request :
         \/ StoreStep(r)
         \/ Sync(r)
         \/ (ServiceRead(r) \/ HandlerRead(r)) /\ UNCHANGED <<cache, excused>>
         \/ \E u \in User, t \in Ticket :
              \/ CachedUnarchive(r, u, t)
              \/ McpCreate(r, u, t) /\ UNCHANGED <<cache, excused>>
    \/ \E u \in User, S \in SUBSET Ticket : CachedArchive(u, S)
    \/ \E t \in Ticket :
         \/ CachedCreate(t)
         \/ CreateWithoutRow(t)
         \/ CachedDelete(t)
         \/ DeleteKeepsRow(t)
    \/ CachedRestart

CacheSpec == CacheInit /\ [][CacheNext]_cacheVars

\* A store call returns, with a result or an error (SQLite's busy timeout,
\* the driver's connection errors).  A goroutine that waits for mu gets it
\* although others keep locking it: sync.RWMutex hands the lock over to a
\* writer that has waited too long.
FairCacheSpec ==
    /\ CacheSpec
    /\ \A r \in Request : WF_cacheVars(StoreStep(r)) /\ SF_cacheVars(Sync(r))
-----------------------------------------------------------------------------
(* Properties *)

\* A board holds a ticket at most once, in one of its own columns.
CacheTypeOK ==
    /\ cache \in [Ticket -> SUBSET Placement]
    /\ excused \subseteq Ticket
    /\ \A t \in Ticket : \A p \in cache[t] :
         /\ p.column \in BoardColumn[p.board]
         /\ \A q \in cache[t] : p.board = q.board => p = q

\* handleListBoards, handleGetBoard: a ticket that is in a column with its
\* archived flag set (a claim of an archived ticket puts it there) is left out
\* of the compact boards and marked in the full one.
Visible(t) == {p \in cache[t] : ~p.row.archived}

Coherent(t) == Visible(t) = Shown(db[t])

\* The boards show what the table holds ("updates the in-memory boardStates
\* cache to match database state", boards.go:88), except for tickets that a
\* request in flight has yet to sync and for these, until the next start:
\* another request changed the ticket before its sync or deleted it before its
\* write; it was unarchived; the store failed after the board was changed, or
\* could not give the released ticket of a claim, or the ticket at the start.
\* Nothing else that requests do, in any order, leaves a trace.
CoherentOrExcused ==
    \A t \in Ticket : Coherent(t) \/ t \in excused \/ \E r \in Request : Owes(r, t)

\* Every request is answered, although its sync competes for mu with every
\* other handler.
Answered == \A r \in Request : ~Idle(r) ~> Idle(r)
=============================================================================
