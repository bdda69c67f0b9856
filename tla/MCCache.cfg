SPECIFICATION FairCacheSpec
CONSTANTS
    root = root
    r1 = r1
    t1 = t1
    Ticket = {t1, t2}
    User = {root}
    Request = {r1, r2}
    Comment = {r1, r2}
    Board = {b1}
    BoardColumn <- MCBoardColumn
    Role <- MCRole
    Isolation = "snapshot"
    Ops = {"claim", "edit", "archive", "unarchive", "create", "mcp_create", "create_lost", "delete_lost", "delete"}
    Serves <- MCSplit
    TargetStatus = {"DONE"}
    NewColumn = {"todo-0"}
    NoUser = NoUser
    NoTicket = NoTicket
    NoRequest = NoRequest
    NoRow = NoRow
    Unused = Unused
    Deleted = Deleted
INVARIANTS CacheTypeOK 
PROPERTY Answered
