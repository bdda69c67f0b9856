SPECIFICATION Spec
CONSTANTS
    ada = ada
    bob = bob
    lead = lead
    root = root
    Ticket = {t1}
    User = {ada, root}
    Request = {r1, r2, r3}
    Comment = {r1, r2, r3}
    Board = {b1, b2}
    Role <- MCRole
    Isolation = "readCommitted"
    Ops = {"edit", "assign", "comment", "uncomment", "mcp_create", "archive", "unarchive", "create", "delete"}
    Serves <- MCServes
    TargetStatus = {"REVIEW", "DONE"}
    NewColumn = {"todo-0", "review-0"}
    NoUser = NoUser
    NoTicket = NoTicket
    NoRequest = NoRequest
    NoRow = NoRow
    Unused = Unused
    Deleted = Deleted
SYMMETRY Symmetry
PROPERTIES UnnamedFieldsKept CommentsKept AtomicSpec
