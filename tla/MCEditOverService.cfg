SPECIFICATION Spec
CONSTANTS
    ada = ada
    bob = bob
    lead = lead
    root = root
    Ticket = {t1}
    User = {ada, bob, root}
    Request = {r1, r2}
    Comment = {r1, r2}
    Board = {b1}
    Role <- MCRole
    Isolation = "snapshot"
    Ops = {"edit", "move", "claim"}
    Serves <- MCServes
    TargetStatus = {"REVIEW", "DONE"}
    NewColumn = {"todo-0"}
    NoUser = NoUser
    NoTicket = NoTicket
    NoRequest = NoRequest
    NoRow = NoRow
    Unused = Unused
    Deleted = Deleted
SYMMETRY Symmetry
PROPERTY UnnamedFieldsKept
