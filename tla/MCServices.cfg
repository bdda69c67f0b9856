SPECIFICATION Spec
CONSTANTS
    ada = ada
    bob = bob
    lead = lead
    root = root
    Ticket = {t1, t2}
    User = {ada, lead}
    Request = {r1, r2}
    Comment = {r1, r2}
    Board = {b1}
    Role <- MCRole
    Isolation = "snapshot"
    Ops = {"claim", "move", "release", "archive"}
    Serves <- MCServes
    TargetStatus = {"TODO", "DONE"}
    NewColumn = {"todo-0"}
    NoUser = NoUser
    NoTicket = NoTicket
    NoRequest = NoRequest
    NoRow = NoRow
    Unused = Unused
    Deleted = Deleted
SYMMETRY Symmetry
INVARIANTS TypeOK OneTicketInProgress AuditMatches
PROPERTIES CommitsOnCurrentRows PermittedAtCommit TerminalNeedsForce ArchivedIsNotMoved ServicesKeepTheRest ClaimSwaps AtomicSpec
