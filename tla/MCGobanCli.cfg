SPECIFICATION MCSpec
CONSTANTS
    c1 = c1
    c2 = c2
    t1 = t1
    t3 = t3
    ada = ada
    lead = lead
    k1 = k1
    Ticket = {t1, t2, t3}
    User = {ada, lead}
    Comment = {}
    Board = {b1}
    Role <- MCRole
    TargetStatus = {"DONE", "REVIEW"}
    NewColumn = {"todo-0"}
    Cli = {c1, c2}
    UserOf <- MCUserOf
    Commands <- MCCommands
    Elsewhere = {t1}
    Key = {k1}
    MaxAttempts = 2
    KeyStored = TRUE
    MaxLate = 1
    NoUser = NoUser
    Unused = Unused
    Deleted = Deleted
    NoTicket = NoTicket
    NoStatus = NoStatus
    NoKey = NoKey
    NoCli = NoCli
    NoRequest = NoRequest
INVARIANTS TypeOK OneTicketPerKey
PROPERTIES RepeatsAreHarmless CommandsEnd
