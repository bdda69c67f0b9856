SPECIFICATION Spec
CONSTANTS
    Ticket = {t1, t2, t3}
    Request = {r1, r2}
    NoTicket = NoTicket
    Ops = {"remove", "create", "delete"}
    Enforced = TRUE
SYMMETRY Symmetry
INVARIANTS TypeOK LinksHaveTickets
PROPERTIES RefusalsAreFounded NoneOverlooked
