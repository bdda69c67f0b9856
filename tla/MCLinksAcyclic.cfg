SPECIFICATION Spec
CONSTANTS
    Ticket = {t1, t2, t3}
    Request = {r1}
    NoTicket = NoTicket
    Ops = {}
    Enforced = TRUE
SYMMETRY Symmetry
INVARIANT Acyclic
