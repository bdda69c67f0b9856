SPECIFICATION Spec
CONSTANTS
    Name = {n1, n2}
    Role = {"HUMAN_ADMIN", "NORMAL_AI"}
    Slot = {s1, s2}
    s1 = s1
    Ops <- MCOps
    ToolOps <- MCToolOps
    Enforced = TRUE
    Validity = 1
    Grace = 1
    MaxId = 2
    MaxDay = 2
    MaxJwt = 1
    None = None
CONSTRAINT OnePassword
SYMMETRY Symmetry
INVARIANTS TypeOK TokensHaveOwners StaleRoleBound UsersHaveTokens
PROPERTIES TokensLast AdminsActed
