SPECIFICATION Safety
CONSTANTS
    Clients = {c1}
    Assertions = {a1}
    NoAssertion = NoAssertion
INVARIANTS VacatedIsAnnounced
CHECK_DEADLOCK FALSE
