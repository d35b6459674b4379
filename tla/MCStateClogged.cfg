SPECIFICATION Safety
CONSTANTS
    Clients = {c1, c2}
    Assertions = {a1, a2}
    NoAssertion = NoAssertion
INVARIANTS NothingClogsTheQueue
CHECK_DEADLOCK FALSE
