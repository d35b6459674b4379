SPECIFICATION Spec
CONSTANTS
    Clients = {c1, c2}
    Assertions = {a1, a2}
    NoAssertion = NoAssertion
PROPERTIES EventuallyAnnounced
CHECK_DEADLOCK FALSE
