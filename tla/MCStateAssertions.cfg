SPECIFICATION Safety
CONSTANTS
    Clients = {c1, c2, c3}
    Assertions = {a1, a2, a3}
    NoAssertion = NoAssertion
SYMMETRY MCSymmetry
INVARIANTS TypeOK AnnouncedIsFront VacatedWithSession SubscribersAgree
PROPERTIES CrossedOnlyInLeave ImplementsStateLock
CHECK_DEADLOCK FALSE
