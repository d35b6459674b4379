CONSTANTS
    Subs = {s1, s2}
    Threads = {io, client}
    Owner = owner
    Payloads = {settled, canceled}
    MaxSerial = 3
SPECIFICATION Safety
SYMMETRY Symmetry
INVARIANTS TypeOK NoUnseenItemDropped NothingKeptForNobody
PROPERTIES GarbageReleased ImplementsChannel
CHECK_DEADLOCK FALSE
