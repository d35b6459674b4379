CONSTANTS
    Subs = {s1, s2}
    Threads = {io, client}
    Owner = owner
    Payloads = {settled}
    MaxSerial = 2
SPECIFICATION Spec
PROPERTIES EventuallyHandedOver EventuallyReclaimed
CHECK_DEADLOCK FALSE
