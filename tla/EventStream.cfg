SPECIFICATION Spec
CONSTANTS
    Clients = {c1}
    BusCap = 1
    MaxPackets = 2
    MaxStreams = 2
INVARIANTS TypeOK NoGap UnreadNotHidden
PROPERTIES EverythingListed
CHECK_DEADLOCK FALSE
