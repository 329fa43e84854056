SPECIFICATION Spec
CONSTANTS
    Clients = {c1}
    BusCap = 1
    MaxPackets = 1
    MaxStreams = 1
INVARIANTS UnreadExcludesEchoes
CHECK_DEADLOCK FALSE
