SPECIFICATION Spec
CONSTANTS
    Senders = {t1}
    ReconnectInitial = 1
    ReconnectMax = 3
    MaxSessions = 2
INVARIANTS RecoveredMeansConnected
CHECK_DEADLOCK FALSE
