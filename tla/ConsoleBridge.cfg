SPECIFICATION Spec
CONSTANTS
    Senders = {t1, t2}
    ReconnectInitial = 1
    ReconnectMax = 3
    MaxSessions = 2
INVARIANTS TypeOK TextsAuthenticated NothingLeftBehind
PROPERTIES BackoffResetsWhenConnected FailedSessionReplaced ShutdownCompletes
CHECK_DEADLOCK FALSE
