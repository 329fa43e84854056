SPECIFICATION FairSpec
CONSTANTS
    Flusher = flusher
    Handlers = {h1, h2}
    MaxUpdates = 3
INVARIANTS TypeOK NothingForgotten
PROPERTIES DatabaseNeverReverts EventuallySaved
CHECK_DEADLOCK FALSE
