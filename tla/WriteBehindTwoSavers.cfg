SPECIFICATION Spec
CONSTANTS
    Flusher = flusher
    Handlers = {h1, h2}
    MaxUpdates = 2
INVARIANTS QuietMeansPersisted
CHECK_DEADLOCK FALSE
