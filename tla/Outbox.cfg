SPECIFICATION FairSpec
CONSTANTS
    Sources = {me}
    Destinations = {peer}
    Bodies = {hi}
    Markers = {m1}
    NoMarker = NoMarker
    Times = {1, 2}
    TTL = 5
    MaxSends = 3
INVARIANTS TypeOK IndexExact TimerGuards
PROPERTIES Implements EveryMessageResolved
