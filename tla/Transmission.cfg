SPECIFICATION Spec
CONSTANTS
    Handlers = {h1, h2}
    Sources = {me}
    Station = me
    Destinations = {peer}
    Bodies = {hi}
    Markers = {m1}
    NoMarker = NoMarker
    Times = {1}
    SendCacheTTL = 2
    TTL = 5
    BusCap = 2
    MaxHeard = 3
INVARIANTS TypeOK VerdictsNotContradicted DeliveriesWereHeard ErrorLeavesNothingPending AcksCountDeliveries
PROPERTIES AcceptedGetsVerdict
CHECK_DEADLOCK FALSE
