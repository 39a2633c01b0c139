\* A worker and a manager: lost messages, cut connections, processes that end.
SPECIFICATION Spec
CONSTANTS
    w1 = w1  w2 = w2  m1 = m1  m2 = m2
    Worker = {w1}
    Manager = {m1}
    AuthorizedIds = {m1}
    AuthorizedAddrs = {}
    Bootstrap <- FirstManager
    Announced = {}
    Interval = 0
    Timeout = 2
    MaxOrders = 2
    MaxLost = 1
    MaxCuts = 1
    MaxStops = 1
INVARIANTS TypeOK OnlyOvertakenBlocks
PROPERTIES RelationshipOnce HalfRelationshipEnds PendingEnds
CHECK_DEADLOCK FALSE
