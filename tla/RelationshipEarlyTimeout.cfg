\* A ping and the time its answer has.
SPECIFICATION Spec
CONSTANTS
    w1 = w1  w2 = w2  m1 = m1  m2 = m2
    Worker = {w1}
    Manager = {m1}
    AuthorizedIds = {m1}
    AuthorizedAddrs = {}
    Bootstrap <- FirstManager
    Announced = {}
    Interval = 0
    Timeout = 2
    MaxOrders = 0
    MaxLost = 0
    MaxCuts = 0
    MaxStops = 0

PROPERTIES PingGetsItsTime
CHECK_DEADLOCK FALSE
