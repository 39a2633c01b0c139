\* A worker that two managers accept.
SPECIFICATION Spec
CONSTANTS
    w1 = w1  w2 = w2  m1 = m1  m2 = m2
    Worker = {w1}
    Manager = {m1, m2}
    AuthorizedIds = {m1}
    AuthorizedAddrs = {m2}
    Bootstrap <- FirstManager
    Announced <- SecondManager
    Interval = 0
    Timeout = 2
    MaxOrders = 0
    MaxLost = 0
    MaxCuts = 0
    MaxStops = 0
INVARIANTS ManagerIsTold
CHECK_DEADLOCK FALSE
