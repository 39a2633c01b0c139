\* Workers that come, work, refuse and leave.
SPECIFICATION Spec
CONSTANTS
    w1 = w1  w2 = w2
    Worker = {w1, w2}
    MaxPings = 1
    MaxOrders = 2
SYMMETRY WorkerSymmetry
INVARIANTS AnnouncedInOrder 
CHECK_DEADLOCK FALSE
