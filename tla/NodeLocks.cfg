\* Every kind of node, channels that a few events fill.
SPECIFICATION Spec
CONSTANTS
    Run <- Runs
    ChannelSize = 1
    Redundancy = 2
    CpuCount = 1
    MaxEvents = 3
INVARIANTS TypeOK OnlyForeseenDeadlocks
PROPERTY SwarmResumes
CHECK_DEADLOCK FALSE
