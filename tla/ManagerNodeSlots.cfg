\* Two tasks compete for the single slots of two workers that come, go and come back; other managers report failures.
SPECIFICATION NodeSpec
CONSTANTS
    j1 = j1  t1 = t1  t2 = t2  w1 = w1  w2 = w2  a1 = a1  a2 = a2
    Nobody = Nobody  NoTask = NoTask
    Task <- TwoTasks
    Job <- OneJob
    JobOf <- JobOfTwo
    Redundancy <- R1
    MaxFailures <- F1
    ManagerLimit <- Limit9
    Worker = {w1, w2}
    Address = {a1, a2}
    Me = a1
    CpuCount = 1
    ChannelSize = 2
    MaxTicks = 1
    MaxJoins = 3
    ForeignFailure = {"Runtime"}
    MaxExternal = 4
    ChainMayFail = FALSE
    MaxNb = 2
    MaxOffers = 2
    MaxProposals = 6
    MaxRestarts = 0
INVARIANTS NodeTypeOK SlotsFollowReplicas NoReplicaForgotten OnlyEmptyResultKills
SYMMETRY Both
CHECK_DEADLOCK FALSE
