\* Redundancy 2, three workers, everything may go wrong once.
SPECIFICATION Spec
CONSTANTS
    j1 = j1  t1 = t1  t2 = t2  w1 = w1  w2 = w2  w3 = w3  a1 = a1  a2 = a2
    Nobody = Nobody  NoTask = NoTask
    Task <- OneTask
    Job <- OneJob
    JobOf <- JobOfOne
    Redundancy <- R2
    MaxFailures <- F1
    ManagerLimit <- Limit3
    Worker = {w1, w2, w3}
    Address = {a1, a2}
    ChainMayFail = TRUE
    MaxNb = 3
    MaxOffers = 2
    MaxProposals = 4
    MaxRestarts = 1
SYMMETRY Symmetry
INVARIANTS TypeOK ListsApplicable ReplicasOnDistinctWorkers FailureBudget OnlyForeseenPanics
    VerdictAgreement EveryoneCredited EventsMirrorSubstates
PROPERTIES VerdictIsFinal ImplementsLifecycle
CHECK_DEADLOCK FALSE
