CONSTANTS
    swapper = swapper
    t1 = t1
    t2 = t2
    c1 = c1
    c2 = c2
    None = None
    Tids <- MCTids
    Swapper = swapper
    Cpus <- MCCpus
    Confs <- MCConfs
    MaxTs = 3
SPECIFICATION CputopSpec
INVARIANTS UsageWithinPeriod TidUsageIsExact CpuUsageIsBusyPlusHead
CHECK_DEADLOCK FALSE
SYMMETRY Symmetry
