CONSTANTS
    swapper = swapper
    t1 = t1
    t2 = t2
    c1 = c1
    c2 = c2
    None = None
    Tids <- MCTids
    Swapper = swapper
    Cpus <- MCCpus
    Prios <- OnePrio
    Versions <- MCVersions
    Confs <- MCConfs
    MaxTs = 1
SPECIFICATION LatencySpec
INVARIANTS LookupsSucceed LatenciesAreDisjoint
PROPERTIES FirstWakeupStays LatencyExcludesRunning
CHECK_DEADLOCK FALSE
SYMMETRY Symmetry
