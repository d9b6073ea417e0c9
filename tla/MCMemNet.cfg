CONSTANTS
    None = None
    Tids = {1, 2}
    Kswapd = 2
    Cpus = {0, 1}
    Calls <- MCCalls
    WantedTids = {1, 2}
    WantedCpus = {0}
    MaxEvents = 6
SPECIFICATION MemSpec
INVARIANTS PagesAreAccounted CallsAreDisjoint
CHECK_DEADLOCK FALSE
