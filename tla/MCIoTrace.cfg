CONSTANTS
    p1 = p1
    p2 = p2
    c1 = c1
    c2 = c2
    a = a
    b = b
    None = None
    Unknown = Unknown
    Tids <- MCTids
    Cpus <- MCCpus
    Files <- MCFiles
    MaxFd = 1
    Confs <- MCConfs
SPECIFICATION TraceSpec
INVARIANTS
    CallsMatch
    NamesAreRight
CHECK_DEADLOCK FALSE
