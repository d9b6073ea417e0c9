CONSTANTS
    p1 = p1
    p2 = p2
    c1 = c1
    a = a
    None = None
    Unknown = Unknown
    Tids <- MCTids
    Cpus <- MCCpus
    Files <- MCFiles
    MaxFd = 0
    Settings <- MCSettings
SPECIFICATION AnalysisSpec
INVARIANTS
    BytesAreConserved
    OpenFdsHaveStats
SYMMETRY Symmetry
CHECK_DEADLOCK FALSE
