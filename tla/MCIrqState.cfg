CONSTANTS
    c1 = c1
    i1 = i1
    i2 = i2
    v1 = v1
    v2 = v2
    None = None
    Cpus <- OneCpu
    Irqs <- TwoIrqs
    Vecs <- TwoVecs
    Confs <- MCConfs
    MaxNest = 2
    MaxRaised = 3
    MaxTs = 3
SPECIFICATION IrqSpec
INVARIANTS RaisesAreQueued HandledIsExact
CHECK_DEADLOCK FALSE
SYMMETRY Symmetry
