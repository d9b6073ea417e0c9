CONSTANTS
    dRoot = dRoot
    dChild = dChild
    dAnon = dAnon
    nRoot = nRoot
    nChild = nChild
    Unnamed = Unnamed
    NoDef = NoDef
    NoEvent = NoEvent
    NoTs = NoTs
    Defs <- TreeDefs
    ParentDef <- TreeParent
    NameOf <- TreeNames
    Confs <- AllConfs
    MaxEvents = 4
    MaxOpen = 3
SPECIFICATION StatsSpec
INVARIANTS TickCountsItsInterval RefreshPeriodsTile InsideTimeRange DataMatchesPeriods
           EveryPeriodTicksOnce ListIsExact StatsMatchList ChildrenAreAttached
CHECK_DEADLOCK FALSE
