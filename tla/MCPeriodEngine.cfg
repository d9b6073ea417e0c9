CONSTANTS
    dRoot = dRoot
    dChild = dChild
    dGrand = dGrand
    dOther = dOther
    kRoot = kRoot
    kChild = kChild
    kGrand = kGrand
    kCapt = kCapt
    kBad = kBad
    kOrder = kOrder
    dInf = dInf
    Infinity = Infinity
    MinusInfinity = MinusInfinity
    NaN = NaN
    dTwo = dTwo
    dOne = dOne
    x = x
    y = y
    NoDef = NoDef
    NoEvent = NoEvent
    NoName = NoName
    NoEvt = NoEvt
    NoValue = NoValue
    EventName = EventName
    Globs <- MCGlobs
    Exprs <- MCExprs
    Depth <- MCDepth
    Fields = {x, y}
    Defs <- MCDefs
    ParentDef <- MCParentDef
    SourceOf <- MCSourceOf
    EventsOf <- MCEventsOf
    MaxEvents = 3
    MaxOpen = 3
SPECIFICATION FairMatchSpec
INVARIANTS PeriodsNest AcceptedRaiseForValues ChildrenMatchTheirParent LegacyPeriodsPair
PROPERTIES ImplementsForest AllPeriodsEnd
CHECK_DEADLOCK FALSE
