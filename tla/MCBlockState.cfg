CONSTANTS
    lv = lv
    part = part
    disk = disk
    None = None
    Devs <- MCDevs
    Sectors <- MCSectors
    Layout <- Linear
    Traces <- MCTraces
    MaxSize = 2
SPECIFICATION BlockSpec
INVARIANTS RequestsAreDistinct ReportIsExact RemapsAreLive
CHECK_DEADLOCK FALSE
