CONSTANTS
    None = None
    NoDate = NoDate
    NsPerUs = 2
    NsPerSec = 2
    SecPerDay = 4
    Timezone = 1
    Summer <- MCSummer
    Saving = 1
    Runs <- MCRuns
    MaxTicks = 3
    EventsPerUpdate = 1
SPECIFICATION CommandSpec
INVARIANTS ErrorsFail DatesRoundTrip ProgressAdvances ResultsMatchTicks
           HistogramsAreComplete TopsAreTop GroupingsAgree TicksDoNotFail
CHECK_DEADLOCK FALSE
