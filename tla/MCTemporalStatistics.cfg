CONSTANTS
    ShortWindow = 1
    MediumWindow = 2
    MaxRecent = 1
    Reasons <- MCReasons
    NoReason = NoReason
    ClockStamps <- MCClockStamps
    Observations <- MCObservations
    NoCoverage = NoCoverage
    MaxSamples = 3
    MaxDecisions = 3
SPECIFICATION StatisticsSpec
INVARIANT RecordsMatchDecisions
INVARIANT WindowsAreComplete
CHECK_DEADLOCK FALSE
