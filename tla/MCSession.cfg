CONSTANTS
    MaxCalls = 2
    Lossy <- MCLossy
    Options <- MCOptions
    TopicType <- MCTopicType
    SummarizeThis <- MCSummarizeThis
SPECIFICATION SessionSpec
 
INVARIANT StartableSessionIsWhole
INVARIANT InitializedSessionIsUniform
INVARIANT SummaryFollowsItsLogs
PROPERTY SuccessMeansItsOwnSummary
PROPERTY LaunchedScriptEnds
PROPERTY ImplementsSessionRunner
CHECK_DEADLOCK FALSE
