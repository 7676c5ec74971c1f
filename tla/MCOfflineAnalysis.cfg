CONSTANTS
    Messages <- MCMessages
    MaxMessages = 5
    MinEdgeTolerance = 1
    MaxInternalGap = 2
    FallbackScanDuration = 2
    MinMeasuredDuration = 1
    MaxMeasuredDuration = 4
    OutlierDuration = 4
    JitterThreshold = 1
    FaultPercent = 50
    NoStamp = NoStamp
    NoScan = NoScan
    NoField = NoField
    NoReport = NoReport
    Old = Old
    Cut = Cut
SPECIFICATION AnalysisSpec
INVARIANT RecommendedScansAreDeskewable
INVARIANT OkScansAreDeskewable
INVARIANT WindowsAreTheNodes
CHECK_DEADLOCK FALSE
