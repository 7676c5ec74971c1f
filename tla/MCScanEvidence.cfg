CONSTANTS
    Retention = 4
    StampPolicy = "scan_middle"
    PreferMeasuredPeriod = TRUE
    FallbackScanDuration = 3
    MinMeasuredDuration = 0
    MaxMeasuredDuration = 4
    NoStamp = NoStamp
    MaxMissingPrefix = 1
    MaxMissingSuffix = 1
    MaxInternalGap = 2
    Period = 2
    NumScans = 4
    Stamps <- MCStamps
    MaxSamples = 4
SPECIFICATION SensorSpec
INVARIANT BufferIsRecentAccepted
INVARIANT WindowCoversScan
INVARIANT OkScanIsInterpolable
PROPERTY CoveredScanStaysCovered
