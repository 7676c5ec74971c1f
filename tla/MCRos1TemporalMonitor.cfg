CONSTANTS
    ImuGapThreshold = 2
    LidarGapThreshold = 3
    SuspiciousJitter = 0
    HighJitter = 1
    Retention = 4
    MaxMissingPrefix = 1
    MaxMissingSuffix = 1
    MaxInternalGap = 2
    StampPolicy = "scan_end"
    PreferMeasuredPeriod = TRUE
    FallbackScanDuration = 2
    MinMeasuredDuration = 1
    MaxMeasuredDuration = 4
    ImuStamps <- MCImuStamps
    Clouds <- MCClouds
    MaxImu = 4
    MaxClouds = 2
    NoStamp = NoStamp
    NoScan = NoScan
    NoField = NoField
    NoMessage = NoMessage
SPECIFICATION Spec
INVARIANT AllowedScanIsCovered
PROPERTY TimingFaultsArePublishedOnce
