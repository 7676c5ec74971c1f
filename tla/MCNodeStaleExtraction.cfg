CONSTANTS
    Limits <- MCLimits
    Defaults <- MCDefaults
    IntModulus = 16
    GateMode = "drop_degraded"
    MinTotalImuSamples = 2
    MinWindowImuSamples = 1
    HasCheckedTopic = TRUE
    HoldbackEnabled = TRUE
    MaxPending = 2
    Tolerance = 0
    ImuGapThreshold = 2
    LidarGapThreshold = 3
    SuspiciousJitter = 0
    HighJitter = 1
    Retention = 6
    MaxMissingPrefix = 2
    MaxMissingSuffix = 2
    MaxInternalGap = 2
    StampPolicy = "scan_start"
    PreferMeasuredPeriod = TRUE
    FallbackScanDuration = 2
    MinMeasuredDuration = 1
    MaxMeasuredDuration = 4
    PointTimeConfig <- MCPointTimeConfig
    MaxTransformAge = 1
    MaxFutureTolerance = 0
    ImuStamps <- MCImuStamps
    Clouds <- MCClouds
    TransformAnswers <- MCTransforms
    MaxImu = 3
    MaxClouds = 2
    NoStamp = NoStamp
    NoScan = NoScan
    NoField = NoField
    NoEvent = NoEvent
SPECIFICATION Spec
INVARIANT ExtractionFailureIsCurrent
