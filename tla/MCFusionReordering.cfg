CONSTANTS
    MinTotalImuSamples = 2
    MinWindowImuSamples = 1
    TimingReasons <- MCTimingReasons
    CoverageReasons <- MCCoverageReasons
    TransformResults <- MCTransformResults
SPECIFICATION Spec
INVARIANT ReorderingBlocksFusion
