----------------------- MODULE MCTemporalMonitorNode -----------------------
(* TLC instances of TemporalMonitorNode: IMU messages every two ticks, some  *)
(* late, and clouds whose scan lasts two to four ticks.                      *)
EXTENDS TemporalMonitorNode, NodeParameters

\* The limits and defaults of the code, in ticks that fit the few messages.
MCLimits ==
    [period |-> 1, gapThreshold |-> 1, scanDuration |-> 2, measuredDuration |-> 1,
     retention |-> 2, summaryPeriod |-> 1,
     prefixPeriods |-> 2, suffixPeriods |-> 2, gapPeriods |-> 3]
MCDefaults ==
    [minTotal |-> 5, minWindow |-> 2, imuGap |-> 2, lidarGap |-> 3, summaryPeriod |-> 2,
     scanDuration |-> 2, minMeasured |-> 1, maxMeasured |-> 4, tolerance |-> 1,
     maxPending |-> 3, retention |-> 6, period |-> 1, maxTransformAge |-> 1,
     maxFutureTolerance |-> 0, qosDepth |-> 5,
     targetFrame |-> "odom", sourceFrame |-> "<cloud_frame>"]

\* A launch that holds clouds back before a protective gate, gives some values
\* below their limits and leaves the others out.
MCLaunch ==
    [lidar_gate_mode |-> "drop_degraded", checked_lidar_topic |-> "/checked",
     gate_min_total_imu_samples_before_forward |-> 2,
     gate_min_window_imu_samples_before_forward |-> 1,
     lidar_scan_duration_ms |-> 1, lidar_stamp_policy |-> "scan_start",
     lidar_min_measured_scan_duration_ms |-> 0,
     lidar_holdback_enabled |-> TRUE, lidar_holdback_tolerance_ms |-> -1,
     lidar_holdback_max_pending |-> 2, expected_imu_period_ms |-> 0,
     max_internal_gap_ms |-> 2, lidar_point_time_mode |-> "first",
     tf_monitoring_enabled |-> TRUE]

\* The constants of the instance are what this launch results in.
ASSUME LaunchAssumption ==
    LET loaded == LoadTemporalMonitorNodeParameters(MCLaunch)
    IN  /\ loaded.gate = [mode |-> GateMode, minTotal |-> MinTotalImuSamples,
                          minWindow |-> MinWindowImuSamples,
                          hasCheckedTopic |-> HasCheckedTopic]
        /\ loaded.holdback = [enabled |-> HoldbackEnabled, tolerance |-> Tolerance,
                              maxPending |-> MaxPending]
        /\ loaded.gaps = [imu |-> ImuGapThreshold, lidar |-> LidarGapThreshold]
        /\ loaded.coverage = [retention |-> Retention, maxPrefix |-> MaxMissingPrefix,
                              maxSuffix |-> MaxMissingSuffix, maxGap |-> MaxInternalGap]
        /\ loaded.scanWindow = [fallback |-> FallbackScanDuration,
                                minMeasured |-> MinMeasuredDuration,
                                maxMeasured |-> MaxMeasuredDuration,
                                preferMeasured |-> PreferMeasuredPeriod,
                                stampPolicy |-> StampPolicy]
        /\ loaded.pointTime = PointTimeConfig
        /\ loaded.transforms.enabled
        /\ loaded.transforms.maxAge = MaxTransformAge
        /\ loaded.transforms.maxFuture = MaxFutureTolerance
        /\ \A answers \in TransformAnswers :
              DOMAIN answers = DOMAIN loaded.transforms.checks

MCPointTimeConfig == [mode |-> "auto", field |-> "",
                      interpretation |-> "auto", unit |-> "auto"]
MCImuStamps == {0, 2, 4, 6}

Offsets == [name |-> "t", datatype |-> "UINT32", offset |-> 12]
Unsafe == [name |-> "time", datatype |-> "FLOAT32", offset |-> 12]
Stamps == [name |-> "timestamp", datatype |-> "FLOAT64", offset |-> 16]
Cloud(header, fields, values, scan) ==
    [header |-> header, fields |-> fields, values |-> values, scan |-> scan]
Span(start, end) == [start |-> start, end |-> end]

\* Clouds without point times, with a field nothing can be made of, with
\* offsets that can be read, with absolute times that can be read, and with
\* offsets that cannot.
MCClouds ==
    {Cloud(1, <<>>, <<>>, Span(1, 3)),
     Cloud(1, <<Unsafe>>, [o \in {12} |-> {1, 3}], Span(1, 3)),
     Cloud(1, <<Offsets>>, [o \in {12} |-> {0, 2}], Span(1, 3)),
     Cloud(2, <<Stamps>>, [o \in {16} |-> {2, 6}], Span(2, 6)),
     Cloud(2, <<Offsets>>, [o \in {12} |-> {}], Span(2, 4))}

MCTransforms == {<<[kind |-> "found", stamp |-> 1]>>, <<[kind |-> "extrapolation"]>>}
=============================================================================
