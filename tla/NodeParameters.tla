--------------------------- MODULE NodeParameters ---------------------------
(***************************************************************************)
(* apps/ros2/temporal_monitor_node_parameters.cc and the constructor of    *)
(* the node: the configuration a launch results in.  `given' maps the      *)
(* names of the parameters it sets to their values; the middleware has     *)
(* refused values of a wrong type.  Texts outside a known set and numbers  *)
(* below a limit are not refused, they are replaced without a word.        *)
(* Durations are whole ticks, in the code milliseconds or nanoseconds.     *)
(***************************************************************************)
EXTENDS Integers, Sequences

CONSTANTS
    Limits, Defaults,   \* TemporalMonitorRuntimeLimits and -Defaults
    IntModulus          \* the number of values of an int

ASSUME ParametersAssumption ==
    /\ {Limits.period, Limits.gapThreshold, Limits.scanDuration} \subseteq Nat \ {0}
    /\ {Limits.measuredDuration, Limits.retention, Limits.summaryPeriod} \subseteq Nat
    /\ {Limits.prefixPeriods, Limits.suffixPeriods, Limits.gapPeriods} \subseteq Nat \ {0}
    /\ {Defaults.minTotal, Defaults.minWindow, Defaults.imuGap, Defaults.lidarGap,
        Defaults.summaryPeriod, Defaults.scanDuration,
        Defaults.minMeasured, Defaults.maxMeasured, Defaults.tolerance,
        Defaults.retention, Defaults.period, Defaults.maxTransformAge,
        Defaults.maxFutureTolerance, Defaults.maxPending, Defaults.qosDepth} \subseteq Nat
    /\ Defaults.targetFrame \in STRING /\ Defaults.sourceFrame \in STRING
    /\ IntModulus \in Nat \ {0}

AtLeast(value, limit) == IF value < limit THEN limit ELSE value
OneOf(value, known, fallback) == IF value \in known THEN value ELSE fallback

\* A conversion to int keeps the low bits.
AsInt(n) ==
    LET low == n % IntModulus
    IN  IF low < IntModulus \div 2 THEN low ELSE low - IntModulus

\* declare_parameter
Declared(given, name, default) ==
    IF name \in DOMAIN given THEN given[name] ELSE default

Number(given, name, default, limit) == AtLeast(Declared(given, name, default), limit)

RuntimeProfile(given) ==
    OneOf(Declared(given, "runtime_profile", "debug_report"),
          {"minimal", "diagnostic", "debug_report"}, "debug_report")

\* The text of the mode goes to ParseLidarGateMode as it is.
Gate(given) ==
    [mode            |-> Declared(given, "lidar_gate_mode", "observe"),
     minTotal        |-> Number(given, "gate_min_total_imu_samples_before_forward",
                                Defaults.minTotal, 0),
     minWindow       |-> Number(given, "gate_min_window_imu_samples_before_forward",
                                Defaults.minWindow, 0),
     hasCheckedTopic |-> Declared(given, "checked_lidar_topic", "") # ""]

GapThresholds(given) ==
    [imu   |-> Number(given, "imu_gap_threshold_ms", Defaults.imuGap, Limits.gapThreshold),
     lidar |-> Number(given, "lidar_gap_threshold_ms", Defaults.lidarGap, Limits.gapThreshold)]

\* The upper bound of a measured duration gives way to the lower one.
MaxMeasured(given, minMeasured) ==
    Number(given, "lidar_max_measured_scan_duration_ms", Defaults.maxMeasured, minMeasured)

ScanWindow(given) ==
    LET minMeasured == Number(given, "lidar_min_measured_scan_duration_ms",
                              Defaults.minMeasured, Limits.measuredDuration)
    IN  [fallback      |-> Number(given, "lidar_scan_duration_ms",
                                  Defaults.scanDuration, Limits.scanDuration),
         minMeasured   |-> minMeasured,
         maxMeasured   |-> MaxMeasured(given, minMeasured),
         preferMeasured |-> Declared(given, "lidar_prefer_measured_header_period", TRUE),
         stampPolicy   |-> OneOf(Declared(given, "lidar_stamp_policy", "scan_end"),
                                 {"scan_start", "scan_middle", "scan_end"}, "scan_end")]

PointTimeOverride(given) ==
    [mode  |-> OneOf(Declared(given, "lidar_point_time_mode", "auto"),
                     {"auto", "explicit", "disabled"}, "auto"),
     field |-> Declared(given, "lidar_point_time_field", ""),
     interpretation |-> OneOf(Declared(given, "lidar_point_time_interpretation", "auto"),
                              {"auto", "absolute", "relative"}, "auto"),
     unit  |-> OneOf(Declared(given, "lidar_point_time_unit", "auto"),
                     {"auto", "seconds", "nanoseconds"}, "auto")]

\* The bound is cut to an int after it was made positive: a bound that does
\* not fit is no longer positive, and the constructor makes it one cloud.
HoldbackQueue(given) ==
    [enabled    |-> Declared(given, "lidar_holdback_enabled", FALSE),
     tolerance  |-> Number(given, "lidar_holdback_tolerance_ms", Defaults.tolerance, 0),
     maxPending |-> AtLeast(AsInt(Number(given, "lidar_holdback_max_pending",
                                         Defaults.maxPending, 1)), 1)]

ExpectedImuPeriod(given) ==
    Number(given, "expected_imu_period_ms", Defaults.period, Limits.period)

\* The coverage margins default to multiples of the IMU period; no gap is
\* allowed to be shorter than the period itself.
Coverage(given) ==
    LET period == ExpectedImuPeriod(given)
    IN  [retention |-> Number(given, "imu_buffer_retention_ms",
                              Defaults.retention, Limits.retention),
         maxPrefix |-> Number(given, "max_missing_prefix_ms", Limits.prefixPeriods * period, 0),
         maxSuffix |-> Number(given, "max_missing_suffix_ms", Limits.suffixPeriods * period, 0),
         maxGap    |-> Number(given, "max_internal_gap_ms", Limits.gapPeriods * period, period)]

\* Lists of different lengths name no transform at all.
BuildTransformChecks(targets, sources) ==
    IF Len(targets) # Len(sources) THEN <<>>
    ELSE [i \in 1 .. Len(targets) |-> [target |-> targets[i], source |-> sources[i]]]

\* Without lists the two single frames are one check; without checks the
\* constructor turns the monitoring off.
Transforms(given) ==
    LET target == Declared(given, "tf_target_frame", Defaults.targetFrame)
        source == Declared(given, "tf_source_frame", Defaults.sourceFrame)
        checks == BuildTransformChecks(Declared(given, "tf_target_frames", <<target>>),
                                       Declared(given, "tf_source_frames", <<source>>))
    IN  [checks    |-> checks,
         enabled   |-> Declared(given, "tf_monitoring_enabled", FALSE) /\ checks # <<>>,
         maxAge    |-> Number(given, "tf_max_transform_age_ms", Defaults.maxTransformAge, 0),
         maxFuture |-> Number(given, "tf_max_future_tolerance_ms",
                              Defaults.maxFutureTolerance, 0)]

\* The depth of the cloud queues: by default the output's is the input's.
QosDepths(given) ==
    LET depth == AtLeast(AsInt(Declared(given, "lidar_qos_depth", Defaults.qosDepth)), 1)
    IN  [input  |-> depth,
         output |-> AtLeast(AsInt(Declared(given, "checked_lidar_qos_depth", depth)), 1)]

LoadTemporalMonitorNodeParameters(given) ==
    [profile    |-> RuntimeProfile(given),
     summaryPeriod |-> Number(given, "summary_period_ms",
                              Defaults.summaryPeriod, Limits.summaryPeriod),
     gate       |-> Gate(given),
     gaps       |-> GapThresholds(given),
     scanWindow |-> ScanWindow(given),
     pointTime  |-> PointTimeOverride(given),
     holdback   |-> HoldbackQueue(given),
     coverage   |-> Coverage(given),
     transforms |-> Transforms(given),
     qos        |-> QosDepths(given)]
-----------------------------------------------------------------------------
(* The launch of a session that causal_slam_session has generated: o are the *)
(* options of init, ms the ticks of a millisecond.                           *)

GeneratedParameters(o, ms) ==
    [runtime_profile |-> "diagnostic", summary_period_ms |-> 2000 * ms,
     lidar_gate_mode |-> o.mode, checked_lidar_topic |-> o.checkedLidarTopic,
     gate_min_total_imu_samples_before_forward |-> 5,
     gate_min_window_imu_samples_before_forward |-> 2,
     lidar_qos_depth |-> 5, checked_lidar_qos_depth |-> 5,
     tf_monitoring_enabled |-> FALSE,
     expected_imu_period_ms |-> 10 * ms, imu_buffer_retention_ms |-> 5000 * ms,
     imu_gap_threshold_ms |-> 30 * ms, lidar_gap_threshold_ms |-> 200 * ms,
     lidar_scan_duration_ms |-> 100 * ms,
     lidar_min_measured_scan_duration_ms |-> ms,
     lidar_max_measured_scan_duration_ms |-> 500 * ms,
     lidar_prefer_measured_header_period |-> FALSE, lidar_stamp_policy |-> "scan_end",
     lidar_point_time_mode |-> "auto", lidar_point_time_field |-> "",
     lidar_point_time_interpretation |-> "auto", lidar_point_time_unit |-> "auto",
     lidar_holdback_enabled |-> TRUE, lidar_holdback_tolerance_ms |-> 10 * ms,
     lidar_holdback_max_pending |-> 64,
     max_missing_prefix_ms |-> 30 * ms, max_missing_suffix_ms |-> 30 * ms,
     max_internal_gap_ms |-> 30 * ms]
=============================================================================
