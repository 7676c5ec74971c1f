------------------------ MODULE Ros1TemporalMonitor ------------------------
(***************************************************************************)
(* ros1/causal_slam_ros1/src/temporal_monitor_node.cpp: the ROS 1 monitor. *)
(* It drives the same pipeline as the ROS 2 node, but forwards nothing,    *)
(* holds nothing back, checks no transforms, and judges only when its      *)
(* timer fires; what it publishes is latched.  ros::spin runs the          *)
(* callbacks one at a time.                                                *)
(***************************************************************************)
EXTENDS Integers, Sequences

CONSTANTS
    ImuGapThreshold, LidarGapThreshold, SuspiciousJitter, HighJitter,
    Retention, MaxMissingPrefix, MaxMissingSuffix, MaxInternalGap,
    StampPolicy, PreferMeasuredPeriod, FallbackScanDuration,
    MinMeasuredDuration, MaxMeasuredDuration,
    ImuStamps, Clouds,   \* the messages the sensors may send
    MaxImu, MaxClouds,   \* bounds on their number
    NoStamp, NoScan, NoField, NoMessage

\* A set of times is empty, or it has an earliest and a latest one.
HasBounds(times) ==
    /\ times \subseteq Int
    /\ times # {} => \E a, b \in times : \A t \in times : a <= t /\ t <= b

\* What the window of a cloud is estimated to be.
Estimates ==
    [window     : [start : Int, end : Int],
     source     : {"assumed_fixed_duration", "measured_header_period", "point_time_field"},
     confidence : {"LOW", "MEDIUM", "HIGH"}]

ASSUME Ros1Assumption ==
    /\ MaxImu \in Nat /\ MaxClouds \in Nat
    /\ ImuStamps \subseteq Int
    /\ \A cloud \in Clouds :
          /\ cloud.header \in Int
          /\ \A offset \in DOMAIN cloud.values : HasBounds(cloud.values[offset])
    /\ NoScan \notin Estimates

VARIABLES
    pipeline,        \* temporal_pipeline_
    imuLog,          \* history: the stamps of all IMU messages
    headers,         \* history: the stamps of all clouds
    published,       \* the latched messages, with the window they speak of
    reportedImu,     \* history: how many IMU messages came before the last timer
    reportedClouds   \* ... and how many clouds

vars == <<pipeline, imuLog, headers, published, reportedImu, reportedClouds>>

\* The point-time configuration is the default one, and TF is never looked up.
PointTimeConfig == [mode |-> "auto", field |-> "", interpretation |-> "auto", unit |-> "auto"]

Pipeline == INSTANCE TemporalMonitorPipeline
    WITH MaxTransformAge <- 0, MaxFutureTolerance <- 0

ASSUME PartsAssumption ==
    /\ Pipeline!ImuTracker!TrackerAssumption
    /\ Pipeline!LidarTracker!TrackerAssumption
    /\ Pipeline!Buffer!RetentionAssumption
    /\ Pipeline!Coverage!CoverageAssumption
    /\ Pipeline!Scan!ScanWindowAssumption

Policy == INSTANCE LidarCloudGate WITH MinTotalImuSamples <- 0, MinWindowImuSamples <- 0

Reasons(snapshot) == {snapshot.issues[i].reason : i \in DOMAIN snapshot.issues}

Init ==
    /\ pipeline = Pipeline!NewPipeline
    /\ imuLog = <<>>
    /\ headers = <<>>
    /\ published = NoMessage
    /\ reportedImu = 0
    /\ reportedClouds = 0

OnImuReceived(stamp) ==
    /\ Len(imuLog) < MaxImu
    /\ pipeline' = Pipeline!ObserveImu(pipeline, stamp)
    /\ imuLog' = Append(imuLog, stamp)
    /\ UNCHANGED <<headers, published, reportedImu, reportedClouds>>

OnLidarReceived(cloud) ==
    /\ Len(headers) < MaxClouds
    /\ pipeline' = Pipeline!ObserveLidar(pipeline, cloud, NoScan)
    /\ headers' = Append(headers, cloud.header)
    /\ UNCHANGED <<imuLog, published, reportedImu, reportedClouds>>

\* Slip: the windows are consumed before the snapshot is taken.
OnTimer_ConsumesFirst ==
    LET consumed == Pipeline!ConsumeWindows(pipeline)
        snapshot == Pipeline!BuildLatestDiagnosticSnapshot(consumed)
        reasons  == Reasons(snapshot)
        blocker  == reasons \cap Policy!HardFusionBlockingReasons # {}
    IN  /\ published' = [health  |-> snapshot.status,
                         allowed |-> Policy!DecideMapUpdate(snapshot.status, blocker).allowed,
                         reasons |-> reasons,
                         scan    |-> pipeline.estimate]
        /\ pipeline' = consumed
        /\ reportedImu' = Len(imuLog)
        /\ reportedClouds' = Len(headers)
        /\ UNCHANGED <<imuLog, headers>>

\* BuildSnapshot, which consumes the timing windows, and PublishDiagnosticTopics.
OnTimer ==
    LET snapshot == Pipeline!BuildLatestDiagnosticSnapshot(pipeline)
        reasons  == Reasons(snapshot)
        blocker  == reasons \cap Policy!HardFusionBlockingReasons # {}
    IN  /\ published' = [health  |-> snapshot.status,
                         allowed |-> Policy!DecideMapUpdate(snapshot.status, blocker).allowed,
                         reasons |-> reasons,
                         scan    |-> pipeline.estimate]
        /\ pipeline' = Pipeline!ConsumeWindows(pipeline)
        /\ reportedImu' = Len(imuLog)
        /\ reportedClouds' = Len(headers)
        /\ UNCHANGED <<imuLog, headers>>

Next ==
    \/ \E stamp \in ImuStamps : OnImuReceived(stamp)
    \/ \E cloud \in Clouds : OnLidarReceived(cloud)
    \/ OnTimer

Spec == Init /\ [][Next]_vars
-----------------------------------------------------------------------------
\* map_update_allowed is only latched after a cloud was judged, and one a mapper
\* can deskew: between the tolerated margins of its scan, every instant lies
\* between two IMU samples that did arrive, no further apart than the allowed
\* gap.  It speaks of the last scan before the timer, not of earlier ones.
AllowedScanIsCovered ==
    published # NoMessage /\ published.allowed =>
        /\ published.scan # NoScan
        /\ \A t \in published.scan.window.start + MaxMissingPrefix
                   .. published.scan.window.end - MaxMissingSuffix :
               \E i, j \in 1 .. reportedImu :
                   /\ imuLog[i] <= t /\ t <= imuLog[j]
                   /\ imuLog[j] - imuLog[i] <= MaxInternalGap

\* Message i stepped back, or too far ahead, of the one before it.
SteppedBack(log, i) == i > 1 /\ log[i] < log[i - 1]
Jumped(log, i, threshold) == i > 1 /\ log[i] - log[i - 1] > threshold
Since(log, first) == first + 1 .. Len(log)

\* Each fault of a stream is published by the next timer and by no other: the
\* comparison reaches across the timer, the verdict does not.
TimingFaultsArePublishedOnce ==
    [][reportedImu' # reportedImu \/ reportedClouds' # reportedClouds =>
        LET imuBack  == \E i \in Since(imuLog, reportedImu) : SteppedBack(imuLog, i)
            imuGap   == \E i \in Since(imuLog, reportedImu) : Jumped(imuLog, i, ImuGapThreshold)
            scanBack == \E i \in Since(headers, reportedClouds) : SteppedBack(headers, i)
            scanGap  == \E i \in Since(headers, reportedClouds) :
                            Jumped(headers, i, LidarGapThreshold)
        IN  /\ imuBack <=> "imu_stream_timing_reordered" \in published'.reasons
            /\ imuGap /\ ~imuBack <=> "imu_stream_timing_gap" \in published'.reasons
            /\ scanBack <=> "lidar_stream_timing_reordered" \in published'.reasons
            /\ scanGap /\ ~scanBack <=> "lidar_stream_timing_gap" \in published'.reasons
      ]_vars
=============================================================================
