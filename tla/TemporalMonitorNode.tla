------------------------- MODULE TemporalMonitorNode -------------------------
(***************************************************************************)
(* apps/ros2/temporal_monitor_node.cc: the running node.  Its callbacks -  *)
(* an IMU message, a cloud, the timer - run one at a time on one thread;   *)
(* each drives the holdback queue (LidarHoldback), the pipeline            *)
(* (TemporalMonitorPipeline) and the fusion policy (FusionDecision), and   *)
(* publishes.  A step is a callback, or one iteration of the loop that     *)
(* drains the queue at the end of the IMU callback.                        *)
(***************************************************************************)
EXTENDS Integers, Sequences, FiniteSets

CONSTANTS
    \* the gate
    GateMode, MinTotalImuSamples, MinWindowImuSamples,
    HasCheckedTopic,    \* checked_lidar_topic is not empty
    \* holdback
    HoldbackEnabled, MaxPending,
    Tolerance,          \* lidar_holdback_tolerance_ns_
    \* the pipeline
    ImuGapThreshold, LidarGapThreshold, SuspiciousJitter, HighJitter,
    Retention, MaxMissingPrefix, MaxMissingSuffix, MaxInternalGap,
    StampPolicy, PreferMeasuredPeriod, FallbackScanDuration,
    MinMeasuredDuration, MaxMeasuredDuration, PointTimeConfig,
    MaxTransformAge, MaxFutureTolerance,
    \* the inputs
    ImuStamps,          \* header stamps of IMU messages
    Clouds,             \* clouds the sensor may send: those of PointTimeField, with
                        \* scan, the interval each was really taken in
    TransformAnswers,   \* what the TF lookups of one cloud may return; {<<>>} without TF
    MaxImu, MaxClouds,  \* bounds on the messages received
    NoStamp, NoScan, NoField, NoEvent

\* A set of times is empty, or it has an earliest and a latest one.
HasBounds(times) ==
    /\ times \subseteq Int
    /\ times # {} => \E a, b \in times : \A t \in times : a <= t /\ t <= b

\* What the window of a cloud is estimated to be.
Estimates ==
    [window     : [start : Int, end : Int],
     source     : {"assumed_fixed_duration", "measured_header_period", "point_time_field"},
     confidence : {"LOW", "MEDIUM", "HIGH"}]

ASSUME NodeAssumption ==
    /\ HasCheckedTopic \in BOOLEAN
    /\ MinTotalImuSamples \in Nat /\ MinWindowImuSamples \in Nat
    /\ Tolerance \in Nat
    /\ MaxTransformAge \in Nat
    /\ MaxFutureTolerance \in Nat
    /\ PointTimeConfig.mode \in {"auto", "disabled", "explicit"}
    /\ PointTimeConfig.interpretation \in {"auto", "absolute", "relative"}
    /\ PointTimeConfig.unit \in {"auto", "seconds", "nanoseconds"}
    /\ HoldbackEnabled \in BOOLEAN
    /\ MaxPending \in Nat \ {0}
    /\ ImuStamps \subseteq Int
    /\ MaxImu \in Nat
    /\ MaxClouds \in Nat
    /\ \A cloud \in Clouds :
          /\ cloud.header \in Int
          /\ \A o \in DOMAIN cloud.values : HasBounds(cloud.values[o])
    /\ \A answers \in TransformAnswers :
          IsFiniteSet(DOMAIN answers) /\ DOMAIN answers \subseteq Int
    /\ NoScan \notin Estimates

VARIABLES
    latestImu, pending, draining, readyOf, decided, lost,   \* LidarHoldback
    pipeline,           \* temporal_pipeline_
    holdbackPrevious,   \* the previous header of holdback_scan_window_estimator_
    holdbackField,      \* holdback_point_time_field_
    clouds,             \* history: the clouds received, each with the window read
                        \* from its points on arrival; a pending id points here
    imuLog,             \* history: the stamps of all IMU messages
    published,          \* the last message on the diagnostic topics
    event               \* the last CloudDecisionEvent

holdbackVars == <<latestImu, pending, draining, readyOf, decided, lost>>
windowVars == <<holdbackPrevious, holdbackField>>
vars == <<holdbackVars, windowVars, pipeline, clouds, imuLog, published, event>>

ReadyStamps == Int   \* a cloud may get any ready stamp
Holdback == INSTANCE LidarHoldback
Pipeline == INSTANCE TemporalMonitorPipeline

\* What the parts assume of their constants holds of the node's.
ASSUME PartsAssumption ==
    /\ Pipeline!ImuTracker!TrackerAssumption
    /\ Pipeline!LidarTracker!TrackerAssumption
    /\ Pipeline!Buffer!RetentionAssumption
    /\ Pipeline!Coverage!CoverageAssumption
    /\ Pipeline!Scan!ScanWindowAssumption

\* What a field of a cloud says of its points, as far as the node can read it and
\* reads it as configured, is true: the first and the last point were taken at
\* the ends of the scan, and no point outside it.
ASSUME PointTimesAreTrue ==
    \A cloud \in Clouds :
        /\ cloud.scan \in [start : Int, end : Int]
        /\ \A i \in DOMAIN cloud.fields :
              LET field == cloud.fields[i]
                  role  == Pipeline!PointTime!ResolveTimeFieldRole(field)
                  zero  == IF role = "point_time" THEN 0 ELSE cloud.header
              IN  /\ Pipeline!PointTime!IsConvertible(role, field.datatype)
                  /\ field.offset \in DOMAIN cloud.values
                  /\ cloud.values[field.offset] # {}
                  => /\ {cloud.scan.start - zero, cloud.scan.end - zero}
                            \subseteq cloud.values[field.offset]
                     /\ \A value \in cloud.values[field.offset] :
                           /\ cloud.scan.start <= zero + value
                           /\ zero + value <= cloud.scan.end

AtMost(n, bound) == IF n < bound THEN n ELSE bound

Fusion == INSTANCE FusionDecision
    WITH TimingReasons <- {"ok", "jitter_suspicious", "jitter_high", "stream_gap",
                           "message_reordering_detected"},
         CoverageReasons <- {"ok", "invalid_scan_window", "imu_window_empty",
                             "imu_window_missing_prefix", "imu_window_missing_suffix",
                             "imu_window_internal_gap"},
         TransformResults <- UNION {[DOMAIN answers -> Pipeline!TransformAge!ReportedStatuses]
                                    : answers \in TransformAnswers},
         obs <- Pipeline!Observation(pipeline),
         totalImu <- AtMost(pipeline.imuTiming.count, MinTotalImuSamples),
         windowImu <- AtMost(pipeline.imuTiming.windowCount, MinWindowImuSamples)

mode == Fusion!ParseLidarGateMode(GateMode)

Init ==
    /\ Holdback!Init
    /\ pipeline = Pipeline!NewPipeline
    /\ holdbackPrevious = NoStamp
    /\ holdbackField = NoField
    /\ clouds = <<>>
    /\ imuLog = <<>>
    /\ published = NoEvent
    /\ event = NoEvent

\* Holdback reads the point times of a cloud on arrival, by the first field it
\* found; it looks again with every cloud until there is one.
FieldAfter(cloud) ==
    IF HoldbackEnabled /\ holdbackField = NoField
    THEN Pipeline!PointTime!Inspect(cloud.fields).primary ELSE holdbackField

\* The window that goes with the cloud, or NoScan.
Precomputed(cloud) ==
    IF HoldbackEnabled /\ FieldAfter(cloud) # NoField
    THEN Pipeline!PointTime!Extract(cloud, FieldAfter(cloud)) ELSE NoScan

\* What the holdback path estimates from the headers it is asked about.
HoldbackWindow(cloud) == Pipeline!Scan!Estimate(holdbackPrevious, cloud.header).window

\* Slip: the cloud is ready when the IMU reaches its header.
ReadyStamp_AtHeader(cloud) == cloud.header + Tolerance

\* ComputeLidarHoldbackReadyStampNs: the end of the scan and the tolerance.
ReadyStamp(cloud) ==
    LET end == HoldbackWindow(cloud).end
    IN  IF Precomputed(cloud) # NoScan THEN Precomputed(cloud).end + Tolerance
        ELSE IF end > cloud.header THEN end + Tolerance
        ELSE cloud.header + FallbackScanDuration + Tolerance

\* PublishDiagnosticTopics
PublishDiagnosticTopics(snapshot) ==
    published' = [allowed |-> Fusion!MapUpdateDecision(snapshot).allowed,
                  health  |-> snapshot.status,
                  reasons |-> {snapshot.issues[i].reason : i \in DOMAIN snapshot.issues}]

\* ProcessLidarCloud: the pipeline observes the cloud and its transforms, the
\* diagnostics are published, the cloud is forwarded or not, and the decision
\* recorded with the evidence it was made on.
ProcessLidarCloud(id, cloud, precomputed) ==
    \E answers \in TransformAnswers :
        LET observed == Pipeline!ObserveTransforms(
                            Pipeline!ObserveLidar(pipeline, cloud, precomputed),
                            Pipeline!TransformAge!StatusesOf(cloud.header, answers))
            snapshot == Pipeline!BuildLatestDiagnosticSnapshot(observed)
            decision == Fusion!ForwardingDecision(
                            mode, HasCheckedTopic, snapshot,
                            observed.imuTiming.count, observed.imuTiming.windowCount)
        IN  /\ pipeline' = observed
            /\ PublishDiagnosticTopics(snapshot)
            /\ event' = [cloud    |-> id,
                         decision |-> decision,
                         reason   |-> Fusion!PrimaryBlockReason(decision, snapshot),
                         estimate |-> observed.estimate,
                         coverage |-> observed.coverage,
                         reached  |-> latestImu]

OnImuReceived(stamp) ==
    /\ Len(imuLog) < MaxImu
    /\ Holdback!OnImuReceived(stamp)
    /\ pipeline' = Pipeline!ObserveImu(pipeline, stamp)
    /\ imuLog' = Append(imuLog, stamp)
    /\ UNCHANGED <<windowVars, clouds, published, event>>

ProcessReadyPendingCloud ==
    LET id == Head(pending).id
    IN  /\ Holdback!ProcessReadyPendingCloud
        /\ ProcessLidarCloud(id, clouds[id].cloud, clouds[id].precomputed)
        /\ UNCHANGED <<windowVars, clouds, imuLog>>

FinishDraining ==
    /\ Holdback!FinishDraining
    /\ UNCHANGED <<windowVars, pipeline, clouds, imuLog, published, event>>

\* The estimator of the holdback path sees only the clouds it is asked about.
OnLidarReceived(cloud) ==
    /\ Holdback!OnLidarReceived(ReadyStamp(cloud))
    /\ clouds' = Append(clouds, [cloud       |-> cloud,
                                 precomputed |-> Precomputed(cloud),
                                 awaited     |-> IF Precomputed(cloud) # NoScan
                                                 THEN Precomputed(cloud)
                                                 ELSE HoldbackWindow(cloud)])
    /\ holdbackField' = FieldAfter(cloud)
    /\ holdbackPrevious' = IF HoldbackEnabled /\ Precomputed(cloud) = NoScan
                           THEN cloud.header ELSE holdbackPrevious
    /\ IF decided' # decided
       THEN ProcessLidarCloud(Len(clouds'), cloud, Precomputed(cloud))
       ELSE UNCHANGED <<pipeline, published, event>>
    /\ UNCHANGED imuLog

\* OnTimer publishes the current snapshot and consumes the timing windows.
OnTimer ==
    /\ ~draining
    /\ PublishDiagnosticTopics(Pipeline!BuildLatestDiagnosticSnapshot(pipeline))
    /\ pipeline' = Pipeline!ConsumeWindows(pipeline)
    /\ UNCHANGED <<holdbackVars, windowVars, clouds, imuLog, event>>

Next ==
    \/ \E stamp \in ImuStamps : OnImuReceived(stamp)
    \/ ProcessReadyPendingCloud
    \/ FinishDraining
    \/ \E cloud \in Clouds : OnLidarReceived(cloud)
    \/ OnTimer

Spec == Init /\ [][Next]_vars
-----------------------------------------------------------------------------
Decisions == {"forwarded", "blocked_warmup", "blocked_by_gate"}

\* What the composed node shows its policy is what FusionDecision assumes of
\* it, so its properties hold of every snapshot the node takes: timing, window
\* evidence, point-time diagnostics and confidence only occur in the
\* combinations and change only in the steps that module knows.
ImplementsFusionDecision == Fusion!Spec

IsProtective == mode \in {"drop_degraded", "strict"}

\* A protective gate forwards no scan a mapper cannot deskew: between the two
\* tolerated margins of its window, every instant lies between two IMU samples
\* the node did receive, no further apart than the allowed gap.  This is about
\* the cloud decided, not an earlier one, and about the real IMU history, not
\* what the buffer kept of it.
ForwardedScanIsCovered ==
    IsProtective /\ event # NoEvent /\ event.decision = "forwarded" =>
        \A t \in event.estimate.window.start + MaxMissingPrefix
                .. event.estimate.window.end - MaxMissingSuffix :
            \E i, j \in 1 .. Len(imuLog) :
                /\ imuLog[i] <= t /\ t <= imuLog[j]
                /\ imuLog[j] - imuLog[i] <= MaxInternalGap

\* A window read from point times is the interval the cloud was taken in,
\* whichever of the two paths read it, early or late, as long as the fields
\* both paths chose for good, maybe by different clouds, are fields of this one.
PointTimesGiveTheScan ==
    event # NoEvent /\ event.estimate.source = "point_time_field" =>
        LET cloud == clouds[event.cloud].cloud
        IN  {holdbackField, pipeline.field} \ {NoField}
                \subseteq {cloud.fields[i] : i \in DOMAIN cloud.fields}
            => event.estimate.window = cloud.scan

\* The last decided cloud brought its window along, or both estimators saw the
\* same clouds in the same order: none was lost, overtook another, or was read
\* by its points.
EstimatorsSawTheSame ==
    \/ clouds[event.cloud].precomputed # NoScan
    \/ \A i \in 1 .. event.cloud :
          decided[i] = i /\ clouds[i].precomputed = NoScan /\ pipeline.field = NoField

\* Then the window a cloud is judged by is the one its ready stamp was computed
\* from, however the two paths to it were interleaved, and a cloud held back is
\* not judged before the IMU stream has passed the end of that very window.
HoldbackWaitsForScan ==
    HoldbackEnabled /\ event # NoEvent /\ EstimatorsSawTheSame =>
        /\ event.estimate.window = clouds[event.cloud].awaited
        /\ event.reached >= event.estimate.window.end

\* The IMU stream was regular: it started before the margin of the window
\* or the window ran out, and never stepped back nor further ahead than the margins, the
\* allowed gap and the window are long.
ImuWasRegularFor(window) ==
    /\ imuLog[1] <= window.start + MaxMissingPrefix /\ imuLog[1] <= window.end
    /\ \A i \in 2 .. Len(imuLog) :
          LET step == imuLog[i] - imuLog[i - 1]
          IN  /\ step >= 0 /\ step <= window.end - window.start
              /\ step <= MaxMissingPrefix /\ step <= MaxMissingSuffix
              /\ step <= MaxInternalGap

\* Holdback keeps its purpose: with a regular IMU stream and enough retention
\* no cloud is blamed for IMU samples that were merely late, however long it
\* waited and however callbacks, drains and timers interleaved.
HeldBackScanIsCovered ==
    (/\ HoldbackEnabled /\ event # NoEvent /\ EstimatorsSawTheSame
     /\ event.estimate.window.start < event.estimate.window.end
     /\ ImuWasRegularFor(event.estimate.window)
     /\ event.reached - Retention <= event.estimate.window.start)
    => event.coverage = "ok"

\* Issues that block fusion although they only raise a WARNING.
WarningBlockers == {"lidar_point_time_unsupported", "lidar_point_time_extraction_failed"}

\* map_update_allowed is about a scan: between two decided clouds the timer
\* republishes it without change, whatever the streams' timing did meanwhile.
\* The exception are the blockers of WARNING severity: DecideMapUpdate heeds
\* them only once something else, timing noise included, makes it DEGRADED.
MapUpdateVerdictNeedsACloud ==
    [][/\ published # NoEvent
       /\ published.reasons \cap WarningBlockers = {}
       /\ published'.allowed # published.allowed
       => decided' # decided]_vars

\* README, Gate modes: "observe - diagnostics only; LiDAR is forwarded".
ObserveForwardsEveryCloud ==
    mode = "observe" /\ HasCheckedTopic => lost = {}

\* The issue says "A supported point time field was selected, but it did not
\* produce a valid scan window": not of a cloud whose window is the one its
\* points gave.
ExtractionFailureIsCurrent ==
    event # NoEvent /\ event.estimate.source = "point_time_field" =>
        "lidar_point_time_extraction_failed" \notin published.reasons
=============================================================================
