----------------------- MODULE TemporalMonitorPipeline -----------------------
(***************************************************************************)
(* application/temporal_monitor/temporal_monitor_pipeline.cc: what the     *)
(* pipeline keeps between two messages, as a record, and its operations.   *)
(* It joins the trackers, the sample buffer, the window estimator and the  *)
(* coverage analyzer into the observation TemporalDiagnostics judges.      *)
(*                                                                         *)
(* Clouds are the records [header, fields, values] of PointTimeField.       *)
(***************************************************************************)
EXTENDS Integers, Sequences

CONSTANTS
    ImuGapThreshold, LidarGapThreshold, SuspiciousJitter, HighJitter,
    Retention,
    MaxMissingPrefix, MaxMissingSuffix, MaxInternalGap,
    StampPolicy, PreferMeasuredPeriod, FallbackScanDuration,
    MinMeasuredDuration, MaxMeasuredDuration,
    PointTimeConfig,
    MaxTransformAge, MaxFutureTolerance,
    NoStamp, NoScan, NoField   \* the values of empty optionals

ImuTracker   == INSTANCE StreamTimingTracker WITH GapThreshold <- ImuGapThreshold
LidarTracker == INSTANCE StreamTimingTracker WITH GapThreshold <- LidarGapThreshold
Buffer       == INSTANCE ImuSampleBuffer
Coverage     == INSTANCE ImuCoverage
Scan         == INSTANCE LidarScanWindow
PointTime    == INSTANCE PointTimeField
TransformAge == INSTANCE TransformAge
Diagnostics  == INSTANCE TemporalDiagnostics

NewPipeline ==
    [imuTiming   |-> ImuTracker!NewTracker,
     lidarTiming |-> LidarTracker!NewTracker,
     buffer      |-> Buffer!NewBuffer,
     previous    |-> NoStamp,
     estimate    |-> NoScan,
     inspected   |-> FALSE,
     field       |-> NoField,
     pointTime   |-> Diagnostics!NoPointTime,
     coverage    |-> Diagnostics!NoCoverage,
     transforms  |-> <<>>]

\* The buffer refuses a late sample, the tracker counts every one.
ObserveImu(p, stamp) ==
    [p EXCEPT !.imuTiming = ImuTracker!Observe(@, stamp),
              !.buffer    = Buffer!Add(@, stamp)]

\* The first cloud is inspected, for good: the fields of later ones are taken
\* to be the same.
Inspected(p, cloud) ==
    LET inspection == PointTime!Inspect(cloud.fields)
    IN  IF p.inspected THEN p
        ELSE [p EXCEPT !.inspected = TRUE,
                       !.field = inspection.primary,
                       !.pointTime = [Diagnostics!NoPointTime EXCEPT
                           !.candidate = inspection.candidate,
                           !.supported = inspection.primary # NoField]]

\* The estimate made of a successful extraction.
PointTimeEstimate(window) ==
    [window |-> window, source |-> "point_time_field", confidence |-> "HIGH"]

\* Slip: a failed extraction is not recorded.
ObserveScan_ForgetsFailure(p, cloud, precomputed) ==
    LET extracted == PointTime!Extract(cloud, p.field)
    IN  IF precomputed # NoScan THEN [p EXCEPT !.estimate = PointTimeEstimate(precomputed)]
        ELSE IF p.field # NoField /\ extracted # NoScan
        THEN [p EXCEPT !.estimate = PointTimeEstimate(extracted),
                       !.pointTime.attempted = TRUE, !.pointTime.used = TRUE]
        ELSE [p EXCEPT !.estimate = Scan!Estimate(p.previous, cloud.header)]

\* The window of a cloud: the precomputed one, the one its points give, or the
\* one estimated from the headers.  An extraction is recorded when one is
\* made; none is made for a cloud that brings a precomputed window.
ObserveScan(p, cloud, precomputed) ==
    LET extracted == PointTime!Extract(cloud, p.field)
        headers   == Scan!Estimate(p.previous, cloud.header)
    IN  IF precomputed # NoScan THEN [p EXCEPT !.estimate = PointTimeEstimate(precomputed)]
        ELSE IF p.field = NoField THEN [p EXCEPT !.estimate = headers]
        ELSE [p EXCEPT !.estimate = IF extracted # NoScan
                                    THEN PointTimeEstimate(extracted) ELSE headers,
                       !.pointTime.attempted = TRUE,
                       !.pointTime.used = extracted # NoScan]

\* The stamps of the buffered samples.
Stamps(p) == {p.buffer.samples[i] : i \in DOMAIN p.buffer.samples}

\* Slip: the coverage of an earlier cloud is kept when there is one.
ObserveCoverage_KeepsFirst(p) ==
    IF p.coverage = "ok" THEN p
    ELSE [p EXCEPT !.coverage = Coverage!Analyze(p.estimate.window, Stamps(p))]

ObserveCoverage(p) ==
    [p EXCEPT !.coverage = Coverage!Analyze(p.estimate.window, Stamps(p))]

\* ObserveLidar; precomputed is the window the cloud was held back with, or
\* NoScan.
ObserveLidar(p, cloud, precomputed) ==
    LET observed == ObserveCoverage(ObserveScan(Inspected(p, cloud), cloud, precomputed))
    IN  [observed EXCEPT !.lidarTiming = LidarTracker!Observe(@, cloud.header),
                         !.previous    = cloud.header]

\* ObserveTransforms: the statuses of this cloud's TF checks replace the old.
ObserveTransforms(p, statuses) == [p EXCEPT !.transforms = statuses]

\* The observation both snapshots are built from.
Observation(p) ==
    [imuTiming   |-> ImuTracker!EvaluateHealth(p.imuTiming),
     lidarTiming |-> LidarTracker!EvaluateHealth(p.lidarTiming),
     coverage    |-> p.coverage,
     pointTime   |-> p.pointTime,
     confidence  |-> IF p.estimate = NoScan THEN Diagnostics!NoWindow
                     ELSE p.estimate.confidence,
     transforms  |-> p.transforms]

BuildLatestDiagnosticSnapshot(p) == Diagnostics!Build(Observation(p))

\* BuildSnapshot leaves the pipeline with both timing windows empty.
ConsumeWindows(p) ==
    [p EXCEPT !.imuTiming   = ImuTracker!ResetWindow(@),
              !.lidarTiming = LidarTracker!ResetWindow(@)]
=============================================================================
