---------------------- MODULE Ros1TemporalMonitor_proof ----------------------
(***************************************************************************)
(* Proofs about the ROS 1 monitor, for every configuration the pipeline    *)
(* accepts and any messages between any timers.  The pipeline joins two    *)
(* trackers, each the tracker of StreamTimingWindows whose window the      *)
(* timer consumes, and the buffer, which holds nothing it was not given;   *)
(* what the timer publishes is decided by the set of reasons, as           *)
(* FusionDecision_proof says.                                              *)
(***************************************************************************)
EXTENDS Ros1TemporalMonitor, FiniteSetTheorems, SequenceTheorems, TLAPS

Facts == INSTANCE Algorithms_proof

\* The decision about the snapshot the next timer would build.
Decision == INSTANCE FusionDecision_proof
    WITH TimingReasons <- {"ok", "jitter_suspicious", "jitter_high", "stream_gap",
                           "message_reordering_detected"},
         CoverageReasons <- {"ok", "invalid_scan_window", "imu_window_empty",
                             "imu_window_missing_prefix", "imu_window_missing_suffix",
                             "imu_window_internal_gap"},
         TransformResults <- {<<>>},
         MinTotalImuSamples <- 0, MinWindowImuSamples <- 0,
         obs <- Pipeline!Observation(pipeline), totalImu <- 0, windowImu <- 0

\* What a tracker counted before the window that is open.
Before(t) == [reordered |-> t.reordered - t.windowReordered, gaps |-> t.gaps - t.windowGaps]

\* The life of each tracker.
ImuWindows == INSTANCE StreamTimingWindows_proof
    WITH GapThreshold <- ImuGapThreshold, Stamps <- ImuStamps, MaxMessages <- MaxImu,
         tracker <- pipeline.imuTiming, log <- imuLog, mark <- reportedImu,
         consumed <- Before(pipeline.imuTiming)
Headers == {cloud.header : cloud \in Clouds}
CloudWindows == INSTANCE StreamTimingWindows_proof
    WITH GapThreshold <- LidarGapThreshold, Stamps <- Headers, MaxMessages <- MaxClouds,
         tracker <- pipeline.lidarTiming, log <- headers, mark <- reportedClouds,
         consumed <- Before(pipeline.lidarTiming)

LEMMA PartsAreFit ==
    /\ Retention \in Nat
    /\ MaxMissingPrefix \in Nat /\ MaxMissingSuffix \in Nat /\ MaxInternalGap \in Nat
    /\ StampPolicy \in {"scan_start", "scan_middle", "scan_end"}
    /\ FallbackScanDuration \in Nat
    /\ NoStamp \notin Int
    /\ Facts!CoverageAssumption /\ Facts!RetentionAssumption
<1>1. Retention \in Nat /\ Facts!RetentionAssumption
  BY PartsAssumption DEF Pipeline!Buffer!RetentionAssumption, Facts!RetentionAssumption
<1>2. /\ MaxMissingPrefix \in Nat /\ MaxMissingSuffix \in Nat /\ MaxInternalGap \in Nat
      /\ Facts!CoverageAssumption
  BY PartsAssumption DEF Pipeline!Coverage!CoverageAssumption, Facts!CoverageAssumption
<1>3. /\ StampPolicy \in {"scan_start", "scan_middle", "scan_end"}
      /\ FallbackScanDuration \in Nat
      /\ NoStamp \notin Int
  BY PartsAssumption DEF Pipeline!Scan!ScanWindowAssumption, Pipeline!Scan!StampPolicies
<1> QED  BY <1>1, <1>2, <1>3

LEMMA TrackersAreFit ==
    /\ ImuWindows!TrackerAssumption /\ ImuWindows!WindowsAssumption
    /\ CloudWindows!TrackerAssumption /\ CloudWindows!WindowsAssumption
<1>1. ImuWindows!TrackerAssumption /\ CloudWindows!TrackerAssumption
  BY PartsAssumption DEF Pipeline!ImuTracker!TrackerAssumption,
     Pipeline!LidarTracker!TrackerAssumption, ImuWindows!TrackerAssumption,
     CloudWindows!TrackerAssumption
<1>2. ImuWindows!WindowsAssumption /\ CloudWindows!WindowsAssumption
  BY Ros1Assumption DEF ImuWindows!WindowsAssumption, CloudWindows!WindowsAssumption, Headers
<1> QED  BY <1>1, <1>2

-----------------------------------------------------------------------------
(* The coverage verdict *)

Windows == [start : Int, end : Int]

\* Between the margins of the window every instant lies between two of the
\* first messages, no further apart than the allowed gap.
IsCovered(log, window, count) ==
    \A t \in window.start + MaxMissingPrefix .. window.end - MaxMissingSuffix :
        \E i, j \in 1 .. count :
            /\ log[i] <= t /\ t <= log[j]
            /\ log[j] - log[i] <= MaxInternalGap

\* Messages to come take no cover away.
LEMMA CoverStays ==
    ASSUME NEW log, NEW longer, NEW count \in Nat, NEW more \in Nat, count <= more,
           \A i \in 1 .. count : longer[i] = log[i],
           NEW window, IsCovered(log, window, count)
    PROVE  IsCovered(longer, window, more)
<1>1. 1 .. count \subseteq 1 .. more
  OBVIOUS
<1> QED  BY <1>1 DEF IsCovered

LEMMA OkIsInterpolable ==
    ASSUME NEW window \in Windows, NEW stamps \in SUBSET Int,
           Pipeline!Coverage!Analyze(window, stamps) = "ok",
           NEW t \in window.start + MaxMissingPrefix .. window.end - MaxMissingSuffix
    PROVE  \E a, b \in stamps : a <= t /\ t <= b /\ b - a <= MaxInternalGap
<1>1. Facts!Analyze(window, stamps) = Pipeline!Coverage!Analyze(window, stamps)
  BY DEF Facts!Analyze, Pipeline!Coverage!Analyze,
         Facts!StampsInside, Pipeline!Coverage!StampsInside,
         Facts!Contains, Pipeline!Coverage!Contains,
         Facts!HasInternalGap, Pipeline!Coverage!HasInternalGap,
         Facts!MissingPrefix, Pipeline!Coverage!MissingPrefix,
         Facts!MissingSuffix, Pipeline!Coverage!MissingSuffix
<1> QED  BY <1>1, PartsAreFit, Facts!OkWindowIsInterpolable DEF Windows

-----------------------------------------------------------------------------
(* The window of a cloud *)

LEMMA HeadersGiveAnEstimate ==
    ASSUME NEW previous \in Int \cup {NoStamp}, NEW stamp \in Int
    PROVE  Pipeline!Scan!Estimate(previous, stamp) \in Estimates
<1>1. ASSUME NEW duration \in Int
      PROVE  Pipeline!Scan!BuildLidarScanWindow(stamp, duration) \in Windows
  <2>1. duration \div 2 \in Int
    OBVIOUS
  <2> QED  BY <2>1, PartsAreFit DEF Pipeline!Scan!BuildLidarScanWindow, Windows
<1>2. CASE Pipeline!Scan!UsablePeriod(previous, stamp)
  <2>1. stamp - previous \in Int
    BY <1>2 DEF Pipeline!Scan!UsablePeriod
  <2> QED  BY <1>1, <1>2, <2>1 DEF Pipeline!Scan!Estimate, Estimates, Windows
<1>3. CASE ~ Pipeline!Scan!UsablePeriod(previous, stamp)
  <2>1. FallbackScanDuration \in Int
    BY PartsAreFit
  <2> QED  BY <1>1, <1>3, <2>1 DEF Pipeline!Scan!Estimate, Estimates, Windows
<1> QED  BY <1>2, <1>3

LEMMA ExtractedWindow ==
    ASSUME NEW cloud \in Clouds, NEW field
    PROVE  Pipeline!PointTime!Extract(cloud, field) \in {NoScan} \cup Windows
<1> DEFINE times == Pipeline!PointTime!PointTimes(cloud, field)
           role == Pipeline!PointTime!ResolveTimeFieldRole(field)
           raw == IF /\ field.offset \in DOMAIN cloud.values
                     /\ Pipeline!PointTime!IsConvertible(role, field.datatype)
                  THEN cloud.values[field.offset] ELSE {}
<1>1. HasBounds(raw) /\ cloud.header \in Int
  BY Ros1Assumption DEF HasBounds
<1>2. times = raw \/ times = {cloud.header + offset : offset \in raw}
  BY DEF Pipeline!PointTime!PointTimes, Pipeline!PointTime!TimesByRole
<1> HIDE DEF raw, times
<1>3. HasBounds(times)
  <2>1. CASE times = raw
    BY <1>1, <2>1
  <2>2. CASE times = {cloud.header + offset : offset \in raw}
    <3>1. raw \subseteq Int /\ times \subseteq Int
      BY <1>1, <2>2 DEF HasBounds
    <3>2. ASSUME times # {} PROVE \E a, b \in times : \A t \in times : a <= t /\ t <= b
      <4>1. PICK a \in raw, b \in raw : \A t \in raw : a <= t /\ t <= b
        BY <1>1, <2>2, <3>2 DEF HasBounds
      <4>2. cloud.header + a \in times /\ cloud.header + b \in times
        BY <2>2
      <4>3. \A t \in times : cloud.header + a <= t /\ t <= cloud.header + b
        BY <1>1, <2>2, <3>1, <4>1
      <4> QED  BY <4>2, <4>3
    <3> QED  BY <3>1, <3>2 DEF HasBounds
  <2> QED  BY <1>2, <2>1, <2>2
<1>4. CASE times = {}
  BY <1>4 DEF Pipeline!PointTime!Extract, Pipeline!PointTime!WindowOf, times
<1>5. CASE times # {}
  <2>1. /\ Pipeline!PointTime!Min(times) \in Int
        /\ Pipeline!PointTime!Max(times) \in Int
    BY <1>3, <1>5 DEF HasBounds, Pipeline!PointTime!Min, Pipeline!PointTime!Max
  <2>2. Pipeline!PointTime!Extract(cloud, field)
          = [start |-> Pipeline!PointTime!Min(times), end |-> Pipeline!PointTime!Max(times)]
    BY <1>5 DEF Pipeline!PointTime!Extract, Pipeline!PointTime!WindowOf, times
  <2> QED  BY <2>1, <2>2 DEF Windows
<1> QED  BY <1>4, <1>5

-----------------------------------------------------------------------------
(* The pipeline *)

Buffers == [samples : Seq(Int), dropped : Nat]

PipelineFields ==
    {"imuTiming", "lidarTiming", "buffer", "previous", "estimate", "inspected",
     "field", "pointTime", "coverage", "transforms"}

IsPipeline(p) ==
    /\ p = [f \in PipelineFields |-> p[f]]
    /\ p.buffer \in Buffers
    /\ p.previous \in Int \cup {NoStamp}
    /\ p.transforms = <<>>

LEMMA AddedSamples ==
    ASSUME NEW buffer \in Buffers, NEW stamp \in Int
    PROVE  LET new == Pipeline!Buffer!Add(buffer, stamp)
           IN  /\ new \in Buffers
               /\ \A i \in 1 .. Len(new.samples) :
                     \/ new.samples[i] = stamp
                     \/ \E j \in 1 .. Len(buffer.samples) : new.samples[i] = buffer.samples[j]
<1>1. Facts!Add(buffer, stamp) = Pipeline!Buffer!Add(buffer, stamp)
  BY DEF Facts!Add, Pipeline!Buffer!Add, Facts!Back, Pipeline!Buffer!Back,
         Facts!PruneOlderThan, Pipeline!Buffer!PruneOlderThan,
         Facts!FirstKept, Pipeline!Buffer!FirstKept
<1>2. LET new == Facts!Add(buffer, stamp)
      IN  /\ new \in Buffers
          /\ \A i \in 1 .. Len(new.samples) :
                \/ new.samples[i] = stamp
                \/ \E j \in 1 .. Len(buffer.samples) : new.samples[i] = buffer.samples[j]
  <2>1. buffer \in [samples : Seq(Int), dropped : Nat] /\ Facts!RetentionAssumption
        /\ Facts!CoverageAssumption
    BY PartsAreFit DEF Buffers
  <2> QED  BY <2>1, Facts!AddHoldsNoOther, ZenonT(60) DEF Buffers
<1> QED  BY <1>1, <1>2, ZenonT(60)

LEMMA ImuObserved ==
    ASSUME NEW p, IsPipeline(p), NEW stamp \in Int
    PROVE  LET q == Pipeline!ObserveImu(p, stamp)
           IN  /\ IsPipeline(q)
               /\ q.buffer = Pipeline!Buffer!Add(p.buffer, stamp)
               /\ q.imuTiming = Pipeline!ImuTracker!Observe(p.imuTiming, stamp)
               /\ q.lidarTiming = p.lidarTiming
               /\ q.estimate = p.estimate /\ q.coverage = p.coverage
<1> DEFINE timing == Pipeline!ImuTracker!Observe(p.imuTiming, stamp)
           buffer == Pipeline!Buffer!Add(p.buffer, stamp)
           q == [p EXCEPT !.imuTiming = timing, !.buffer = buffer]
<1>1. Pipeline!ObserveImu(p, stamp) = q
  BY DEF Pipeline!ObserveImu
<1>2. buffer \in Buffers
  BY AddedSamples DEF IsPipeline
<1> HIDE DEF timing, buffer
<1>3. /\ q.buffer = buffer /\ q.previous = p.previous /\ q.transforms = p.transforms
      /\ q.imuTiming = timing /\ q.lidarTiming = p.lidarTiming
      /\ q.estimate = p.estimate /\ q.coverage = p.coverage
      /\ q = [f \in PipelineFields |-> q[f]]
  BY DEF IsPipeline, PipelineFields
<1> QED  BY <1>1, <1>2, <1>3 DEF IsPipeline, buffer, timing

LEMMA WindowsConsumed ==
    ASSUME NEW p, IsPipeline(p)
    PROVE  LET q == Pipeline!ConsumeWindows(p)
           IN  /\ IsPipeline(q)
               /\ q.buffer = p.buffer
               /\ q.imuTiming = Pipeline!ImuTracker!ResetWindow(p.imuTiming)
               /\ q.lidarTiming = Pipeline!LidarTracker!ResetWindow(p.lidarTiming)
               /\ q.estimate = p.estimate /\ q.coverage = p.coverage
<1> DEFINE imu == Pipeline!ImuTracker!ResetWindow(p.imuTiming)
           lidar == Pipeline!LidarTracker!ResetWindow(p.lidarTiming)
           q == [p EXCEPT !.imuTiming = imu, !.lidarTiming = lidar]
<1>1. Pipeline!ConsumeWindows(p) = q
  BY DEF Pipeline!ConsumeWindows
<1> HIDE DEF imu, lidar
<1>2. /\ q.buffer = p.buffer /\ q.previous = p.previous /\ q.transforms = p.transforms
      /\ q.imuTiming = imu /\ q.lidarTiming = lidar
      /\ q.estimate = p.estimate /\ q.coverage = p.coverage
      /\ q = [f \in PipelineFields |-> q[f]]
  BY DEF IsPipeline, PipelineFields
<1> QED  BY <1>1, <1>2 DEF IsPipeline, imu, lidar

\* A cloud gives an estimate, and a verdict about its window on the samples in
\* the buffer.
LEMMA CloudObserved ==
    ASSUME NEW p, IsPipeline(p), NEW cloud \in Clouds
    PROVE  LET q == Pipeline!ObserveLidar(p, cloud, NoScan)
           IN  /\ IsPipeline(q)
               /\ q.buffer = p.buffer
               /\ q.imuTiming = p.imuTiming
               /\ q.lidarTiming = Pipeline!LidarTracker!Observe(p.lidarTiming, cloud.header)
               /\ q.estimate \in Estimates
               /\ q.coverage = Pipeline!Coverage!Analyze(q.estimate.window, Pipeline!Stamps(p))
<1> DEFINE a == Pipeline!Inspected(p, cloud)
           b == Pipeline!ObserveScan(a, cloud, NoScan)
           c == Pipeline!ObserveCoverage(b)
           timing == Pipeline!LidarTracker!Observe(p.lidarTiming, cloud.header)
           q == [c EXCEPT !.lidarTiming = Pipeline!LidarTracker!Observe(@, cloud.header),
                          !.previous = cloud.header]
<1>1. cloud.header \in Int
  BY Ros1Assumption
<1>2. /\ IsPipeline(a) /\ a.buffer = p.buffer
      /\ a.imuTiming = p.imuTiming /\ a.lidarTiming = p.lidarTiming
  BY DEF Pipeline!Inspected, IsPipeline, PipelineFields
<1> HIDE DEF a
<1>3. /\ IsPipeline(b) /\ b.buffer = p.buffer /\ b.estimate \in Estimates
      /\ b.imuTiming = p.imuTiming /\ b.lidarTiming = p.lidarTiming
  <2> DEFINE extracted == Pipeline!PointTime!Extract(cloud, a.field)
             estimated == Pipeline!Scan!Estimate(a.previous, cloud.header)
             read == IF extracted # NoScan THEN Pipeline!PointTimeEstimate(extracted)
                                           ELSE estimated
  <2>1. estimated \in Estimates
    BY <1>1, <1>2, HeadersGiveAnEstimate DEF IsPipeline
  <2>2. read \in Estimates
    <3>1. extracted \in {NoScan} \cup Windows
      BY ExtractedWindow
    <3> HIDE DEF extracted, estimated
    <3> QED  BY <2>1, <3>1 DEF Pipeline!PointTimeEstimate, Estimates, Windows
  <2>3. CASE a.field = NoField
    <3>1. b = [a EXCEPT !.estimate = estimated]
      BY <2>3 DEF Pipeline!ObserveScan
    <3> HIDE DEF b, estimated
    <3> QED  BY <1>2, <2>1, <3>1 DEF IsPipeline, PipelineFields
  <2>4. CASE a.field # NoField
    <3>1. b = [a EXCEPT !.estimate = read, !.pointTime.attempted = TRUE,
                        !.pointTime.used = extracted # NoScan]
      BY <2>4 DEF Pipeline!ObserveScan
    <3> HIDE DEF b, read, extracted
    <3> QED  BY <1>2, <2>2, <3>1 DEF IsPipeline, PipelineFields
  <2> QED  BY <2>3, <2>4
<1> HIDE DEF b
<1>4. Pipeline!Stamps(b) = Pipeline!Stamps(p)
  BY <1>3 DEF Pipeline!Stamps
<1>5. /\ IsPipeline(c) /\ c.buffer = p.buffer /\ c.estimate = b.estimate
      /\ c.imuTiming = p.imuTiming /\ c.lidarTiming = p.lidarTiming
      /\ c.coverage = Pipeline!Coverage!Analyze(b.estimate.window, Pipeline!Stamps(p))
  BY <1>3, <1>4 DEF Pipeline!ObserveCoverage, IsPipeline, PipelineFields
<1>6. Pipeline!ObserveLidar(p, cloud, NoScan) = q
  BY DEF Pipeline!ObserveLidar, a, b
<1> HIDE DEF c
<1>7. q = [c EXCEPT !.lidarTiming = timing, !.previous = cloud.header]
  BY <1>5
<1> HIDE DEF q, timing
<1>8. /\ IsPipeline(q) /\ q.buffer = p.buffer /\ q.estimate = c.estimate
      /\ q.imuTiming = c.imuTiming /\ q.lidarTiming = timing
      /\ q.coverage = c.coverage
  BY <1>1, <1>5, <1>7 DEF IsPipeline, PipelineFields
<1> QED  BY <1>3, <1>5, <1>6, <1>8 DEF timing

-----------------------------------------------------------------------------
(* What the timer publishes *)

\* The builder of the pipeline is the one the policy is proved about.
LEMMA SameBuild ==
    ASSUME NEW o PROVE Pipeline!Diagnostics!Build(o) = Decision!Build(o)
<1>1. /\ \A summary, reasons : Pipeline!Diagnostics!TimingIssues(summary, reasons)
                                = Decision!TimingIssues(summary, reasons)
      /\ Pipeline!Diagnostics!ImuTimingFaultReason = Decision!ImuTimingFaultReason
      /\ Pipeline!Diagnostics!LidarTimingFaultReason = Decision!LidarTimingFaultReason
  BY DEF Pipeline!Diagnostics!TimingIssues, Decision!TimingIssues,
         Pipeline!Diagnostics!ImuTimingFaultReason, Decision!ImuTimingFaultReason,
         Pipeline!Diagnostics!LidarTimingFaultReason, Decision!LidarTimingFaultReason
<1>2. Pipeline!Diagnostics!CoverageIssues(o.coverage) = Decision!CoverageIssues(o.coverage)
  BY DEF Pipeline!Diagnostics!CoverageIssues, Decision!CoverageIssues,
         Pipeline!Diagnostics!NoCoverage, Decision!NoCoverage,
         Pipeline!Diagnostics!IssueIf, Decision!IssueIf
<1>3. Pipeline!Diagnostics!PointTimeIssues(o.pointTime) = Decision!PointTimeIssues(o.pointTime)
  BY DEF Pipeline!Diagnostics!PointTimeIssues, Decision!PointTimeIssues,
         Pipeline!Diagnostics!IssueIf, Decision!IssueIf
<1>4. Pipeline!Diagnostics!WindowIssues(o.confidence) = Decision!WindowIssues(o.confidence)
  BY DEF Pipeline!Diagnostics!WindowIssues, Decision!WindowIssues,
         Pipeline!Diagnostics!IssueIf, Decision!IssueIf
<1>5. Pipeline!Diagnostics!TransformIssues(o.transforms) = Decision!TransformIssues(o.transforms)
  BY DEF Pipeline!Diagnostics!TransformIssues, Decision!TransformIssues,
         Pipeline!Diagnostics!Selected, Decision!Selected, Pipeline!Diagnostics!Nth, Decision!Nth,
         Pipeline!Diagnostics!TransformIssue, Decision!TransformIssue,
         Pipeline!Diagnostics!TransformHealth, Decision!TransformHealth,
         Pipeline!Diagnostics!TransformFaultReason, Decision!TransformFaultReason,
         Pipeline!Diagnostics!Cardinality, Decision!Cardinality
<1>6. Pipeline!Diagnostics!Issues(o) = Decision!Issues(o)
  BY <1>1, <1>2, <1>3, <1>4, <1>5 DEF Pipeline!Diagnostics!Issues, Decision!Issues
<1> QED  BY <1>6 DEF Pipeline!Diagnostics!Build, Decision!Build,
                     Pipeline!Diagnostics!Worst, Decision!Worst


Shown == Pipeline!Observation(pipeline)

LEMMA ShownIsAnObservation ==
    ASSUME pipeline.transforms = <<>>
    PROVE  /\ Decision!ObservationAssumption /\ Decision!EvidenceAssumption
           /\ Decision!IsObservation(Shown)
           /\ Shown.imuTiming = Pipeline!ImuTracker!EvaluateHealth(pipeline.imuTiming)
           /\ Shown.lidarTiming = Pipeline!LidarTracker!EvaluateHealth(pipeline.lidarTiming)
           /\ Shown.coverage = pipeline.coverage
           /\ Shown.transforms = <<>>
<1>1. Decision!ObservationAssumption /\ Decision!EvidenceAssumption
  <2>1. {"ok", "jitter_suspicious", "jitter_high", "stream_gap", "message_reordering_detected"}
            \subseteq {"ok"} \cup DOMAIN Decision!ImuTimingFaultReason
    BY DEF Decision!ImuTimingFaultReason
  <2>2. IsFiniteSet({}) /\ DOMAIN <<>> = {}
    BY FS_EmptySet
  <2>3. Decision!IsFiniteSet(DOMAIN <<>>)
    BY <2>2 DEF IsFiniteSet, Decision!IsFiniteSet
  <2> QED  BY <2>1, <2>2, <2>3 DEF Decision!ObservationAssumption, Decision!EvidenceAssumption
<1>2. \A t : /\ Pipeline!ImuTracker!EvaluateHealth(t) \in Decision!TimingSummaries
             /\ Pipeline!LidarTracker!EvaluateHealth(t) \in Decision!TimingSummaries
  BY DEF Pipeline!ImuTracker!EvaluateHealth, Pipeline!LidarTracker!EvaluateHealth,
         Decision!TimingSummaries, Decision!TimingSummary
<1>3. /\ Shown.imuTiming = Pipeline!ImuTracker!EvaluateHealth(pipeline.imuTiming)
      /\ Shown.lidarTiming = Pipeline!LidarTracker!EvaluateHealth(pipeline.lidarTiming)
      /\ Shown.coverage = pipeline.coverage
      /\ Shown.transforms = <<>>
  BY DEF Shown, Pipeline!Observation
<1> QED  BY <1>1, <1>2, <1>3 DEF Decision!IsObservation

\* The message of the timer is decided by the snapshot, and speaks of the last
\* estimate.
LEMMA TimerPublishes ==
    ASSUME OnTimer
    PROVE  /\ published'.allowed => Decision!MapUpdateDecision(Decision!Build(Shown)).allowed
           /\ published'.reasons = Decision!Raised(Decision!Build(Shown).issues)
           /\ published'.scan = pipeline.estimate
<1> DEFINE snapshot == Decision!Build(Shown)
<1>1. Pipeline!BuildLatestDiagnosticSnapshot(pipeline) = snapshot
  BY SameBuild DEF Pipeline!BuildLatestDiagnosticSnapshot, Shown
<1> HIDE DEF snapshot
<1>2. Reasons(snapshot) = Decision!Raised(snapshot.issues)
  BY DEF Reasons, Decision!Raised
<1>3. Decision!HasHardFusionBlockingIssue(snapshot)
          <=> Reasons(snapshot) \cap Policy!HardFusionBlockingReasons # {}
  <2>1. Policy!HardFusionBlockingReasons = Decision!HardFusionBlockingReasons
    BY DEF Policy!HardFusionBlockingReasons, Decision!HardFusionBlockingReasons
  <2> QED  BY <2>1 DEF Reasons, Decision!HasHardFusionBlockingIssue
<1>4. \A status, blocker : Policy!DecideMapUpdate(status, blocker).allowed
                             <=> Decision!DecideMapUpdate(status, blocker).allowed
  BY DEF Policy!DecideMapUpdate, Decision!DecideMapUpdate
<1>5. /\ published'.allowed
           = Policy!DecideMapUpdate(snapshot.status,
                Reasons(snapshot) \cap Policy!HardFusionBlockingReasons # {}).allowed
      /\ published'.reasons = Reasons(snapshot)
      /\ published'.scan = pipeline.estimate
  BY <1>1 DEF OnTimer
<1>6. published'.allowed => Decision!MapUpdateDecision(snapshot).allowed
  BY <1>3, <1>4, <1>5 DEF Decision!MapUpdateDecision, Decision!DecideMapUpdate,
                          Policy!DecideMapUpdate
<1> QED  BY <1>2, <1>5, <1>6 DEF snapshot

\* Which reasons the timing of each stream raises: a tracker's, and no other's.
LEMMA TimingIsPublished ==
    ASSUME pipeline.transforms = <<>>, NEW R, R = Decision!Raised(Decision!Build(Shown).issues),
           NEW imu, imu = pipeline.imuTiming, NEW lidar, lidar = pipeline.lidarTiming
    PROVE  /\ "imu_stream_timing_reordered" \in R <=> imu.windowReordered > 0
           /\ "imu_stream_timing_gap" \in R <=> imu.windowGaps > 0 /\ ~ (imu.windowReordered > 0)
           /\ "lidar_stream_timing_reordered" \in R <=> lidar.windowReordered > 0
           /\ "lidar_stream_timing_gap" \in R
                <=> lidar.windowGaps > 0 /\ ~ (lidar.windowReordered > 0)
<1> DEFINE I == Decision!Raised(Decision!TimingIssues(Shown.imuTiming,
                                                      Decision!ImuTimingFaultReason))
           L == Decision!Raised(Decision!TimingIssues(Shown.lidarTiming,
                                                      Decision!LidarTimingFaultReason))
           S == Decision!ScanReasons(Shown)
<1>1. R = I \cup L \cup S
  BY ShownIsAnObservation, Decision!BuildDecidesByReasons, Decision!IssuesAre
  DEF Decision!ScanReasons
<1>2. S \cap {"imu_stream_timing_reordered", "imu_stream_timing_gap",
              "lidar_stream_timing_reordered", "lidar_stream_timing_gap"} = {}
  BY ShownIsAnObservation, Decision!ScanReasonsAreNotTiming DEF Decision!TimingFaults
<1>3. /\ I = IF Shown.imuTiming.health = "OK" THEN {}
             ELSE {Decision!ImuTimingFaultReason[Shown.imuTiming.reason]}
      /\ L = IF Shown.lidarTiming.health = "OK" THEN {}
             ELSE {Decision!LidarTimingFaultReason[Shown.lidarTiming.reason]}
  BY ShownIsAnObservation, Decision!TimingReason
<1> HIDE DEF I, L, S
<1>4. /\ Shown.imuTiming = Pipeline!ImuTracker!EvaluateHealth(imu)
      /\ Shown.lidarTiming = Pipeline!LidarTracker!EvaluateHealth(lidar)
  BY ShownIsAnObservation
<1>5. /\ "imu_stream_timing_reordered" \in I <=> imu.windowReordered > 0
      /\ "imu_stream_timing_gap" \in I <=> imu.windowGaps > 0 /\ ~ (imu.windowReordered > 0)
      /\ "lidar_stream_timing_reordered" \notin I /\ "lidar_stream_timing_gap" \notin I
  BY <1>3, <1>4 DEF Pipeline!ImuTracker!EvaluateHealth, Decision!ImuTimingFaultReason
<1>6. /\ "lidar_stream_timing_reordered" \in L <=> lidar.windowReordered > 0
      /\ "lidar_stream_timing_gap" \in L
           <=> lidar.windowGaps > 0 /\ ~ (lidar.windowReordered > 0)
      /\ "imu_stream_timing_reordered" \notin L /\ "imu_stream_timing_gap" \notin L
  BY <1>3, <1>4 DEF Pipeline!LidarTracker!EvaluateHealth, Decision!LidarTimingFaultReason
<1> QED  BY <1>1, <1>2, <1>5, <1>6

-----------------------------------------------------------------------------
(* The trackers are those of StreamTimingWindows *)

\* A fault raises the lifetime total and the window's count together.
LEMMA BothCount ==
    ASSUME NEW total \in Nat, NEW window \in Nat, NEW newTotal, NEW newWindow,
           \/ newTotal = total /\ newWindow = window
           \/ newTotal = total + 1 /\ newWindow = window + 1
    PROVE  newTotal - newWindow = total - window
  OBVIOUS

LEMMA ImuWindowsObserve ==
    ASSUME ImuWindows!IInv, NEW stamp \in ImuStamps, Len(imuLog) < MaxImu, reportedImu' = reportedImu,
           imuLog' = Append(imuLog, stamp),
           pipeline'.imuTiming = Pipeline!ImuTracker!Observe(pipeline.imuTiming, stamp)
    PROVE  ImuWindows!IInv'
<1>1. pipeline'.imuTiming = ImuWindows!Observe(pipeline.imuTiming, stamp)
  BY DEF Pipeline!ImuTracker!Observe, ImuWindows!Observe,
         Pipeline!ImuTracker!IsReordered, ImuWindows!IsReordered,
         Pipeline!ImuTracker!OnReordered, ImuWindows!OnReordered,
         Pipeline!ImuTracker!OnGap, ImuWindows!OnGap, Pipeline!ImuTracker!OnPeriod, ImuWindows!OnPeriod,
         Pipeline!ImuTracker!Larger, ImuWindows!Larger, Pipeline!ImuTracker!Abs, ImuWindows!Abs
<1>2. pipeline.imuTiming \in ImuWindows!Trackers /\ stamp \in Int
  BY TrackersAreFit DEF ImuWindows!IInv, ImuWindows!TypeOK, ImuWindows!WindowsAssumption
<1>3. Before(pipeline'.imuTiming) = Before(pipeline.imuTiming)
  <2> DEFINE t == pipeline.imuTiming
             u == pipeline'.imuTiming
  <2>1. /\ t.reordered \in Nat /\ t.windowReordered \in Nat
        /\ t.gaps \in Nat /\ t.windowGaps \in Nat
    BY <1>2 DEF ImuWindows!Trackers
  <2>2. /\ \/ u.reordered = t.reordered /\ u.windowReordered = t.windowReordered
           \/ u.reordered = t.reordered + 1 /\ u.windowReordered = t.windowReordered + 1
        /\ \/ u.gaps = t.gaps /\ u.windowGaps = t.windowGaps
           \/ u.gaps = t.gaps + 1 /\ u.windowGaps = t.windowGaps + 1
    <3>1. CASE t.previousStamp = NoStamp
      <4>1. u = [t EXCEPT !.previousStamp = stamp, !.count = @ + 1, !.windowCount = @ + 1]
        BY <1>1, <1>2, <3>1, TrackersAreFit, ImuWindows!ObserveFirst
      <4> QED  BY <1>2, <4>1 DEF ImuWindows!Trackers
    <3>2. CASE t.previousStamp # NoStamp
      <4>1. t.previousStamp \in Int
        BY <1>2, <3>2 DEF ImuWindows!Trackers
      <4>2. PICK period \in Int : period = stamp - t.previousStamp
        BY <1>2, <4>1
      <4>3. ImuGapThreshold \in Nat
        BY TrackersAreFit DEF ImuWindows!TrackerAssumption
      <4> QED  BY <1>1, <1>2, <4>1, <4>2, TrackersAreFit, ImuWindows!ObserveNext
    <3> QED  BY <3>1, <3>2
  <2> HIDE DEF t, u
  <2>3. /\ u.reordered - u.windowReordered = t.reordered - t.windowReordered
        /\ u.gaps - u.windowGaps = t.gaps - t.windowGaps
    BY <2>1, <2>2, BothCount
  <2>4. Before(u) = Before(t)
    BY <2>3 DEF Before
  <2> QED  BY <2>4 DEF t, u
<1>4. ImuWindows!ObserveMessage(stamp)
  BY <1>1, <1>3 DEF ImuWindows!ObserveMessage
<1> QED  BY <1>4, TrackersAreFit, ImuWindows!NextInv DEF ImuWindows!Next

LEMMA ImuWindowsConsume ==
    ASSUME ImuWindows!IInv, reportedImu' = Len(imuLog), imuLog' = imuLog,
           pipeline'.imuTiming = Pipeline!ImuTracker!ResetWindow(pipeline.imuTiming)
    PROVE  ImuWindows!IInv'
<1> DEFINE t == pipeline.imuTiming
           u == pipeline'.imuTiming
<1>1. u = ImuWindows!ResetWindow(t)
  BY DEF Pipeline!ImuTracker!ResetWindow, ImuWindows!ResetWindow
<1>2. t \in ImuWindows!Trackers
  BY DEF ImuWindows!IInv, ImuWindows!TypeOK
<1>3. /\ t.reordered \in Nat /\ t.windowReordered \in Nat
      /\ t.gaps \in Nat /\ t.windowGaps \in Nat
      /\ u.reordered = t.reordered /\ u.windowReordered = 0
      /\ u.gaps = t.gaps /\ u.windowGaps = 0
  BY <1>1, <1>2 DEF ImuWindows!Trackers, ImuWindows!ResetWindow
<1>4. Before(u) = [reordered |-> Before(t).reordered + t.windowReordered,
                   gaps      |-> Before(t).gaps + t.windowGaps]
  <2> HIDE DEF t, u
  <2> QED  BY <1>3 DEF Before
<1>5. ImuWindows!ConsumeWindowSummary
  BY <1>1, <1>4 DEF ImuWindows!ConsumeWindowSummary
<1> QED  BY <1>5, TrackersAreFit, ImuWindows!NextInv DEF ImuWindows!Next

LEMMA ImuWindowsStay ==
    ASSUME ImuWindows!IInv, reportedImu' = reportedImu, imuLog' = imuLog,
           pipeline'.imuTiming = pipeline.imuTiming
    PROVE  ImuWindows!IInv'
<1>1. UNCHANGED ImuWindows!vars
  BY DEF ImuWindows!vars, Before
<1> QED  BY <1>1, TrackersAreFit, ImuWindows!NextInv

LEMMA CloudWindowsObserve ==
    ASSUME CloudWindows!IInv, NEW stamp \in Headers, Len(headers) < MaxClouds, reportedClouds' = reportedClouds,
           headers' = Append(headers, stamp),
           pipeline'.lidarTiming = Pipeline!LidarTracker!Observe(pipeline.lidarTiming, stamp)
    PROVE  CloudWindows!IInv'
<1>1. pipeline'.lidarTiming = CloudWindows!Observe(pipeline.lidarTiming, stamp)
  BY DEF Pipeline!LidarTracker!Observe, CloudWindows!Observe,
         Pipeline!LidarTracker!IsReordered, CloudWindows!IsReordered,
         Pipeline!LidarTracker!OnReordered, CloudWindows!OnReordered,
         Pipeline!LidarTracker!OnGap, CloudWindows!OnGap, Pipeline!LidarTracker!OnPeriod, CloudWindows!OnPeriod,
         Pipeline!LidarTracker!Larger, CloudWindows!Larger, Pipeline!LidarTracker!Abs, CloudWindows!Abs
<1>2. pipeline.lidarTiming \in CloudWindows!Trackers /\ stamp \in Int
  BY TrackersAreFit DEF CloudWindows!IInv, CloudWindows!TypeOK, CloudWindows!WindowsAssumption
<1>3. Before(pipeline'.lidarTiming) = Before(pipeline.lidarTiming)
  <2> DEFINE t == pipeline.lidarTiming
             u == pipeline'.lidarTiming
  <2>1. /\ t.reordered \in Nat /\ t.windowReordered \in Nat
        /\ t.gaps \in Nat /\ t.windowGaps \in Nat
    BY <1>2 DEF CloudWindows!Trackers
  <2>2. /\ \/ u.reordered = t.reordered /\ u.windowReordered = t.windowReordered
           \/ u.reordered = t.reordered + 1 /\ u.windowReordered = t.windowReordered + 1
        /\ \/ u.gaps = t.gaps /\ u.windowGaps = t.windowGaps
           \/ u.gaps = t.gaps + 1 /\ u.windowGaps = t.windowGaps + 1
    <3>1. CASE t.previousStamp = NoStamp
      <4>1. u = [t EXCEPT !.previousStamp = stamp, !.count = @ + 1, !.windowCount = @ + 1]
        BY <1>1, <1>2, <3>1, TrackersAreFit, CloudWindows!ObserveFirst
      <4> QED  BY <1>2, <4>1 DEF CloudWindows!Trackers
    <3>2. CASE t.previousStamp # NoStamp
      <4>1. t.previousStamp \in Int
        BY <1>2, <3>2 DEF CloudWindows!Trackers
      <4>2. PICK period \in Int : period = stamp - t.previousStamp
        BY <1>2, <4>1
      <4>3. LidarGapThreshold \in Nat
        BY TrackersAreFit DEF CloudWindows!TrackerAssumption
      <4> QED  BY <1>1, <1>2, <4>1, <4>2, TrackersAreFit, CloudWindows!ObserveNext
    <3> QED  BY <3>1, <3>2
  <2> HIDE DEF t, u
  <2>3. /\ u.reordered - u.windowReordered = t.reordered - t.windowReordered
        /\ u.gaps - u.windowGaps = t.gaps - t.windowGaps
    BY <2>1, <2>2, BothCount
  <2>4. Before(u) = Before(t)
    BY <2>3 DEF Before
  <2> QED  BY <2>4 DEF t, u
<1>4. CloudWindows!ObserveMessage(stamp)
  BY <1>1, <1>3 DEF CloudWindows!ObserveMessage
<1> QED  BY <1>4, TrackersAreFit, CloudWindows!NextInv DEF CloudWindows!Next

LEMMA CloudWindowsConsume ==
    ASSUME CloudWindows!IInv, reportedClouds' = Len(headers), headers' = headers,
           pipeline'.lidarTiming = Pipeline!LidarTracker!ResetWindow(pipeline.lidarTiming)
    PROVE  CloudWindows!IInv'
<1> DEFINE t == pipeline.lidarTiming
           u == pipeline'.lidarTiming
<1>1. u = CloudWindows!ResetWindow(t)
  BY DEF Pipeline!LidarTracker!ResetWindow, CloudWindows!ResetWindow
<1>2. t \in CloudWindows!Trackers
  BY DEF CloudWindows!IInv, CloudWindows!TypeOK
<1>3. /\ t.reordered \in Nat /\ t.windowReordered \in Nat
      /\ t.gaps \in Nat /\ t.windowGaps \in Nat
      /\ u.reordered = t.reordered /\ u.windowReordered = 0
      /\ u.gaps = t.gaps /\ u.windowGaps = 0
  BY <1>1, <1>2 DEF CloudWindows!Trackers, CloudWindows!ResetWindow
<1>4. Before(u) = [reordered |-> Before(t).reordered + t.windowReordered,
                   gaps      |-> Before(t).gaps + t.windowGaps]
  <2> HIDE DEF t, u
  <2> QED  BY <1>3 DEF Before
<1>5. CloudWindows!ConsumeWindowSummary
  BY <1>1, <1>4 DEF CloudWindows!ConsumeWindowSummary
<1> QED  BY <1>5, TrackersAreFit, CloudWindows!NextInv DEF CloudWindows!Next

LEMMA CloudWindowsStay ==
    ASSUME CloudWindows!IInv, reportedClouds' = reportedClouds, headers' = headers,
           pipeline'.lidarTiming = pipeline.lidarTiming
    PROVE  CloudWindows!IInv'
<1>1. UNCHANGED CloudWindows!vars
  BY DEF CloudWindows!vars, Before
<1> QED  BY <1>1, TrackersAreFit, CloudWindows!NextInv

-----------------------------------------------------------------------------
(* The invariant *)

\* The buffer holds nothing that did not arrive, so that the verdict on a scan
\* is about messages of the log.
JudgedInv ==
    /\ IsPipeline(pipeline)
    /\ \A k \in 1 .. Len(pipeline.buffer.samples) :
          \E i \in 1 .. Len(imuLog) : pipeline.buffer.samples[k] = imuLog[i]
    /\ pipeline.coverage # "no_coverage" => pipeline.estimate \in Estimates
    /\ pipeline.coverage = "ok" => IsCovered(imuLog, pipeline.estimate.window, Len(imuLog))

PublishedInv ==
    published # NoMessage /\ published.allowed =>
        /\ published.scan \in Estimates
        /\ IsCovered(imuLog, published.scan.window, reportedImu)

MonitorInv ==
    /\ ImuWindows!IInv /\ CloudWindows!IInv
    /\ JudgedInv
    /\ PublishedInv

LEMMA LogsAre ==
    ASSUME ImuWindows!IInv
    PROVE  /\ imuLog \in Seq(ImuStamps) /\ Len(imuLog) \in Nat
           /\ reportedImu \in 0 .. Len(imuLog)
<1>1. imuLog \in Seq(ImuStamps) /\ reportedImu \in 0 .. Len(imuLog)
  BY DEF ImuWindows!IInv, ImuWindows!TypeOK
<1> QED  BY <1>1, LenProperties

LEMMA InitHolds == Init => MonitorInv
<1> SUFFICES ASSUME Init PROVE MonitorInv
  OBVIOUS
<1>1. /\ pipeline = Pipeline!NewPipeline /\ imuLog = <<>> /\ headers = <<>>
      /\ reportedImu = 0 /\ reportedClouds = 0 /\ published = NoMessage
  BY DEF Init
<1>2. ImuWindows!IInv
  <2>1. pipeline.imuTiming = ImuWindows!NewTracker
    BY <1>1 DEF Pipeline!NewPipeline, Pipeline!ImuTracker!NewTracker, ImuWindows!NewTracker
  <2>2. Before(pipeline.imuTiming) = [reordered |-> 0, gaps |-> 0]
    BY <2>1 DEF Before, ImuWindows!NewTracker
  <2> QED  BY <1>1, <2>1, <2>2, TrackersAreFit, ImuWindows!InitInv DEF ImuWindows!Init
<1>3. CloudWindows!IInv
  <2>1. pipeline.lidarTiming = CloudWindows!NewTracker
    BY <1>1 DEF Pipeline!NewPipeline, Pipeline!LidarTracker!NewTracker, CloudWindows!NewTracker
  <2>2. Before(pipeline.lidarTiming) = [reordered |-> 0, gaps |-> 0]
    BY <2>1 DEF Before, CloudWindows!NewTracker
  <2> QED  BY <1>1, <2>1, <2>2, TrackersAreFit, CloudWindows!InitInv DEF CloudWindows!Init
<1>4. JudgedInv
  <2>1. /\ pipeline.buffer = [samples |-> <<>>, dropped |-> 0]
        /\ pipeline.previous = NoStamp /\ pipeline.transforms = <<>>
        /\ pipeline.coverage = "no_coverage"
        /\ pipeline = [f \in PipelineFields |-> pipeline[f]]
    BY <1>1 DEF Pipeline!NewPipeline, Pipeline!Buffer!NewBuffer, Pipeline!Diagnostics!NoCoverage,
                PipelineFields
  <2>2. pipeline.buffer \in Buffers /\ Len(pipeline.buffer.samples) = 0
    BY <2>1 DEF Buffers
  <2> QED  BY <2>1, <2>2 DEF JudgedInv, IsPipeline
<1> QED  BY <1>1, <1>2, <1>3, <1>4 DEF MonitorInv, PublishedInv

LEMMA ImuStep ==
    ASSUME MonitorInv, NEW stamp \in ImuStamps, OnImuReceived(stamp) PROVE MonitorInv'
<1>1. /\ IsPipeline(pipeline) /\ stamp \in Int
      /\ pipeline' = Pipeline!ObserveImu(pipeline, stamp)
      /\ imuLog' = Append(imuLog, stamp)
      /\ headers' = headers /\ published' = published
      /\ reportedImu' = reportedImu /\ reportedClouds' = reportedClouds
      /\ Len(imuLog) < MaxImu
  BY Ros1Assumption DEF MonitorInv, JudgedInv, OnImuReceived
<1>2. /\ IsPipeline(pipeline')
      /\ pipeline'.buffer = Pipeline!Buffer!Add(pipeline.buffer, stamp)
      /\ pipeline'.imuTiming = Pipeline!ImuTracker!Observe(pipeline.imuTiming, stamp)
      /\ pipeline'.lidarTiming = pipeline.lidarTiming
      /\ pipeline'.estimate = pipeline.estimate /\ pipeline'.coverage = pipeline.coverage
  BY <1>1, ImuObserved
<1>3. ImuWindows!IInv' /\ CloudWindows!IInv'
  BY <1>1, <1>2, ImuWindowsObserve, CloudWindowsStay DEF MonitorInv
<1>4. /\ Len(imuLog) \in Nat /\ Len(imuLog') = Len(imuLog) + 1
      /\ \A i \in 1 .. Len(imuLog) : imuLog'[i] = imuLog[i]
      /\ imuLog'[Len(imuLog) + 1] = stamp
      /\ reportedImu \in 0 .. Len(imuLog)
  BY <1>1, LogsAre, AppendProperties DEF MonitorInv
<1>5. JudgedInv'
  <2>1. ASSUME NEW k \in 1 .. Len(pipeline'.buffer.samples)
        PROVE  \E i \in 1 .. Len(imuLog') : pipeline'.buffer.samples[k] = imuLog'[i]
    <3>1. \/ pipeline'.buffer.samples[k] = stamp
          \/ \E j \in 1 .. Len(pipeline.buffer.samples) :
                pipeline'.buffer.samples[k] = pipeline.buffer.samples[j]
      <4>1. pipeline.buffer \in Buffers
        BY <1>1 DEF IsPipeline
      <4>2. k \in 1 .. Len(Pipeline!Buffer!Add(pipeline.buffer, stamp).samples)
        BY <1>2
      <4>3. \/ Pipeline!Buffer!Add(pipeline.buffer, stamp).samples[k] = stamp
            \/ \E j \in 1 .. Len(pipeline.buffer.samples) :
                  Pipeline!Buffer!Add(pipeline.buffer, stamp).samples[k]
                      = pipeline.buffer.samples[j]
        BY <1>1, <4>1, <4>2, AddedSamples
      <4> QED  BY <1>2, <4>3
    <3>2. Len(imuLog) + 1 \in 1 .. Len(imuLog') /\ 1 .. Len(imuLog) \subseteq 1 .. Len(imuLog')
      BY <1>4
    <3> QED  BY <1>4, <3>1, <3>2 DEF MonitorInv, JudgedInv
  <2>2. ASSUME pipeline'.coverage = "ok"
        PROVE  IsCovered(imuLog', pipeline'.estimate.window, Len(imuLog'))
    <3>1. Len(imuLog') \in Nat /\ Len(imuLog) <= Len(imuLog')
      BY <1>4
    <3>2. IsCovered(imuLog, pipeline.estimate.window, Len(imuLog))
      BY <1>2, <2>2 DEF MonitorInv, JudgedInv
    <3>3. ASSUME NEW window, IsCovered(imuLog, window, Len(imuLog))
          PROVE  IsCovered(imuLog', window, Len(imuLog'))
      BY <1>4, <3>1, <3>3, CoverStays
    <3> QED  BY <1>2, <3>2, <3>3
  <2> QED  BY <1>2, <2>1, <2>2 DEF MonitorInv, JudgedInv
<1>6. PublishedInv'
  <2>1. /\ reportedImu \in Nat /\ reportedImu <= reportedImu
        /\ \A i \in 1 .. reportedImu : imuLog'[i] = imuLog[i]
    BY <1>4
  <2>2. ASSUME NEW window, IsCovered(imuLog, window, reportedImu)
        PROVE  IsCovered(imuLog', window, reportedImu)
    BY <2>1, <2>2, CoverStays
  <2> QED  BY <1>1, <2>2 DEF MonitorInv, PublishedInv
<1> QED  BY <1>3, <1>5, <1>6 DEF MonitorInv

LEMMA CloudStep ==
    ASSUME MonitorInv, NEW cloud \in Clouds, OnLidarReceived(cloud) PROVE MonitorInv'
<1>1. /\ IsPipeline(pipeline) /\ cloud.header \in Headers
      /\ pipeline' = Pipeline!ObserveLidar(pipeline, cloud, NoScan)
      /\ headers' = Append(headers, cloud.header) /\ Len(headers) < MaxClouds
      /\ imuLog' = imuLog /\ published' = published
      /\ reportedImu' = reportedImu /\ reportedClouds' = reportedClouds
  BY DEF MonitorInv, JudgedInv, OnLidarReceived, Headers
<1>2. /\ IsPipeline(pipeline')
      /\ pipeline'.buffer = pipeline.buffer
      /\ pipeline'.imuTiming = pipeline.imuTiming
      /\ pipeline'.lidarTiming
           = Pipeline!LidarTracker!Observe(pipeline.lidarTiming, cloud.header)
      /\ pipeline'.estimate \in Estimates
      /\ pipeline'.coverage
           = Pipeline!Coverage!Analyze(pipeline'.estimate.window, Pipeline!Stamps(pipeline))
  BY <1>1, CloudObserved
<1>3. ImuWindows!IInv' /\ CloudWindows!IInv'
  BY <1>1, <1>2, ImuWindowsStay, CloudWindowsObserve DEF MonitorInv
<1>4. JudgedInv'
  <2> DEFINE window == pipeline'.estimate.window
             stamps == Pipeline!Stamps(pipeline)
  <2>1. ASSUME pipeline'.coverage = "ok" PROVE IsCovered(imuLog', window, Len(imuLog'))
    <3>1. \A s \in stamps : \E i \in 1 .. Len(imuLog) : s = imuLog[i]
      <4>1. DOMAIN pipeline.buffer.samples = 1 .. Len(pipeline.buffer.samples)
        BY <1>1, LenProperties DEF IsPipeline, Buffers
      <4> QED  BY <4>1 DEF Pipeline!Stamps, MonitorInv, JudgedInv
    <3>2. stamps \in SUBSET Int
      BY <1>1 DEF Pipeline!Stamps, IsPipeline, Buffers
    <3>3. window \in Windows
      BY <1>2 DEF Estimates, Windows
    <3> HIDE DEF window, stamps
    <3>4. ASSUME NEW t \in window.start + MaxMissingPrefix .. window.end - MaxMissingSuffix
          PROVE  \E i, j \in 1 .. Len(imuLog) : /\ imuLog[i] <= t /\ t <= imuLog[j]
                                                /\ imuLog[j] - imuLog[i] <= MaxInternalGap
      <4>1. Pipeline!Coverage!Analyze(window, stamps) = "ok"
        BY <1>2, <2>1 DEF window, stamps
      <4>2. PICK a \in stamps, b \in stamps : a <= t /\ t <= b /\ b - a <= MaxInternalGap
        BY <3>2, <3>3, <3>4, <4>1, OkIsInterpolable
      <4> QED  BY <3>1, <4>2
    <3> QED  BY <1>1, <3>4 DEF IsCovered
  <2> HIDE DEF window
  <2> QED  BY <1>1, <1>2, <2>1 DEF MonitorInv, JudgedInv, window
<1> QED  BY <1>1, <1>3, <1>4 DEF MonitorInv, PublishedInv

LEMMA TimerStep == ASSUME MonitorInv, OnTimer PROVE MonitorInv'
<1>1. /\ IsPipeline(pipeline) /\ pipeline' = Pipeline!ConsumeWindows(pipeline)
      /\ imuLog' = imuLog /\ headers' = headers
      /\ reportedImu' = Len(imuLog) /\ reportedClouds' = Len(headers)
  BY DEF MonitorInv, JudgedInv, OnTimer
<1>2. /\ IsPipeline(pipeline')
      /\ pipeline'.buffer = pipeline.buffer
      /\ pipeline'.imuTiming = Pipeline!ImuTracker!ResetWindow(pipeline.imuTiming)
      /\ pipeline'.lidarTiming = Pipeline!LidarTracker!ResetWindow(pipeline.lidarTiming)
      /\ pipeline'.estimate = pipeline.estimate /\ pipeline'.coverage = pipeline.coverage
  BY <1>1, WindowsConsumed
<1>3. ImuWindows!IInv' /\ CloudWindows!IInv'
  BY <1>1, <1>2, ImuWindowsConsume, CloudWindowsConsume DEF MonitorInv
<1>4. JudgedInv'
  BY <1>1, <1>2 DEF MonitorInv, JudgedInv
<1>5. PublishedInv'
  <2>1. published'.allowed => Decision!MapUpdateDecision(Decision!Build(Shown)).allowed
        /\ published'.scan = pipeline.estimate
    BY TimerPublishes
  <2>2. pipeline.transforms = <<>>
    BY <1>1 DEF IsPipeline
  <2>3. published'.allowed => pipeline.coverage = "ok"
    BY <2>1, <2>2, ShownIsAnObservation, Decision!AllowedScansAreCovered
  <2> QED  BY <1>1, <2>1, <2>3, TimerPublishes DEF MonitorInv, JudgedInv, PublishedInv
<1> QED  BY <1>3, <1>4, <1>5 DEF MonitorInv

LEMMA MonitorInvHolds == Spec => []MonitorInv
<1>1. ASSUME MonitorInv, [Next]_vars PROVE MonitorInv'
  <2>1. CASE UNCHANGED vars
    <3>1. /\ pipeline' = pipeline /\ imuLog' = imuLog /\ headers' = headers
          /\ published' = published /\ reportedImu' = reportedImu
          /\ reportedClouds' = reportedClouds
      BY <2>1 DEF vars
    <3>2. ImuWindows!IInv' /\ CloudWindows!IInv'
      BY <1>1, <3>1, ImuWindowsStay, CloudWindowsStay DEF MonitorInv
    <3> QED  BY <1>1, <3>1, <3>2 DEF MonitorInv, JudgedInv, PublishedInv
  <2> QED  BY <1>1, <2>1, ImuStep, CloudStep, TimerStep DEF Next
<1> QED  BY <1>1, InitHolds, PTL DEF Spec

-----------------------------------------------------------------------------
(* The properties the run checks *)

\* The latched map_update_allowed speaks of a cloud that was judged, and whose
\* scan lies between IMU samples that had arrived when the timer fired (OnTimer
\* over BuildSnapshot, ImuCoverageAnalyzer and DecideMapUpdate), for every
\* configuration and any order of messages and timers.
THEOREM AllowedScansAreDeskewable == Spec => []AllowedScanIsCovered
<1>1. MonitorInv => AllowedScanIsCovered
  BY Ros1Assumption DEF MonitorInv, PublishedInv, AllowedScanIsCovered, IsCovered
<1> QED  BY <1>1, MonitorInvHolds, PTL

\* What the windows of both trackers count is what happened since the timer.
LEMMA WindowsTell ==
    ASSUME MonitorInv
    PROVE  /\ pipeline.imuTiming.windowReordered > 0
                <=> \E i \in Since(imuLog, reportedImu) : SteppedBack(imuLog, i)
           /\ pipeline.imuTiming.windowGaps > 0
                <=> \E i \in Since(imuLog, reportedImu) : Jumped(imuLog, i, ImuGapThreshold)
           /\ pipeline.lidarTiming.windowReordered > 0
                <=> \E i \in Since(headers, reportedClouds) : SteppedBack(headers, i)
           /\ pipeline.lidarTiming.windowGaps > 0
                <=> \E i \in Since(headers, reportedClouds) :
                       Jumped(headers, i, LidarGapThreshold)
<1>1. ASSUME NEW S \in SUBSET Int, NEW log \in Seq(S), NEW first \in 0 .. Len(log),
             NEW i \in Since(log, first), i > 1
      PROVE  /\ log[i] \in Int /\ log[i - 1] \in Int
             /\ log[i] < log[i - 1] <=> log[i] - log[i - 1] < 0
  <2>1. i \in 1 .. Len(log) /\ i - 1 \in 1 .. Len(log)
    BY <1>1, LenProperties DEF Since
  <2>2. log[i] \in Int /\ log[i - 1] \in Int
    BY <1>1, <2>1, ElementOfSeq
  <2> QED  BY <2>2
<1>2. /\ pipeline.imuTiming.windowReordered > 0
           <=> \E i \in Since(imuLog, reportedImu) : SteppedBack(imuLog, i)
      /\ pipeline.imuTiming.windowGaps > 0
           <=> \E i \in Since(imuLog, reportedImu) : Jumped(imuLog, i, ImuGapThreshold)
  <2>1. imuLog \in Seq(ImuStamps) /\ reportedImu \in 0 .. Len(imuLog)
    BY DEF MonitorInv, ImuWindows!IInv, ImuWindows!TypeOK
  <2>2. /\ pipeline.imuTiming.windowReordered > 0 <=> ImuWindows!ReorderedInWindow
        /\ pipeline.imuTiming.windowGaps > 0 <=> ImuWindows!GapInWindow
    BY DEF MonitorInv, ImuWindows!IInv, ImuWindows!WindowIsCounted
  <2>3. ImuWindows!ReorderedInWindow
          <=> \E i \in Since(imuLog, reportedImu) : SteppedBack(imuLog, i)
    BY <1>1, <2>1, Ros1Assumption
    DEF ImuWindows!ReorderedInWindow, ImuWindows!Window, ImuWindows!Period, Since, SteppedBack
  <2>4. ImuWindows!GapInWindow
          <=> \E i \in Since(imuLog, reportedImu) : Jumped(imuLog, i, ImuGapThreshold)
    BY DEF ImuWindows!GapInWindow, ImuWindows!Window, ImuWindows!Period, Since, Jumped
  <2> QED  BY <2>2, <2>3, <2>4
<1>3. /\ pipeline.lidarTiming.windowReordered > 0
           <=> \E i \in Since(headers, reportedClouds) : SteppedBack(headers, i)
      /\ pipeline.lidarTiming.windowGaps > 0
           <=> \E i \in Since(headers, reportedClouds) : Jumped(headers, i, LidarGapThreshold)
  <2>1. headers \in Seq(Headers) /\ reportedClouds \in 0 .. Len(headers)
    BY DEF MonitorInv, CloudWindows!IInv, CloudWindows!TypeOK
  <2>2. /\ pipeline.lidarTiming.windowReordered > 0 <=> CloudWindows!ReorderedInWindow
        /\ pipeline.lidarTiming.windowGaps > 0 <=> CloudWindows!GapInWindow
    BY DEF MonitorInv, CloudWindows!IInv, CloudWindows!WindowIsCounted
  <2>3. Headers \in SUBSET Int
    BY TrackersAreFit DEF CloudWindows!WindowsAssumption
  <2>4. CloudWindows!ReorderedInWindow
          <=> \E i \in Since(headers, reportedClouds) : SteppedBack(headers, i)
    BY <1>1, <2>1, <2>3
    DEF CloudWindows!ReorderedInWindow, CloudWindows!Window, CloudWindows!Period, Since, SteppedBack
  <2>5. CloudWindows!GapInWindow
          <=> \E i \in Since(headers, reportedClouds) : Jumped(headers, i, LidarGapThreshold)
    BY DEF CloudWindows!GapInWindow, CloudWindows!Window, CloudWindows!Period, Since, Jumped
  <2> QED  BY <2>2, <2>4, <2>5
<1> QED  BY <1>2, <1>3

\* Each timing fault of a stream is published by the first timer after the
\* message that shows it, and by no other (OnTimer over BuildSnapshot, which
\* consumes the windows of both trackers).
THEOREM FaultsArePublishedOnce == Spec => TimingFaultsArePublishedOnce
<1> DEFINE Told ==
        reportedImu' # reportedImu \/ reportedClouds' # reportedClouds =>
        LET imuBack  == \E i \in Since(imuLog, reportedImu) : SteppedBack(imuLog, i)
            imuGap   == \E i \in Since(imuLog, reportedImu) : Jumped(imuLog, i, ImuGapThreshold)
            scanBack == \E i \in Since(headers, reportedClouds) : SteppedBack(headers, i)
            scanGap  == \E i \in Since(headers, reportedClouds) :
                            Jumped(headers, i, LidarGapThreshold)
        IN  /\ imuBack <=> "imu_stream_timing_reordered" \in published'.reasons
            /\ imuGap /\ ~imuBack <=> "imu_stream_timing_gap" \in published'.reasons
            /\ scanBack <=> "lidar_stream_timing_reordered" \in published'.reasons
            /\ scanGap /\ ~scanBack <=> "lidar_stream_timing_gap" \in published'.reasons
<1>1. ASSUME MonitorInv, [Next]_vars PROVE Told
  <2>1. CASE OnTimer
    <3>1. pipeline.transforms = <<>>
      BY <1>1 DEF MonitorInv, JudgedInv, IsPipeline
    <3>2. published'.reasons = Decision!Raised(Decision!Build(Shown).issues)
      BY <2>1, TimerPublishes
    <3>3. /\ "imu_stream_timing_reordered" \in published'.reasons
               <=> pipeline.imuTiming.windowReordered > 0
          /\ "imu_stream_timing_gap" \in published'.reasons
               <=> pipeline.imuTiming.windowGaps > 0 /\ ~ (pipeline.imuTiming.windowReordered > 0)
          /\ "lidar_stream_timing_reordered" \in published'.reasons
               <=> pipeline.lidarTiming.windowReordered > 0
          /\ "lidar_stream_timing_gap" \in published'.reasons
               <=> /\ pipeline.lidarTiming.windowGaps > 0
                   /\ ~ (pipeline.lidarTiming.windowReordered > 0)
      BY <3>1, <3>2, TimingIsPublished
    <3> QED  BY <1>1, <3>3, WindowsTell
  <2>2. CASE reportedImu' = reportedImu /\ reportedClouds' = reportedClouds
    BY <2>2
  <2> QED  BY <1>1, <2>1, <2>2 DEF Next, OnImuReceived, OnLidarReceived, vars
<1> HIDE DEF Told
<1>2. Spec => [][Told]_vars
  BY <1>1, MonitorInvHolds, PTL DEF Spec
<1> QED  BY <1>2 DEF TimingFaultsArePublishedOnce, Told
=============================================================================
