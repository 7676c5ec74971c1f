---------------------- MODULE TemporalMonitorNode_proof ----------------------
(***************************************************************************)
(* Proofs about the running node, for every configuration its parts        *)
(* accept, every stream of messages and any number of them: that a         *)
(* protective gate forwards only clouds the IMU samples cover, and that    *)
(* the node drives its queue as LidarHoldback says.                        *)
(***************************************************************************)
EXTENDS TemporalMonitorNode, FiniteSetTheorems, SequenceTheorems, TLAPS

\* What is known of the parts without state and of the queue alone.
Facts == INSTANCE Algorithms_proof
Queue == INSTANCE LidarHoldback_proof
Policy == INSTANCE FusionDecision_proof
    WITH TimingReasons <- {"ok", "jitter_suspicious", "jitter_high", "stream_gap",
                           "message_reordering_detected"},
         CoverageReasons <- {"ok", "invalid_scan_window", "imu_window_empty",
                             "imu_window_missing_prefix", "imu_window_missing_suffix",
                             "imu_window_internal_gap"},
         TransformResults <- UNION {[DOMAIN answers -> Pipeline!TransformAge!ReportedStatuses]
                                    : answers \in TransformAnswers},
         obs <- Pipeline!Observation(pipeline),
         totalImu <- AtMost(pipeline.imuTiming.count, MinTotalImuSamples),
         windowImu <- AtMost(pipeline.imuTiming.windowCount, MinWindowImuSamples)

LEMMA PartsAreFit ==
    /\ Retention \in Nat
    /\ MaxMissingPrefix \in Nat /\ MaxMissingSuffix \in Nat /\ MaxInternalGap \in Nat
    /\ StampPolicy \in {"scan_start", "scan_middle", "scan_end"}
    /\ FallbackScanDuration \in Nat
    /\ NoStamp \notin Int
    /\ Facts!CoverageAssumption /\ Facts!RetentionAssumption
    /\ Queue!HoldbackAssumption
<1>1. /\ Retention \in Nat /\ Facts!RetentionAssumption
  BY PartsAssumption DEF Pipeline!Buffer!RetentionAssumption, Facts!RetentionAssumption
<1>2. /\ MaxMissingPrefix \in Nat /\ MaxMissingSuffix \in Nat /\ MaxInternalGap \in Nat
      /\ Facts!CoverageAssumption
  BY PartsAssumption DEF Pipeline!Coverage!CoverageAssumption, Facts!CoverageAssumption
<1>3. /\ StampPolicy \in {"scan_start", "scan_middle", "scan_end"}
      /\ FallbackScanDuration \in Nat
      /\ NoStamp \notin Int
  BY PartsAssumption DEF Pipeline!Scan!ScanWindowAssumption, Pipeline!Scan!StampPolicies
<1>4. Queue!HoldbackAssumption
  BY <1>3, NodeAssumption DEF Queue!HoldbackAssumption, ReadyStamps
<1> QED  BY <1>1, <1>2, <1>3, <1>4

-----------------------------------------------------------------------------
(* The coverage verdict *)

Windows == [start : Int, end : Int]

LEMMA CoverageVerdicts ==
    ASSUME NEW window, NEW stamps
    PROVE  Pipeline!Coverage!Analyze(window, stamps) \in
               {"ok", "invalid_scan_window", "imu_window_empty", "imu_window_missing_prefix",
                "imu_window_missing_suffix", "imu_window_internal_gap"}
  BY DEF Pipeline!Coverage!Analyze

LEMMA SameAnalysis ==
    ASSUME NEW window, NEW stamps
    PROVE  Facts!Analyze(window, stamps) = Pipeline!Coverage!Analyze(window, stamps)
  BY DEF Facts!Analyze, Pipeline!Coverage!Analyze,
         Facts!StampsInside, Pipeline!Coverage!StampsInside,
         Facts!Contains, Pipeline!Coverage!Contains,
         Facts!HasInternalGap, Pipeline!Coverage!HasInternalGap,
         Facts!MissingPrefix, Pipeline!Coverage!MissingPrefix,
         Facts!MissingSuffix, Pipeline!Coverage!MissingSuffix

LEMMA OkIsInterpolable ==
    ASSUME NEW window \in Windows, NEW stamps \in SUBSET Int,
           Pipeline!Coverage!Analyze(window, stamps) = "ok",
           NEW t \in window.start + MaxMissingPrefix .. window.end - MaxMissingSuffix
    PROVE  \E a, b \in stamps : a <= t /\ t <= b /\ b - a <= MaxInternalGap
<1>1. Facts!Analyze(window, stamps) = "ok"
  BY SameAnalysis
<1> QED  BY <1>1, PartsAreFit, Facts!OkWindowIsInterpolable DEF Windows

-----------------------------------------------------------------------------
(* The issues of a snapshot *)

LEMMA ConcatContains ==
    ASSUME NEW S, NEW s \in Seq(S), NEW t \in Seq(S)
    PROVE  /\ s \o t \in Seq(S)
           /\ \A i \in DOMAIN s : i \in DOMAIN (s \o t) /\ (s \o t)[i] = s[i]
           /\ \A i \in DOMAIN t :
                 i + Len(s) \in DOMAIN (s \o t) /\ (s \o t)[i + Len(s)] = t[i]
<1>1. /\ s \o t \in Seq(S) /\ Len(s \o t) = Len(s) + Len(t)
      /\ \A i \in 1 .. Len(s) + Len(t) :
            (s \o t)[i] = IF i <= Len(s) THEN s[i] ELSE t[i - Len(s)]
      /\ Len(s) \in Nat /\ Len(t) \in Nat
      /\ DOMAIN s = 1 .. Len(s) /\ DOMAIN t = 1 .. Len(t)
      /\ DOMAIN (s \o t) = 1 .. Len(s) + Len(t)
  BY ConcatProperties, LenProperties
<1> DEFINE c == s \o t
<1> HIDE DEF c
<1>2. ASSUME NEW i \in DOMAIN s
      PROVE  i \in DOMAIN (s \o t) /\ (s \o t)[i] = s[i]
  <2>1. i \in 1 .. Len(s) + Len(t) /\ i <= Len(s)
    BY <1>1
  <2> QED  BY <1>1, <2>1
<1>3. ASSUME NEW i \in DOMAIN t
      PROVE  i + Len(s) \in DOMAIN (s \o t) /\ (s \o t)[i + Len(s)] = t[i]
  <2>1. /\ i + Len(s) \in 1 .. Len(s) + Len(t) /\ ~ (i + Len(s) <= Len(s))
        /\ (i + Len(s)) - Len(s) = i
    BY <1>1
  <2> QED  BY <1>1, <2>1
<1> QED  BY <1>1, <1>2, <1>3

LEMMA TransformIssuesAreASequence ==
    ASSUME NEW transforms, IsFiniteSet(DOMAIN transforms)
    PROVE  \E S : Pipeline!Diagnostics!TransformIssues(transforms) \in Seq(S)
<1> DEFINE failing == {i \in DOMAIN transforms : transforms[i] # "OK"}
           issues == Pipeline!Diagnostics!TransformIssues(transforms)
           S == {issues[i] : i \in DOMAIN issues}
<1> DEFINE number == Pipeline!Diagnostics!Cardinality(failing)
<1>1. number \in Nat
  <2>1. IsFiniteSet(failing)
    BY FS_Subset
  <2>2. number = Cardinality(failing)
    BY DEF Pipeline!Diagnostics!Cardinality, Cardinality
  <2> QED  BY <2>1, <2>2, FS_CardinalityType
<1>2. issues = [i \in 1 .. number |-> issues[i]]
  BY DEF Pipeline!Diagnostics!TransformIssues, Pipeline!Diagnostics!Selected
<1> HIDE DEF number, issues
<1>3. issues \in Seq(S)
  BY <1>1, <1>2
<1> QED  BY <1>3 DEF issues

LEMMA OneOrNone ==
    /\ \A e : \E S : <<e>> \in Seq(S)
    /\ \E S : <<>> \in Seq(S)
<1>1. \A e : <<e>> \in Seq({e})
  OBVIOUS
<1>2. <<>> \in Seq({})
  OBVIOUS
<1> QED  BY <1>1, <1>2

LEMMA WiderSeq == ASSUME NEW A, NEW B, A \subseteq B, NEW s \in Seq(A) PROVE s \in Seq(B)
  OBVIOUS

LEMMA TwoParts ==
    ASSUME NEW s, NEW t, \E S : s \in Seq(S), \E S : t \in Seq(S)
    PROVE  \E S : s \o t \in Seq(S)
<1>1. PICK A : s \in Seq(A)
  OBVIOUS
<1>2. PICK B : t \in Seq(B)
  OBVIOUS
<1>3. s \in Seq(A \cup B) /\ t \in Seq(A \cup B)
  BY <1>1, <1>2, WiderSeq
<1> QED  BY <1>3, ConcatProperties

\* A cloud whose window is not covered gets an issue that says so.
LEMMA UncoveredIsAnIssue ==
    ASSUME NEW obs, IsFiniteSet(DOMAIN obs.transforms),
           obs.coverage \notin {Pipeline!Diagnostics!NoCoverage, "ok"}
    PROVE  LET issues == Pipeline!Diagnostics!Issues(obs)
           IN  \E i \in DOMAIN issues :
                   issues[i] = [severity |-> "DEGRADED", reason |-> "imu_window_incomplete"]
<1> DEFINE incomplete == [severity |-> "DEGRADED", reason |-> "imu_window_incomplete"]
           imu == Pipeline!Diagnostics!TimingIssues(
                      obs.imuTiming, Pipeline!Diagnostics!ImuTimingFaultReason)
           lidar == Pipeline!Diagnostics!TimingIssues(
                      obs.lidarTiming, Pipeline!Diagnostics!LidarTimingFaultReason)
           coverage == Pipeline!Diagnostics!CoverageIssues(obs.coverage)
           points == Pipeline!Diagnostics!PointTimeIssues(obs.pointTime)
           window == Pipeline!Diagnostics!WindowIssues(obs.confidence)
           transforms == Pipeline!Diagnostics!TransformIssues(obs.transforms)
<1>1. PICK T : transforms \in Seq(T)
  BY TransformIssuesAreASequence
<1>2. PICK I : imu \in Seq(I)
  BY OneOrNone DEF Pipeline!Diagnostics!TimingIssues
<1>3. PICK L : lidar \in Seq(L)
  BY OneOrNone DEF Pipeline!Diagnostics!TimingIssues
<1>4. PICK P : points \in Seq(P)
  BY OneOrNone, TwoParts DEF Pipeline!Diagnostics!PointTimeIssues, Pipeline!Diagnostics!IssueIf
<1>5. PICK W : window \in Seq(W)
  BY OneOrNone DEF Pipeline!Diagnostics!WindowIssues, Pipeline!Diagnostics!IssueIf
<1>6. coverage \in Seq({incomplete}) /\ \E i \in DOMAIN coverage : coverage[i] = incomplete
  BY DEF Pipeline!Diagnostics!CoverageIssues, Pipeline!Diagnostics!IssueIf
<1>7. Pipeline!Diagnostics!Issues(obs)
        = ((((imu \o lidar) \o coverage) \o points) \o window) \o transforms
  BY DEF Pipeline!Diagnostics!Issues
<1> HIDE DEF imu, lidar, coverage, points, window, transforms, incomplete
<1> DEFINE All == I \cup L \cup {incomplete} \cup P \cup W \cup T
<1>8. /\ imu \in Seq(All) /\ lidar \in Seq(All) /\ coverage \in Seq(All)
      /\ points \in Seq(All) /\ window \in Seq(All) /\ transforms \in Seq(All)
  BY <1>1, <1>2, <1>3, <1>4, <1>5, <1>6, WiderSeq
<1> HIDE DEF All
<1> DEFINE timing == imu \o lidar
<1>9. timing \in Seq(All)
  BY <1>8, ConcatProperties
<1>10. LET s == (imu \o lidar) \o coverage
       IN  s \in Seq(All) /\ \E i \in DOMAIN s : s[i] = incomplete
  <2>1. PICK i \in DOMAIN coverage : coverage[i] = incomplete
    BY <1>6
  <2>2. timing \in Seq(All) /\ coverage \in Seq(All)
    BY <1>8, <1>9
  <2> HIDE DEF timing
  <2>3. /\ timing \o coverage \in Seq(All)
        /\ i + Len(timing) \in DOMAIN (timing \o coverage)
        /\ (timing \o coverage)[i + Len(timing)] = coverage[i]
    BY <2>1, <2>2, ConcatContains
  <2> QED  BY <2>1, <2>3 DEF timing
<1>11. LET s == ((imu \o lidar) \o coverage) \o points
       IN  s \in Seq(All) /\ \E i \in DOMAIN s : s[i] = incomplete
  BY <1>8, <1>10, ConcatContains
<1>12. LET s == (((imu \o lidar) \o coverage) \o points) \o window
       IN  s \in Seq(All) /\ \E i \in DOMAIN s : s[i] = incomplete
  BY <1>8, <1>11, ConcatContains
<1>13. LET s == ((((imu \o lidar) \o coverage) \o points) \o window) \o transforms
       IN  s \in Seq(All) /\ \E i \in DOMAIN s : s[i] = incomplete
  BY <1>8, <1>12, ConcatContains
<1> QED  BY <1>7, <1>13 DEF incomplete

\* ... so what a protective gate forwards has its window covered.
LEMMA ForwardedIsCovered ==
    ASSUME NEW obs, IsFiniteSet(DOMAIN obs.transforms),
           obs.coverage # Pipeline!Diagnostics!NoCoverage,
           IsProtective, NEW total, NEW window,
           Fusion!ForwardingDecision(mode, HasCheckedTopic, Pipeline!Diagnostics!Build(obs),
                                     total, window) = "forwarded"
    PROVE  obs.coverage = "ok"
<1> DEFINE snapshot == Pipeline!Diagnostics!Build(obs)
<1> SUFFICES ASSUME obs.coverage # "ok" PROVE FALSE
  OBVIOUS
<1>1. PICK i \in DOMAIN snapshot.issues :
          snapshot.issues[i] = [severity |-> "DEGRADED", reason |-> "imu_window_incomplete"]
  BY UncoveredIsAnIssue DEF Pipeline!Diagnostics!Build
<1>2. snapshot.status # "OK"
  <2>1. "DEGRADED" \in {snapshot.issues[j].severity : j \in DOMAIN snapshot.issues}
    BY <1>1
  <2> QED  BY <2>1 DEF Pipeline!Diagnostics!Build, Pipeline!Diagnostics!Worst
<1> HIDE DEF snapshot
<1>3. Fusion!HasHardFusionBlockingIssue(snapshot)
  BY <1>1 DEF Fusion!HasHardFusionBlockingIssue, Fusion!HardFusionBlockingReasons
<1>4. Fusion!EvaluateLidarCloudGate(mode, Fusion!GateInput(snapshot, total, window)).forward
  BY DEF Fusion!ForwardingDecision, snapshot
<1>5. mode \in {"drop_degraded", "strict"}
  BY DEF IsProtective
<1>6. Fusion!ShouldForwardLidarCloud(mode, snapshot.status, TRUE)
  BY <1>3, <1>4, <1>5 DEF Fusion!EvaluateLidarCloudGate, Fusion!GateInput
<1> QED  BY <1>2, <1>5, <1>6 DEF Fusion!ShouldForwardLidarCloud

-----------------------------------------------------------------------------
(* The window of a cloud *)

LEMMA EstimatedWindow ==
    ASSUME NEW previous \in Int \cup {NoStamp}, NEW stamp \in Int
    PROVE  Pipeline!Scan!Estimate(previous, stamp).window \in Windows
<1>1. ASSUME NEW duration \in Int
      PROVE  Pipeline!Scan!BuildLidarScanWindow(stamp, duration) \in Windows
  <2>1. duration \div 2 \in Int
    OBVIOUS
  <2> QED  BY <2>1, PartsAreFit DEF Pipeline!Scan!BuildLidarScanWindow, Windows
<1>2. CASE Pipeline!Scan!UsablePeriod(previous, stamp)
  <2>1. stamp - previous \in Int
    BY <1>2 DEF Pipeline!Scan!UsablePeriod
  <2> QED  BY <1>1, <1>2, <2>1 DEF Pipeline!Scan!Estimate
<1>3. CASE ~ Pipeline!Scan!UsablePeriod(previous, stamp)
  <2>1. FallbackScanDuration \in Int
    BY PartsAreFit
  <2> QED  BY <1>1, <1>3, <2>1 DEF Pipeline!Scan!Estimate
<1> QED  BY <1>2, <1>3

LEMMA ExtractedWindow ==
    ASSUME NEW cloud \in Clouds, NEW field
    PROVE  Pipeline!PointTime!Extract(cloud, field) \in {NoScan} \cup Windows
<1> DEFINE times == Pipeline!PointTime!PointTimes(cloud, field)
           role == Pipeline!PointTime!ResolveTimeFieldRole(field)
           raw == IF /\ field.offset \in DOMAIN cloud.values
                     /\ Pipeline!PointTime!IsConvertible(role, field.datatype)
                  THEN cloud.values[field.offset] ELSE {}
<1>1. HasBounds(raw) /\ cloud.header \in Int
  BY NodeAssumption DEF HasBounds
<1>2. times = raw \/ times = {cloud.header + offset : offset \in raw}
  BY DEF Pipeline!PointTime!PointTimes, Pipeline!PointTime!TimesByRole
<1> HIDE DEF raw, times
<1>3. HasBounds(times)
  <2>1. CASE times = raw
    BY <1>1, <2>1
  <2>2. CASE times = {cloud.header + offset : offset \in raw}
    <3>1. raw \subseteq Int /\ times \subseteq Int
      BY <1>1, <2>2 DEF HasBounds
    <3>2. ASSUME times # {} PROVE \E a, b \in times : \A t \in times : a <= t /\ t <= b
      <4>1. PICK a \in raw, b \in raw : \A t \in raw : a <= t /\ t <= b
        BY <1>1, <2>2, <3>2 DEF HasBounds
      <4>2. cloud.header + a \in times /\ cloud.header + b \in times
        BY <2>2
      <4>3. \A t \in times : cloud.header + a <= t /\ t <= cloud.header + b
        BY <1>1, <2>2, <3>1, <4>1
      <4> QED  BY <4>2, <4>3
    <3> QED  BY <3>1, <3>2 DEF HasBounds
  <2> QED  BY <1>2, <2>1, <2>2
<1>4. CASE times = {}
  BY <1>4 DEF Pipeline!PointTime!Extract, Pipeline!PointTime!WindowOf, times
<1>5. CASE times # {}
  <2>1. /\ Pipeline!PointTime!Min(times) \in Int
        /\ Pipeline!PointTime!Max(times) \in Int
    BY <1>3, <1>5 DEF HasBounds, Pipeline!PointTime!Min, Pipeline!PointTime!Max
  <2>2. Pipeline!PointTime!Extract(cloud, field)
          = [start |-> Pipeline!PointTime!Min(times), end |-> Pipeline!PointTime!Max(times)]
    BY <1>5 DEF Pipeline!PointTime!Extract, Pipeline!PointTime!WindowOf, times
  <2> QED  BY <2>1, <2>2 DEF Windows
<1> QED  BY <1>4, <1>5

-----------------------------------------------------------------------------
(* The pipeline *)

Buffers == [samples : Seq(Int), dropped : Nat]

PipelineFields ==
    {"imuTiming", "lidarTiming", "buffer", "previous", "estimate", "inspected",
     "field", "pointTime", "coverage", "transforms"}

IsPipeline(p) ==
    /\ p = [f \in PipelineFields |-> p[f]]
    /\ p.buffer \in Buffers
    /\ p.previous \in Int \cup {NoStamp}
    /\ IsFiniteSet(DOMAIN p.transforms)

\* The buffer holds nothing it was not given.
LEMMA AddedSamples ==
    ASSUME NEW buffer \in Buffers, NEW stamp \in Int
    PROVE  LET new == Pipeline!Buffer!Add(buffer, stamp)
           IN  /\ new \in Buffers
               /\ \A i \in 1 .. Len(new.samples) :
                     \/ new.samples[i] = stamp
                     \/ \E j \in 1 .. Len(buffer.samples) : new.samples[i] = buffer.samples[j]
<1>1. Facts!Add(buffer, stamp) = Pipeline!Buffer!Add(buffer, stamp)
  BY DEF Facts!Add, Pipeline!Buffer!Add, Facts!Back, Pipeline!Buffer!Back,
         Facts!PruneOlderThan, Pipeline!Buffer!PruneOlderThan,
         Facts!FirstKept, Pipeline!Buffer!FirstKept
<1>2. LET new == Facts!Add(buffer, stamp)
      IN  /\ new \in Buffers
          /\ \A i \in 1 .. Len(new.samples) :
                \/ new.samples[i] = stamp
                \/ \E j \in 1 .. Len(buffer.samples) : new.samples[i] = buffer.samples[j]
  <2>1. buffer \in [samples : Seq(Int), dropped : Nat] /\ Facts!RetentionAssumption
        /\ Facts!CoverageAssumption
    BY PartsAreFit DEF Buffers
  <2> QED  BY <2>1, Facts!AddHoldsNoOther, ZenonT(60) DEF Buffers
<1> QED  BY <1>1, <1>2, ZenonT(60)

LEMMA ImuKeepsPipeline ==
    ASSUME NEW p, IsPipeline(p), NEW stamp \in Int
    PROVE  LET q == Pipeline!ObserveImu(p, stamp)
           IN  IsPipeline(q) /\ q.buffer = Pipeline!Buffer!Add(p.buffer, stamp)
<1> DEFINE timing == Pipeline!ImuTracker!Observe(p.imuTiming, stamp)
           buffer == Pipeline!Buffer!Add(p.buffer, stamp)
           q == [p EXCEPT !.imuTiming = timing, !.buffer = buffer]
<1>1. Pipeline!ObserveImu(p, stamp) = q
  BY DEF Pipeline!ObserveImu
<1>2. buffer \in Buffers
  BY AddedSamples DEF IsPipeline
<1> HIDE DEF timing, buffer
<1>3. q.buffer = buffer /\ q.previous = p.previous /\ q.transforms = p.transforms
      /\ q = [f \in PipelineFields |-> q[f]]
  BY DEF IsPipeline, PipelineFields
<1> QED  BY <1>1, <1>2, <1>3 DEF IsPipeline, buffer

LEMMA ConsumingKeepsPipeline ==
    ASSUME NEW p, IsPipeline(p)
    PROVE  LET q == Pipeline!ConsumeWindows(p)
           IN  IsPipeline(q) /\ q.buffer = p.buffer
<1> DEFINE imu == Pipeline!ImuTracker!ResetWindow(p.imuTiming)
           lidar == Pipeline!LidarTracker!ResetWindow(p.lidarTiming)
           q == [p EXCEPT !.imuTiming = imu, !.lidarTiming = lidar]
<1>1. Pipeline!ConsumeWindows(p) = q
  BY DEF Pipeline!ConsumeWindows
<1> HIDE DEF imu, lidar
<1>2. q.buffer = p.buffer /\ q.previous = p.previous /\ q.transforms = p.transforms
      /\ q = [f \in PipelineFields |-> q[f]]
  BY DEF IsPipeline, PipelineFields
<1> QED  BY <1>1, <1>2 DEF IsPipeline

\* What the pipeline says of a cloud: the estimate and the verdict are this
\* cloud's, made on the samples in the buffer.
LEMMA LidarObserved ==
    ASSUME NEW p, IsPipeline(p), NEW cloud \in Clouds,
           NEW precomputed \in {NoScan} \cup Windows,
           NEW statuses, IsFiniteSet(DOMAIN statuses)
    PROVE  LET q == Pipeline!ObserveTransforms(
                        Pipeline!ObserveLidar(p, cloud, precomputed), statuses)
           IN  /\ IsPipeline(q)
               /\ q.buffer = p.buffer
               /\ q.estimate.window \in Windows
               /\ q.coverage = Pipeline!Coverage!Analyze(q.estimate.window, Pipeline!Stamps(p))
               /\ q.transforms = statuses
<1> DEFINE a == Pipeline!Inspected(p, cloud)
           b == Pipeline!ObserveScan(a, cloud, precomputed)
           c == Pipeline!ObserveCoverage(b)
           d == Pipeline!ObserveLidar(p, cloud, precomputed)
           q == Pipeline!ObserveTransforms(d, statuses)
<1>1. cloud.header \in Int
  BY NodeAssumption
<1>2. IsPipeline(a) /\ a.buffer = p.buffer
  BY DEF Pipeline!Inspected, IsPipeline, PipelineFields
<1> HIDE DEF a
<1>3. Pipeline!PointTimeEstimate(precomputed).window = precomputed
  BY DEF Pipeline!PointTimeEstimate
<1>4. IsPipeline(b) /\ b.buffer = p.buffer /\ b.estimate.window \in Windows
  <2> DEFINE extracted == Pipeline!PointTime!Extract(cloud, a.field)
             headers == Pipeline!Scan!Estimate(a.previous, cloud.header)
             read == IF extracted # NoScan THEN Pipeline!PointTimeEstimate(extracted) ELSE headers
  <2>1. headers.window \in Windows
    BY <1>1, <1>2, EstimatedWindow DEF IsPipeline
  <2>2. read.window \in Windows
    <3>1. extracted \in {NoScan} \cup Windows
      BY ExtractedWindow
    <3> HIDE DEF extracted, headers
    <3> QED  BY <2>1, <3>1 DEF Pipeline!PointTimeEstimate
  <2>3. CASE precomputed # NoScan
    <3>1. b = [a EXCEPT !.estimate = Pipeline!PointTimeEstimate(precomputed)]
      BY <2>3 DEF Pipeline!ObserveScan
    <3> HIDE DEF b
    <3> QED  BY <1>2, <1>3, <2>3, <3>1 DEF IsPipeline, PipelineFields
  <2>4. CASE precomputed = NoScan /\ a.field = NoField
    <3>1. b = [a EXCEPT !.estimate = headers]
      BY <2>4 DEF Pipeline!ObserveScan
    <3> HIDE DEF b, headers
    <3> QED  BY <1>2, <2>1, <3>1 DEF IsPipeline, PipelineFields
  <2>5. CASE precomputed = NoScan /\ a.field # NoField
    <3>1. b = [a EXCEPT !.estimate = read, !.pointTime.attempted = TRUE,
                        !.pointTime.used = extracted # NoScan]
      BY <2>5 DEF Pipeline!ObserveScan
    <3> HIDE DEF b, read, extracted
    <3> QED  BY <1>2, <2>2, <3>1 DEF IsPipeline, PipelineFields
  <2> QED  BY <2>3, <2>4, <2>5
<1> HIDE DEF b
<1>5. Pipeline!Stamps(b) = Pipeline!Stamps(p)
  BY <1>4 DEF Pipeline!Stamps
<1>6. /\ IsPipeline(c) /\ c.buffer = p.buffer /\ c.estimate = b.estimate
      /\ c.coverage = Pipeline!Coverage!Analyze(b.estimate.window, Pipeline!Stamps(p))
  BY <1>4, <1>5 DEF Pipeline!ObserveCoverage, IsPipeline, PipelineFields
<1>7. d = [c EXCEPT !.lidarTiming = Pipeline!LidarTracker!Observe(@, cloud.header),
                    !.previous = cloud.header]
  BY DEF Pipeline!ObserveLidar, a, b
<1> HIDE DEF c, d
<1>8. /\ IsPipeline(d) /\ d.buffer = p.buffer /\ d.estimate = c.estimate
      /\ d.coverage = c.coverage
  BY <1>1, <1>6, <1>7 DEF IsPipeline, PipelineFields
<1>9. /\ IsPipeline(q) /\ q.buffer = d.buffer /\ q.estimate = d.estimate
      /\ q.coverage = d.coverage /\ q.transforms = statuses
  BY <1>8 DEF Pipeline!ObserveTransforms, IsPipeline, PipelineFields
<1> HIDE DEF q
<1>10. q.estimate = b.estimate
  BY <1>6, <1>8, <1>9
<1>11. /\ q.estimate.window \in Windows /\ q.buffer = p.buffer
       /\ q.coverage = Pipeline!Coverage!Analyze(q.estimate.window, Pipeline!Stamps(p))
  BY <1>4, <1>6, <1>8, <1>9, <1>10
<1> QED  BY <1>9, <1>11 DEF q, d

-----------------------------------------------------------------------------
(* The queue *)

HoldbackType == holdbackPrevious \in Int \cup {NoStamp}

LEMMA PrecomputedWindow ==
    ASSUME NEW cloud \in Clouds PROVE Precomputed(cloud) \in {NoScan} \cup Windows
  BY ExtractedWindow DEF Precomputed

LEMMA ReadyStampIsATime ==
    ASSUME HoldbackType, NEW cloud \in Clouds
    PROVE  ReadyStamp(cloud) \in ReadyStamps
<1>1. cloud.header \in Int /\ Tolerance \in Int /\ FallbackScanDuration \in Int
  BY NodeAssumption, PartsAreFit
<1>2. HoldbackWindow(cloud).end \in Int
  BY <1>1, EstimatedWindow DEF HoldbackType, HoldbackWindow, Windows
<1>3. Precomputed(cloud) # NoScan => Precomputed(cloud).end \in Int
  BY PrecomputedWindow DEF Windows
<1> QED  BY <1>1, <1>2, <1>3 DEF ReadyStamp, ReadyStamps

LEMMA HoldbackTypeStep == ASSUME HoldbackType, [Next]_vars PROVE HoldbackType'
<1>1. ASSUME NEW cloud \in Clouds, OnLidarReceived(cloud) PROVE HoldbackType'
  BY <1>1, NodeAssumption DEF OnLidarReceived, HoldbackType
<1>2. CASE UNCHANGED windowVars
  BY <1>2 DEF windowVars, HoldbackType
<1> QED  BY <1>1, <1>2 DEF Next, OnImuReceived, ProcessReadyPendingCloud, FinishDraining,
                            OnTimer, vars

\* Every step of the node is a step of its queue or leaves the queue alone.
LEMMA QueueStep == ASSUME HoldbackType, [Next]_vars PROVE [Queue!Next]_(Queue!vars)
<1>1. ASSUME NEW stamp \in ImuStamps, OnImuReceived(stamp) PROVE Queue!Next
  BY <1>1 DEF OnImuReceived, Holdback!OnImuReceived, Queue!OnImuReceived, Queue!Next
<1>2. CASE ProcessReadyPendingCloud
  BY <1>2 DEF ProcessReadyPendingCloud, Holdback!ProcessReadyPendingCloud,
              Queue!ProcessReadyPendingCloud, Queue!Next,
              Holdback!HeadIsReady, Queue!HeadIsReady, Holdback!ImuReached, Queue!ImuReached
<1>3. CASE FinishDraining
  BY <1>3 DEF FinishDraining, Holdback!FinishDraining, Queue!FinishDraining, Queue!Next,
              Holdback!HeadIsReady, Queue!HeadIsReady, Holdback!ImuReached, Queue!ImuReached
<1>4. ASSUME NEW cloud \in Clouds, OnLidarReceived(cloud) PROVE Queue!Next
  <2>1. ReadyStamp(cloud) \in ReadyStamps
    BY ReadyStampIsATime
  <2>2. Holdback!OnLidarReceived(ReadyStamp(cloud))
    BY <1>4 DEF OnLidarReceived
  <2>3. Queue!OnLidarReceived(ReadyStamp(cloud))
    BY <2>2 DEF Holdback!OnLidarReceived, Queue!OnLidarReceived,
                Holdback!ProcessAtOnce, Queue!ProcessAtOnce,
                Holdback!HoldBack, Queue!HoldBack, Holdback!arrived, Queue!arrived,
                Holdback!ImuReached, Queue!ImuReached, Holdback!DropOldest, Queue!DropOldest,
                Holdback!Excess, Queue!Excess, Holdback!Ids, Queue!Ids
  <2> QED  BY <2>1, <2>3 DEF Queue!Next
<1>5. CASE UNCHANGED holdbackVars
  BY <1>5 DEF holdbackVars, Queue!vars
<1> QED  BY <1>1, <1>2, <1>3, <1>4, <1>5 DEF Next, OnTimer, vars

\* The node drives its queue as LidarHoldback describes it, whatever ready
\* stamps its clouds get, so what holds of the queue alone holds in the node.
THEOREM NodeDrivesQueue == Spec => Queue!Spec
<1>1. Init => HoldbackType /\ Queue!Init
  BY DEF Init, HoldbackType, Holdback!Init, Queue!Init
<1>2. HoldbackType /\ [Next]_vars => HoldbackType' /\ [Queue!Next]_(Queue!vars)
  BY HoldbackTypeStep, QueueStep
<1> QED  BY <1>1, <1>2, PTL DEF Spec, Queue!Spec

LEMMA QueueInvHolds == Spec => []Queue!IInv
  BY NodeDrivesQueue, PartsAreFit, Queue!IndInv, PTL

-----------------------------------------------------------------------------
(* What is forwarded *)

Received == [cloud : Clouds, precomputed : {NoScan} \cup Windows, awaited : Windows]

\* The clouds waiting are ones the node received.
CloudsInv ==
    /\ clouds \in Seq(Received)
    /\ Len(clouds) = Len(readyOf)

\* The buffer holds samples the node did receive.
PipelineInv ==
    /\ IsPipeline(pipeline)
    /\ imuLog \in Seq(Int)
    /\ \A i \in 1 .. Len(pipeline.buffer.samples) :
          \E j \in 1 .. Len(imuLog) : pipeline.buffer.samples[i] = imuLog[j]

NodeInv == HoldbackType /\ CloudsInv /\ PipelineInv /\ ForwardedScanIsCovered

LEMMA NodeInvInit == Init => NodeInv
<1> SUFFICES ASSUME Init PROVE NodeInv
  OBVIOUS
<1>1. HoldbackType /\ ForwardedScanIsCovered
  BY DEF Init, HoldbackType, ForwardedScanIsCovered
<1>2. CloudsInv
  BY DEF Init, Holdback!Init, CloudsInv
<1>3. IsPipeline(pipeline) /\ pipeline.buffer.samples = <<>>
  <2>1. IsFiniteSet(DOMAIN <<>>)
    BY FS_EmptySet
  <2> QED  BY <2>1 DEF Init, IsPipeline, PipelineFields, Buffers, Pipeline!NewPipeline, Pipeline!Buffer!NewBuffer
<1>4. PipelineInv
  <2>1. imuLog = <<>>
    BY DEF Init
  <2> QED  BY <1>3, <2>1 DEF PipelineInv
<1> QED  BY <1>1, <1>2, <1>4 DEF NodeInv

\* Deciding a cloud the node received.
LEMMA ProcessingKeepsInv ==
    ASSUME PipelineInv, NEW id, NEW cloud \in Clouds, NEW precomputed \in {NoScan} \cup Windows,
           ProcessLidarCloud(id, cloud, precomputed), imuLog' = imuLog
    PROVE  PipelineInv' /\ ForwardedScanIsCovered'
<1>1. PICK answers \in TransformAnswers :
          LET observed == Pipeline!ObserveTransforms(
                              Pipeline!ObserveLidar(pipeline, cloud, precomputed),
                              Pipeline!TransformAge!StatusesOf(cloud.header, answers))
              snapshot == Pipeline!BuildLatestDiagnosticSnapshot(observed)
              decision == Fusion!ForwardingDecision(
                              mode, HasCheckedTopic, snapshot,
                              observed.imuTiming.count, observed.imuTiming.windowCount)
          IN  /\ pipeline' = observed
              /\ event'.decision = decision
              /\ event'.estimate = observed.estimate
  BY DEF ProcessLidarCloud
<1> DEFINE statuses == Pipeline!TransformAge!StatusesOf(cloud.header, answers)
           observed == Pipeline!ObserveTransforms(
                           Pipeline!ObserveLidar(pipeline, cloud, precomputed), statuses)
           obs == Pipeline!Observation(observed)
           snapshot == Pipeline!Diagnostics!Build(obs)
<1>2. IsFiniteSet(DOMAIN statuses)
  BY NodeAssumption DEF Pipeline!TransformAge!StatusesOf
<1> HIDE DEF statuses
<1>3. /\ IsPipeline(observed)
      /\ observed.buffer = pipeline.buffer
      /\ observed.estimate.window \in Windows
      /\ observed.coverage = Pipeline!Coverage!Analyze(observed.estimate.window,
                                                       Pipeline!Stamps(pipeline))
      /\ observed.transforms = statuses
  BY <1>2, LidarObserved DEF PipelineInv
<1>4. /\ pipeline' = observed
      /\ event'.estimate = observed.estimate
      /\ event'.decision = Fusion!ForwardingDecision(
             mode, HasCheckedTopic, snapshot,
             observed.imuTiming.count, observed.imuTiming.windowCount)
  BY <1>1 DEF Pipeline!BuildLatestDiagnosticSnapshot, statuses
<1> HIDE DEF observed
<1>5. obs.coverage = observed.coverage /\ obs.transforms = statuses
  BY <1>3 DEF Pipeline!Observation
<1> HIDE DEF obs
<1>6. PipelineInv'
  BY <1>3, <1>4, SMTT(30) DEF PipelineInv
<1>7. ASSUME IsProtective, event'.decision = "forwarded",
             NEW t \in event'.estimate.window.start + MaxMissingPrefix
                     .. event'.estimate.window.end - MaxMissingSuffix
      PROVE  \E i, j \in 1 .. Len(imuLog) :
                 /\ imuLog[i] <= t /\ t <= imuLog[j]
                 /\ imuLog[j] - imuLog[i] <= MaxInternalGap
  <2>1. obs.coverage # Pipeline!Diagnostics!NoCoverage
    BY <1>3, <1>5, CoverageVerdicts DEF Pipeline!Diagnostics!NoCoverage
  <2>2. obs.coverage = "ok"
    <3>1. Fusion!ForwardingDecision(mode, HasCheckedTopic, Pipeline!Diagnostics!Build(obs),
              observed.imuTiming.count, observed.imuTiming.windowCount) = "forwarded"
      BY <1>4, <1>7
    <3> QED  BY <1>2, <1>5, <1>7, <2>1, <3>1, ForwardedIsCovered
  <2>3. Pipeline!Stamps(pipeline) \in SUBSET Int
        /\ \A s \in Pipeline!Stamps(pipeline) : \E i \in 1 .. Len(imuLog) : s = imuLog[i]
    <3>1. pipeline.buffer.samples \in Seq(Int)
      BY DEF PipelineInv, IsPipeline, Buffers
    <3>2. /\ DOMAIN pipeline.buffer.samples = 1 .. Len(pipeline.buffer.samples)
          /\ \A i \in 1 .. Len(pipeline.buffer.samples) : pipeline.buffer.samples[i] \in Int
      BY <3>1
    <3>3. \A s \in Pipeline!Stamps(pipeline) :
              \E i \in 1 .. Len(pipeline.buffer.samples) : s = pipeline.buffer.samples[i]
      BY <3>2 DEF Pipeline!Stamps
    <3>4. \A i \in 1 .. Len(pipeline.buffer.samples) :
              \E j \in 1 .. Len(imuLog) : pipeline.buffer.samples[i] = imuLog[j]
      BY DEF PipelineInv
    <3> QED  BY <3>2, <3>3, <3>4, SMTT(30)
  <2>4. \E a, b \in Pipeline!Stamps(pipeline) : a <= t /\ t <= b /\ b - a <= MaxInternalGap
    BY <1>3, <1>4, <1>5, <1>7, <2>2, <2>3, OkIsInterpolable
  <2> QED  BY <2>3, <2>4
<1> QED  BY <1>6, <1>7 DEF ForwardedScanIsCovered

LEMMA PendingAreReceived ==
    ASSUME CloudsInv, Queue!IInv, ProcessReadyPendingCloud
    PROVE  /\ Head(pending).id \in 1 .. Len(clouds)
           /\ clouds[Head(pending).id] \in Received
<1>1. pending # <<>> /\ pending \in Seq(Queue!PendingClouds)
  BY DEF ProcessReadyPendingCloud, Holdback!ProcessReadyPendingCloud, Holdback!HeadIsReady,
         Queue!IInv, Queue!TypeOK
<1>2. Len(pending) \in Nat \ {0} /\ Head(pending) = pending[1]
  BY <1>1, EmptySeq, HeadTailProperties, LenProperties
<1>3. pending[1].id \in Nat \ {0}
  <2>1. pending[1] \in Queue!PendingClouds
    BY <1>1, <1>2, ElementOfSeq
  <2> QED  BY <2>1 DEF Queue!PendingClouds
<1>4. pending[1].id <= Len(readyOf)
  BY <1>2 DEF Queue!IInv, Queue!PendingMatchesArrivals, Queue!arrived
<1>5. Len(clouds) \in Nat /\ pending[1].id \in 1 .. Len(clouds)
  BY <1>3, <1>4, LenProperties DEF CloudsInv
<1> QED  BY <1>2, <1>5, ElementOfSeq DEF CloudsInv

LEMMA CloudsInvStep == ASSUME HoldbackType, CloudsInv, Queue!IInv, [Next]_vars PROVE CloudsInv'
<1>1. ASSUME NEW cloud \in Clouds, OnLidarReceived(cloud) PROVE CloudsInv'
  <2> DEFINE awaited == IF Precomputed(cloud) # NoScan
                        THEN Precomputed(cloud) ELSE HoldbackWindow(cloud)
             received == [cloud |-> cloud, precomputed |-> Precomputed(cloud),
                          awaited |-> awaited]
  <2>1. awaited \in Windows
    <3>1. HoldbackWindow(cloud) \in Windows
      BY EstimatedWindow, NodeAssumption DEF HoldbackWindow, HoldbackType
    <3> QED  BY <3>1, PrecomputedWindow
  <2> HIDE DEF awaited
  <2>2. received \in Received
    BY <2>1, PrecomputedWindow DEF Received
  <2>3. clouds' = Append(clouds, received) /\ readyOf' = Append(readyOf, ReadyStamp(cloud))
    BY <1>1 DEF OnLidarReceived, Holdback!OnLidarReceived, awaited
  <2> HIDE DEF received
  <2>4. readyOf \in Seq(ReadyStamps) /\ ReadyStamp(cloud) \in ReadyStamps
    BY ReadyStampIsATime DEF Queue!IInv, Queue!TypeOK
  <2> QED  BY <2>2, <2>3, <2>4, AppendProperties DEF CloudsInv
<1>2. CASE UNCHANGED <<clouds, readyOf>>
  BY <1>2 DEF CloudsInv
<1> QED  BY <1>1, <1>2 DEF Next, OnImuReceived, ProcessReadyPendingCloud, FinishDraining, OnTimer,
             Holdback!OnImuReceived, Holdback!ProcessReadyPendingCloud, Holdback!FinishDraining,
             vars, holdbackVars

LEMMA ImuStep ==
    ASSUME PipelineInv, ForwardedScanIsCovered, NEW stamp \in ImuStamps, OnImuReceived(stamp)
    PROVE  PipelineInv' /\ ForwardedScanIsCovered'
<1>1. /\ imuLog' = Append(imuLog, stamp) /\ event' = event
      /\ pipeline' = Pipeline!ObserveImu(pipeline, stamp)
  BY DEF OnImuReceived
<1>2. stamp \in Int
  BY NodeAssumption
<1>3. /\ imuLog' \in Seq(Int) /\ Len(imuLog) \in Nat /\ Len(imuLog') = Len(imuLog) + 1
      /\ imuLog'[Len(imuLog) + 1] = stamp
      /\ \A i \in 1 .. Len(imuLog) : imuLog'[i] = imuLog[i]
  BY <1>1, <1>2, AppendProperties, LenProperties DEF PipelineInv
<1>4. /\ IsPipeline(pipeline')
      /\ \A i \in 1 .. Len(pipeline'.buffer.samples) :
            \/ pipeline'.buffer.samples[i] = stamp
            \/ \E j \in 1 .. Len(pipeline.buffer.samples) :
                   pipeline'.buffer.samples[i] = pipeline.buffer.samples[j]
  <2>1. /\ IsPipeline(pipeline')
        /\ pipeline'.buffer = Pipeline!Buffer!Add(pipeline.buffer, stamp)
    BY <1>1, <1>2, ImuKeepsPipeline DEF PipelineInv
  <2>2. pipeline.buffer \in Buffers
    BY DEF PipelineInv, IsPipeline
  <2> QED  BY <1>2, <2>1, <2>2, AddedSamples
<1>5. PipelineInv'
  <2>1. ASSUME NEW i \in 1 .. Len(pipeline'.buffer.samples)
        PROVE  \E j \in 1 .. Len(imuLog') : pipeline'.buffer.samples[i] = imuLog'[j]
    <3>1. CASE pipeline'.buffer.samples[i] = stamp
      BY <1>3, <3>1
    <3>2. ASSUME NEW j \in 1 .. Len(pipeline.buffer.samples),
                 pipeline'.buffer.samples[i] = pipeline.buffer.samples[j]
          PROVE  \E m \in 1 .. Len(imuLog') : pipeline'.buffer.samples[i] = imuLog'[m]
      <4>1. PICK m \in 1 .. Len(imuLog) : pipeline.buffer.samples[j] = imuLog[m]
        BY DEF PipelineInv
      <4> QED  BY <1>3, <3>2, <4>1
    <3> QED  BY <1>4, <3>1, <3>2
  <2> QED  BY <1>3, <1>4, <2>1 DEF PipelineInv
<1>6. ForwardedScanIsCovered'
  <2> SUFFICES ASSUME IsProtective, event # NoEvent, event.decision = "forwarded",
                      NEW t \in event.estimate.window.start + MaxMissingPrefix
                              .. event.estimate.window.end - MaxMissingSuffix
               PROVE  \E i, j \in 1 .. Len(imuLog') :
                          /\ imuLog'[i] <= t /\ t <= imuLog'[j]
                          /\ imuLog'[j] - imuLog'[i] <= MaxInternalGap
    BY <1>1 DEF ForwardedScanIsCovered
  <2>1. PICK i \in 1 .. Len(imuLog), j \in 1 .. Len(imuLog) :
            /\ imuLog[i] <= t /\ t <= imuLog[j]
            /\ imuLog[j] - imuLog[i] <= MaxInternalGap
    BY DEF ForwardedScanIsCovered
  <2>2. i \in 1 .. Len(imuLog') /\ j \in 1 .. Len(imuLog')
    BY <1>3
  <2> QED  BY <1>3, <2>1, <2>2
<1> QED  BY <1>5, <1>6

LEMMA NodeInvStep == ASSUME NodeInv, Queue!IInv, [Next]_vars PROVE NodeInv'
<1> USE DEF NodeInv
<1>1. HoldbackType' /\ CloudsInv'
  BY HoldbackTypeStep, CloudsInvStep
<1>2. ASSUME NEW stamp \in ImuStamps, OnImuReceived(stamp)
      PROVE  PipelineInv' /\ ForwardedScanIsCovered'
  BY <1>2, ImuStep
<1>3. ASSUME ProcessReadyPendingCloud PROVE PipelineInv' /\ ForwardedScanIsCovered'
  <2> DEFINE received == clouds[Head(pending).id]
  <2>1. received.cloud \in Clouds /\ received.precomputed \in {NoScan} \cup Windows
    BY <1>3, PendingAreReceived DEF Received
  <2>2. /\ ProcessLidarCloud(Head(pending).id, received.cloud, received.precomputed)
        /\ imuLog' = imuLog
    BY <1>3 DEF ProcessReadyPendingCloud
  <2> QED  BY <2>1, <2>2, ProcessingKeepsInv
<1>4. ASSUME NEW cloud \in Clouds, OnLidarReceived(cloud)
      PROVE  PipelineInv' /\ ForwardedScanIsCovered'
  <2>1. imuLog' = imuLog
    BY <1>4 DEF OnLidarReceived
  <2>2. CASE ProcessLidarCloud(Len(clouds'), cloud, Precomputed(cloud))
    BY <2>1, <2>2, PrecomputedWindow, ProcessingKeepsInv
  <2>3. CASE UNCHANGED <<pipeline, published, event>>
    BY <2>1, <2>3 DEF PipelineInv, ForwardedScanIsCovered
  <2> QED  BY <1>4, <2>2, <2>3 DEF OnLidarReceived
<1>5. ASSUME OnTimer PROVE PipelineInv' /\ ForwardedScanIsCovered'
  <2>1. imuLog' = imuLog /\ event' = event /\ pipeline' = Pipeline!ConsumeWindows(pipeline)
    BY <1>5 DEF OnTimer
  <2>2. IsPipeline(pipeline') /\ pipeline'.buffer = pipeline.buffer
    BY <2>1, ConsumingKeepsPipeline DEF PipelineInv
  <2> QED  BY <2>1, <2>2 DEF PipelineInv, ForwardedScanIsCovered
<1>6. ASSUME UNCHANGED <<pipeline, imuLog, event>> PROVE PipelineInv' /\ ForwardedScanIsCovered'
  BY <1>6 DEF PipelineInv, ForwardedScanIsCovered
<1> QED  BY <1>1, <1>2, <1>3, <1>4, <1>5, <1>6 DEF Next, FinishDraining, vars

LEMMA NodeInvHolds == Spec => []NodeInv
<1>1. NodeInv /\ Queue!IInv /\ [Next]_vars => NodeInv'
  BY NodeInvStep
<1> QED  BY <1>1, NodeInvInit, QueueInvHolds, PTL DEF Spec

\* A protective gate forwards no cloud whose scan the received IMU samples do
\* not cover, whatever was held back, lost, late, misread or misestimated on
\* the way to the decision (TemporalMonitorNode::MaybePublishCheckedLidar).
THEOREM OnlyCoveredScansAreForwarded == Spec => []ForwardedScanIsCovered
<1>1. NodeInv => ForwardedScanIsCovered
  BY DEF NodeInv
<1> QED  BY <1>1, NodeInvHolds, PTL

\* The running node accounts for every cloud: each one received is waiting,
\* decided or lost, exactly one of the three, and none is decided twice.
THEOREM NodeAccountsForEveryCloud == Spec => []Queue!EveryCloudAccountedFor
  BY NodeDrivesQueue, PartsAreFit, Queue!NodeLedgerIsComplete

-----------------------------------------------------------------------------
(* The window a cloud is judged by *)

\* The estimate the pipeline makes of a cloud with this field and the header of
\* the cloud judged before.
EstimateBy(field, previous, cloud, precomputed) ==
    LET extracted == Pipeline!PointTime!Extract(cloud, field)
    IN  IF precomputed # NoScan THEN Pipeline!PointTimeEstimate(precomputed)
        ELSE IF field # NoField /\ extracted # NoScan
        THEN Pipeline!PointTimeEstimate(extracted)
        ELSE Pipeline!Scan!Estimate(previous, cloud.header)

LEMMA CloudEstimated ==
    ASSUME NEW p, IsPipeline(p), NEW cloud, cloud.header \in Int,
           NEW precomputed, NEW statuses, IsFiniteSet(DOMAIN statuses)
    PROVE  LET q == Pipeline!ObserveTransforms(
                        Pipeline!ObserveLidar(p, cloud, precomputed), statuses)
           IN  /\ q.inspected
               /\ p.inspected => q.field = p.field
               /\ q.previous = cloud.header
               /\ q.estimate = EstimateBy(q.field, p.previous, cloud, precomputed)
<1> DEFINE a == Pipeline!Inspected(p, cloud)
           b == Pipeline!ObserveScan(a, cloud, precomputed)
           q == Pipeline!ObserveTransforms(
                    Pipeline!ObserveLidar(p, cloud, precomputed), statuses)
           Fits(r) == r = [f \in PipelineFields |-> r[f]]
<1>1. Fits(p)
  BY DEF IsPipeline
<1>2. /\ Fits(a) /\ a.inspected /\ a.previous = p.previous
      /\ p.inspected => a.field = p.field
  <2> DEFINE inspection == Pipeline!PointTime!Inspect(cloud.fields)
             pt == [Pipeline!Diagnostics!NoPointTime EXCEPT
                       !.candidate = inspection.candidate,
                       !.supported = inspection.primary # NoField]
  <2>1. CASE p.inspected
    <3>1. a = p
      BY <2>1 DEF Pipeline!Inspected
    <3> QED  BY <1>1, <2>1, <3>1
  <2>2. CASE ~ p.inspected
    <3>1. a = [p EXCEPT !.inspected = TRUE, !.field = inspection.primary, !.pointTime = pt]
      BY <2>2 DEF Pipeline!Inspected
    <3> HIDE DEF a, pt, inspection
    <3> QED  BY <1>1, <2>2, <3>1 DEF PipelineFields
  <2> QED  BY <2>1, <2>2
<1> HIDE DEF a
<1>3. /\ Fits(b) /\ b.inspected /\ b.field = a.field
      /\ b.estimate = EstimateBy(a.field, a.previous, cloud, precomputed)
  <2> DEFINE extracted == Pipeline!PointTime!Extract(cloud, a.field)
             headers == Pipeline!Scan!Estimate(a.previous, cloud.header)
             given == Pipeline!PointTimeEstimate(precomputed)
             found == Pipeline!PointTimeEstimate(extracted)
  <2>1. EstimateBy(a.field, a.previous, cloud, precomputed)
          = IF precomputed # NoScan THEN given
            ELSE IF a.field # NoField /\ extracted # NoScan THEN found ELSE headers
    BY DEF EstimateBy
  <2>2. CASE precomputed # NoScan
    <3>1. b = [a EXCEPT !.estimate = given]
      BY <2>2 DEF Pipeline!ObserveScan
    <3> HIDE DEF b, given, found, headers, extracted
    <3> QED  BY <1>2, <2>1, <2>2, <3>1 DEF PipelineFields
  <2>3. CASE precomputed = NoScan /\ a.field = NoField
    <3>1. b = [a EXCEPT !.estimate = headers]
      BY <2>3 DEF Pipeline!ObserveScan
    <3> HIDE DEF b, given, found, headers, extracted
    <3> QED  BY <1>2, <2>1, <2>3, <3>1 DEF PipelineFields
  <2>4. CASE precomputed = NoScan /\ a.field # NoField
    <3> DEFINE read == IF extracted # NoScan THEN found ELSE headers
    <3>1. b = [a EXCEPT !.estimate = read, !.pointTime.attempted = TRUE,
                        !.pointTime.used = extracted # NoScan]
      BY <2>4 DEF Pipeline!ObserveScan
    <3>2. EstimateBy(a.field, a.previous, cloud, precomputed) = read
      BY <2>1, <2>4
    <3> HIDE DEF b, read, given, found, headers, extracted
    <3> QED  BY <1>2, <3>1, <3>2 DEF PipelineFields
  <2> QED  BY <2>2, <2>3, <2>4
<1> HIDE DEF b
<1>4. /\ q.inspected = b.inspected /\ q.field = b.field /\ q.estimate = b.estimate
      /\ q.previous = cloud.header
  BY <1>3 DEF Pipeline!ObserveTransforms, Pipeline!ObserveLidar, Pipeline!ObserveCoverage,
              PipelineFields, a, b
<1> HIDE DEF q
<1> QED  BY <1>2, <1>3, <1>4 DEF q

\* The streams' own steps leave the choice of the window and the scan judged alone.
LEMMA StreamsLeaveWindow ==
    ASSUME NEW p, IsPipeline(p), NEW q,
           \/ \E stamp : q = Pipeline!ObserveImu(p, stamp)
           \/ q = Pipeline!ConsumeWindows(p)
    PROVE  /\ q.inspected = p.inspected /\ q.field = p.field /\ q.previous = p.previous
           /\ q.coverage = p.coverage /\ q.pointTime = p.pointTime
           /\ q.estimate = p.estimate /\ q.transforms = p.transforms
<1>1. ASSUME NEW x, NEW y,
             q = [p EXCEPT !.imuTiming = x, !.buffer = y]
             \/ q = [p EXCEPT !.imuTiming = x, !.lidarTiming = y]
      PROVE  /\ q.inspected = p.inspected /\ q.field = p.field /\ q.previous = p.previous
             /\ q.coverage = p.coverage /\ q.pointTime = p.pointTime
             /\ q.estimate = p.estimate /\ q.transforms = p.transforms
  BY <1>1 DEF IsPipeline, PipelineFields
<1> QED  BY <1>1 DEF Pipeline!ObserveImu, Pipeline!ConsumeWindows

\* What a decision does to the pipeline, and what it records.
LEMMA CloudDecided ==
    ASSUME PipelineInv, NEW id, NEW cloud \in Clouds, NEW precomputed \in {NoScan} \cup Windows,
           ProcessLidarCloud(id, cloud, precomputed)
    PROVE  /\ pipeline'.inspected
           /\ pipeline.inspected => pipeline'.field = pipeline.field
           /\ pipeline'.previous = cloud.header
           /\ pipeline'.buffer = pipeline.buffer
           /\ event'.cloud = id /\ event'.reached = latestImu
           /\ event'.estimate = EstimateBy(pipeline'.field, pipeline.previous, cloud, precomputed)
           /\ event'.estimate.window \in Windows
           /\ event'.coverage = Pipeline!Coverage!Analyze(event'.estimate.window,
                                                          Pipeline!Stamps(pipeline))
<1>1. PICK answers \in TransformAnswers :
          LET observed == Pipeline!ObserveTransforms(
                              Pipeline!ObserveLidar(pipeline, cloud, precomputed),
                              Pipeline!TransformAge!StatusesOf(cloud.header, answers))
          IN  /\ pipeline' = observed
              /\ event'.cloud = id
              /\ event'.estimate = observed.estimate
              /\ event'.coverage = observed.coverage
              /\ event'.reached = latestImu
  BY DEF ProcessLidarCloud
<1> DEFINE statuses == Pipeline!TransformAge!StatusesOf(cloud.header, answers)
<1>2. IsFiniteSet(DOMAIN statuses) /\ cloud.header \in Int
  BY NodeAssumption DEF Pipeline!TransformAge!StatusesOf
<1>3. /\ pipeline' = Pipeline!ObserveTransforms(
                         Pipeline!ObserveLidar(pipeline, cloud, precomputed), statuses)
      /\ event'.cloud = id /\ event'.reached = latestImu
      /\ event'.estimate = pipeline'.estimate /\ event'.coverage = pipeline'.coverage
  BY <1>1
<1> HIDE DEF statuses
<1>4. /\ pipeline'.buffer = pipeline.buffer
      /\ pipeline'.estimate.window \in Windows
      /\ pipeline'.coverage = Pipeline!Coverage!Analyze(pipeline'.estimate.window,
                                                        Pipeline!Stamps(pipeline))
  BY <1>2, <1>3, LidarObserved DEF PipelineInv
<1>5. /\ pipeline'.inspected
      /\ pipeline.inspected => pipeline'.field = pipeline.field
      /\ pipeline'.previous = cloud.header
      /\ pipeline'.estimate = EstimateBy(pipeline'.field, pipeline.previous, cloud, precomputed)
  BY <1>2, <1>3, CloudEstimated DEF PipelineInv
<1> QED  BY <1>3, <1>4, <1>5

\* The header of the cloud before the n-th of a sequence of received clouds.
HeaderBefore(received, n) == IF n = 1 THEN NoStamp ELSE received[n - 1].cloud.header

\* ... and of the one decided before the n-th decision.
HeaderDecidedBefore(received, order, n) ==
    IF n = 1 THEN NoStamp ELSE received[order[n - 1]].cloud.header

\* What is known of a cloud from its arrival on: its ready stamp is past the
\* window it waits for, a window read on arrival was read by the field the
\* holdback path has chosen for good, and one estimated from headers follows on
\* the cloud before, unless that one was read by its points.
ArrivedWell(i) ==
    /\ readyOf[i] >= clouds[i].awaited.end
    /\ clouds[i].precomputed # NoScan =>
          /\ clouds[i].awaited = clouds[i].precomputed
          /\ holdbackField # NoField
          /\ clouds[i].precomputed = Pipeline!PointTime!Extract(clouds[i].cloud, holdbackField)
    /\ (/\ HoldbackEnabled /\ clouds[i].precomputed = NoScan
        /\ i > 1 => clouds[i - 1].precomputed = NoScan)
       => clouds[i].awaited = Pipeline!Scan!Estimate(HeaderBefore(clouds, i),
                                                     clouds[i].cloud.header).window

ArrivalInv ==
    /\ \A i \in 1 .. Len(clouds) : ArrivedWell(i)
    /\ HoldbackEnabled =>
          /\ clouds = <<>> => holdbackPrevious = NoStamp
          /\ clouds # <<>> /\ clouds[Len(clouds)].precomputed = NoScan
                => holdbackPrevious = clouds[Len(clouds)].cloud.header

LEMMA ReadyAfterScan ==
    ASSUME HoldbackType, NEW cloud \in Clouds
    PROVE  ReadyStamp(cloud) >= (IF Precomputed(cloud) # NoScan
                                 THEN Precomputed(cloud) ELSE HoldbackWindow(cloud)).end
<1>1. cloud.header \in Int /\ Tolerance \in Nat /\ FallbackScanDuration \in Nat
  BY NodeAssumption, PartsAreFit
<1>2. HoldbackWindow(cloud).end \in Int
  BY <1>1, EstimatedWindow DEF HoldbackType, HoldbackWindow, Windows
<1>3. Precomputed(cloud) # NoScan => Precomputed(cloud).end \in Int
  BY PrecomputedWindow DEF Windows
<1> QED  BY <1>1, <1>2, <1>3 DEF ReadyStamp

LEMMA ArrivalInvStep ==
    ASSUME HoldbackType, CloudsInv, Queue!IInv, ArrivalInv, [Next]_vars
    PROVE  ArrivalInv'
<1>1. ASSUME NEW cloud \in Clouds, OnLidarReceived(cloud) PROVE ArrivalInv'
  <2> DEFINE n == Len(clouds)
             awaited == IF Precomputed(cloud) # NoScan
                        THEN Precomputed(cloud) ELSE HoldbackWindow(cloud)
             received == [cloud |-> cloud, precomputed |-> Precomputed(cloud),
                          awaited |-> awaited]
             ready == ReadyStamp(cloud)
             field == FieldAfter(cloud)
  <2>1. /\ clouds' = Append(clouds, received) /\ readyOf' = Append(readyOf, ready)
        /\ holdbackField' = field
        /\ holdbackPrevious' = IF HoldbackEnabled /\ Precomputed(cloud) = NoScan
                               THEN cloud.header ELSE holdbackPrevious
    BY <1>1 DEF OnLidarReceived, Holdback!OnLidarReceived
  <2>2. /\ holdbackField # NoField => field = holdbackField
        /\ Precomputed(cloud) # NoScan =>
              /\ field # NoField
              /\ Precomputed(cloud) = Pipeline!PointTime!Extract(cloud, field)
    BY DEF FieldAfter, Precomputed
  <2>3. /\ Precomputed(cloud) # NoScan => awaited = Precomputed(cloud)
        /\ Precomputed(cloud) = NoScan
              => awaited = Pipeline!Scan!Estimate(holdbackPrevious, cloud.header).window
        /\ ready >= awaited.end
    BY ReadyAfterScan DEF HoldbackWindow
  <2>4. ready \in ReadyStamps /\ readyOf \in Seq(ReadyStamps)
    BY ReadyStampIsATime DEF Queue!IInv, Queue!TypeOK
  <2> HIDE DEF awaited, field, ready
  <2>5. /\ n \in Nat /\ Len(readyOf) = n
        /\ Len(clouds') = n + 1
        /\ \A i \in 1 .. n : clouds'[i] = clouds[i] /\ readyOf'[i] = readyOf[i]
        /\ clouds'[n + 1].cloud = cloud
        /\ clouds'[n + 1].precomputed = Precomputed(cloud)
        /\ clouds'[n + 1].awaited = awaited
        /\ readyOf'[n + 1] = ready
        /\ clouds' # <<>> /\ (clouds = <<>> <=> n = 0)
    BY <2>1, <2>4, AppendProperties, LenProperties, EmptySeq DEF CloudsInv
  <2> HIDE DEF n
  <2>6. ASSUME NEW i \in 1 .. n PROVE ArrivedWell(i)'
    <3>1. ArrivedWell(i)
      BY DEF ArrivalInv, n
    <3>2. /\ clouds'[i] = clouds[i] /\ readyOf'[i] = readyOf[i]
          /\ i > 1 => clouds'[i - 1] = clouds[i - 1]
      BY <2>5
    <3>3. HeaderBefore(clouds', i) = HeaderBefore(clouds, i)
      BY <3>2, <2>5 DEF HeaderBefore
    <3> QED  BY <2>1, <2>2, <3>1, <3>2, <3>3 DEF ArrivedWell
  <2>7. ASSUME NEW k \in Nat, k = n + 1 PROVE ArrivedWell(k)'
    <3>1. ASSUME HoldbackEnabled, Precomputed(cloud) = NoScan,
                 k > 1 => clouds'[k - 1].precomputed = NoScan
          PROVE  holdbackPrevious = HeaderBefore(clouds', k)
      <4>1. CASE n = 0
        BY <2>5, <2>7, <3>1, <4>1 DEF ArrivalInv, HeaderBefore
      <4>2. CASE n # 0
        <5>1. n \in 1 .. n /\ clouds'[n] = clouds[n] /\ k > 1 /\ k # 1 /\ k - 1 = n
          BY <2>5, <2>7, <4>2
        <5>2. holdbackPrevious = clouds[n].cloud.header
          BY <2>5, <3>1, <4>2, <5>1 DEF ArrivalInv, n
        <5> QED  BY <5>1, <5>2 DEF HeaderBefore
      <4> QED  BY <4>1, <4>2
    <3>2. /\ clouds'[k].cloud = cloud /\ clouds'[k].precomputed = Precomputed(cloud)
          /\ clouds'[k].awaited = awaited /\ readyOf'[k] = ready
      BY <2>5, <2>7
    <3> QED  BY <2>1, <2>2, <2>3, <3>1, <3>2 DEF ArrivedWell
  <2>8. \A i \in 1 .. Len(clouds') : ArrivedWell(i)'
    <3> SUFFICES ASSUME NEW i \in 1 .. Len(clouds') PROVE ArrivedWell(i)'
      OBVIOUS
    <3>1. CASE i \in 1 .. n
      BY <2>6, <3>1
    <3>2. CASE i = n + 1
      BY <2>5, <2>7, <3>2
    <3> QED  BY <2>5, <3>1, <3>2
  <2>9. HoldbackEnabled /\ clouds'[Len(clouds')].precomputed = NoScan
            => holdbackPrevious' = clouds'[Len(clouds')].cloud.header
    BY <2>1, <2>5
  <2> QED  BY <2>5, <2>8, <2>9 DEF ArrivalInv
<1>2. CASE UNCHANGED <<clouds, readyOf, windowVars>>
  BY <1>2 DEF ArrivalInv, ArrivedWell, windowVars
<1> QED  BY <1>1, <1>2 DEF Next, OnImuReceived, ProcessReadyPendingCloud, FinishDraining, OnTimer,
             Holdback!OnImuReceived, Holdback!ProcessReadyPendingCloud, Holdback!FinishDraining,
             vars, holdbackVars

\* The pipeline's estimator follows on the cloud decided last, and the last
\* decision was made by the window that gives, no earlier than its ready stamp.
DecidedWell ==
    LET last == Len(decided)
        received == clouds[event.cloud]
    IN  /\ decided # <<>> /\ event.cloud = decided[last]
        /\ pipeline.inspected
        /\ HoldbackEnabled => event.reached \in Int /\ event.reached >= readyOf[event.cloud]
        /\ event.estimate.window \in Windows
        /\ event.estimate = EstimateBy(pipeline.field, HeaderDecidedBefore(clouds, decided, last),
                                       received.cloud, received.precomputed)

DecisionInv ==
    /\ pipeline.previous = HeaderDecidedBefore(clouds, decided, Len(decided) + 1)
    /\ event # NoEvent => DecidedWell

\* What is decided was received.
LEMMA DecidedAreReceived ==
    ASSUME CloudsInv, Queue!IInv
    PROVE  /\ decided \in Seq(Nat \ {0}) /\ Len(decided) \in Nat
           /\ Len(clouds) \in Nat /\ Len(clouds) = Len(readyOf)
           /\ \A i \in 1 .. Len(decided) : decided[i] \in 1 .. Len(clouds)
           /\ \A i \in 1 .. Len(clouds) : clouds[i] \in Received /\ readyOf[i] \in Int
<1>1. decided \in Seq(Nat \ {0}) /\ readyOf \in Seq(Int)
  BY DEF Queue!IInv, Queue!TypeOK, ReadyStamps
<1>2. Len(decided) \in Nat /\ Len(clouds) \in Nat /\ Len(clouds) = Len(readyOf)
  BY <1>1, LenProperties DEF CloudsInv
<1>3. \A i \in 1 .. Len(decided) : decided[i] <= Len(readyOf)
  BY DEF Queue!IInv, Queue!TypeOK, Queue!arrived
<1>4. \A i \in 1 .. Len(decided) : decided[i] \in Nat \ {0}
  BY <1>1, ElementOfSeq
<1>5. \A i \in 1 .. Len(clouds) : clouds[i] \in Received /\ readyOf[i] \in Int
  BY <1>1, <1>2, ElementOfSeq DEF CloudsInv
<1> QED  BY <1>1, <1>2, <1>3, <1>4, <1>5

\* A cloud is decided.
LEMMA DecidingKeepsInv ==
    ASSUME PipelineInv, CloudsInv, CloudsInv', Queue!IInv, Queue!IInv', DecisionInv,
           NEW id \in 1 .. Len(clouds'),
           ProcessLidarCloud(id, clouds'[id].cloud, clouds'[id].precomputed),
           decided' = Append(decided, id), latestImu' = latestImu,
           \A i \in 1 .. Len(clouds) : clouds'[i] = clouds[i]
    PROVE  DecisionInv'
<1> DEFINE n == Len(decided)
           received == clouds'[id]
<1>1. /\ decided \in Seq(Nat \ {0}) /\ n \in Nat
      /\ \A i \in 1 .. n : decided[i] \in 1 .. Len(clouds)
      /\ received \in Received
      /\ id \in Nat \ {0}
  <2>1. received \in Received /\ Len(clouds') \in Nat
    BY ElementOfSeq, LenProperties DEF CloudsInv
  <2> QED  BY <2>1, DecidedAreReceived
<1>2. received.cloud \in Clouds /\ received.precomputed \in {NoScan} \cup Windows
  BY <1>1 DEF Received
<1>3. /\ Len(decided') = n + 1 /\ decided'[n + 1] = id /\ decided' # <<>>
      /\ \A i \in 1 .. n : decided'[i] = decided[i]
  <2>1. decided' \in Seq(Nat \ {0}) /\ Len(decided') = n + 1 /\ decided'[n + 1] = id
        /\ \A i \in 1 .. n : decided'[i] = decided[i]
    BY <1>1, AppendProperties
  <2> QED  BY <1>1, <2>1, EmptySeq
<1>4. /\ pipeline'.inspected
      /\ pipeline'.previous = received.cloud.header
      /\ event'.cloud = id /\ event'.reached = latestImu
      /\ event'.estimate = EstimateBy(pipeline'.field, pipeline.previous,
                                      received.cloud, received.precomputed)
      /\ event'.estimate.window \in Windows
  <2> HIDE DEF received
  <2>1. ProcessLidarCloud(id, received.cloud, received.precomputed)
    BY DEF received
  <2> QED  BY <1>2, <2>1, CloudDecided
<1> HIDE DEF n
<1>5. pipeline.previous = HeaderDecidedBefore(clouds', decided', n + 1)
  <2>1. pipeline.previous = HeaderDecidedBefore(clouds, decided, n + 1)
    BY DEF DecisionInv, n
  <2>2. CASE n = 0
    BY <2>1, <2>2 DEF HeaderDecidedBefore
  <2>3. CASE n # 0
    <3>1. n \in 1 .. n /\ (n + 1) - 1 = n /\ n + 1 # 1
      BY <1>1, <2>3
    <3>2. decided'[n] = decided[n] /\ clouds'[decided[n]] = clouds[decided[n]]
      BY <1>1, <1>3, <3>1
    <3> QED  BY <2>1, <3>1, <3>2 DEF HeaderDecidedBefore
  <2> QED  BY <2>2, <2>3
<1>6. pipeline'.previous = HeaderDecidedBefore(clouds', decided', Len(decided') + 1)
  <2>1. (n + 2) - 1 = n + 1 /\ n + 2 # 1 /\ Len(decided') + 1 = n + 2
    BY <1>1, <1>3
  <2>2. decided'[(n + 2) - 1] = id
    BY <1>3, <2>1
  <2> QED  BY <1>4, <2>1, <2>2 DEF HeaderDecidedBefore, received
<1>7. HoldbackEnabled => latestImu \in Int /\ latestImu >= readyOf'[id]
  <2> SUFFICES ASSUME HoldbackEnabled PROVE latestImu \in Int /\ latestImu >= readyOf'[id]
    OBVIOUS
  <2>1. n + 1 \in 1 .. Len(decided') /\ decided'[n + 1] = id
    BY <1>1, <1>3
  <2>2. \A i \in 1 .. Len(decided') : latestImu' # NoStamp /\ latestImu' >= readyOf'[decided'[i]]
    BY DEF Queue!IInv, Queue!DecidedCloudsWereReady, Queue!ImuReached
  <2>3. latestImu \in Int \cup {NoStamp}
    BY NodeAssumption DEF Queue!IInv, Queue!TypeOK
  <2> QED  BY <2>1, <2>2, <2>3
<1> QED  BY <1>3, <1>4, <1>5, <1>6, <1>7 DEF DecisionInv, DecidedWell, received

\* Nothing is decided; a cloud may be received.
LEMMA NotDecidingKeepsInv ==
    ASSUME CloudsInv, Queue!IInv, DecisionInv, UNCHANGED <<decided, event>>,
           pipeline'.inspected = pipeline.inspected, pipeline'.field = pipeline.field,
           pipeline'.previous = pipeline.previous,
           \A i \in 1 .. Len(clouds) : clouds'[i] = clouds[i] /\ readyOf'[i] = readyOf[i]
    PROVE  DecisionInv'
<1>1. /\ Len(decided) \in Nat /\ \A i \in 1 .. Len(decided) : decided[i] \in 1 .. Len(clouds)
      /\ decided \in Seq(Nat \ {0})
  BY DecidedAreReceived
<1>2. ASSUME NEW n \in 1 .. Len(decided) + 1
      PROVE  HeaderDecidedBefore(clouds', decided, n) = HeaderDecidedBefore(clouds, decided, n)
  <2>1. n # 1 => n - 1 \in 1 .. Len(decided)
    BY <1>1
  <2>2. n # 1 => clouds'[decided[n - 1]] = clouds[decided[n - 1]]
    BY <1>1, <2>1
  <2> QED  BY <2>2 DEF HeaderDecidedBefore
<1>3. pipeline'.previous = HeaderDecidedBefore(clouds', decided', Len(decided') + 1)
  BY <1>1, <1>2 DEF DecisionInv
<1>4. ASSUME DecidedWell PROVE DecidedWell'
  <2>1. Len(decided) \in 1 .. Len(decided) /\ Len(decided) \in 1 .. Len(decided) + 1
    BY <1>1, <1>4, EmptySeq DEF DecidedWell
  <2>2. event.cloud \in 1 .. Len(clouds)
    BY <1>1, <1>4, <2>1 DEF DecidedWell
  <2>3. clouds'[event.cloud] = clouds[event.cloud] /\ readyOf'[event.cloud] = readyOf[event.cloud]
    BY <2>2
  <2>4. HeaderDecidedBefore(clouds', decided, Len(decided))
            = HeaderDecidedBefore(clouds, decided, Len(decided))
    BY <1>2, <2>1
  <2> QED  BY <1>4, <2>3, <2>4 DEF DecidedWell
<1> QED  BY <1>3, <1>4 DEF DecisionInv

LEMMA DecisionInvStep ==
    ASSUME NodeInv, NodeInv', Queue!IInv, Queue!IInv', DecisionInv, [Next]_vars
    PROVE  DecisionInv'
<1> USE DEF NodeInv
<1>1. ASSUME UNCHANGED <<decided, event, clouds, readyOf>>,
             \/ \E stamp : pipeline' = Pipeline!ObserveImu(pipeline, stamp)
             \/ pipeline' = Pipeline!ConsumeWindows(pipeline)
             \/ pipeline' = pipeline
      PROVE  DecisionInv'
  <2>1. /\ pipeline'.inspected = pipeline.inspected /\ pipeline'.field = pipeline.field
        /\ pipeline'.previous = pipeline.previous
    BY <1>1, StreamsLeaveWindow DEF PipelineInv
  <2> QED  BY <1>1, <2>1, NotDecidingKeepsInv
<1>2. ASSUME NEW stamp \in ImuStamps, OnImuReceived(stamp) PROVE DecisionInv'
  BY <1>1, <1>2 DEF OnImuReceived, Holdback!OnImuReceived
<1>3. CASE FinishDraining \/ OnTimer \/ UNCHANGED vars
  BY <1>1, <1>3 DEF FinishDraining, Holdback!FinishDraining, OnTimer, vars, holdbackVars
<1>4. CASE ProcessReadyPendingCloud
  <2> DEFINE id == Head(pending).id
  <2>1. /\ ProcessLidarCloud(id, clouds[id].cloud, clouds[id].precomputed)
        /\ clouds' = clouds /\ decided' = Append(decided, id) /\ latestImu' = latestImu
    BY <1>4 DEF ProcessReadyPendingCloud, Holdback!ProcessReadyPendingCloud
  <2>2. id \in 1 .. Len(clouds')
    BY <1>4, <2>1, PendingAreReceived
  <2> HIDE DEF id
  <2> QED  BY <2>1, <2>2, DecidingKeepsInv
<1>5. ASSUME NEW cloud \in Clouds, OnLidarReceived(cloud) PROVE DecisionInv'
  <2> DEFINE received == [cloud |-> cloud, precomputed |-> Precomputed(cloud),
                          awaited |-> IF Precomputed(cloud) # NoScan
                                      THEN Precomputed(cloud) ELSE HoldbackWindow(cloud)]
             id == Len(clouds')
  <2>1. /\ clouds' = Append(clouds, received) /\ readyOf' = Append(readyOf, ReadyStamp(cloud))
        /\ latestImu' = latestImu
        /\ Holdback!ProcessAtOnce(ReadyStamp(cloud)) \/ Holdback!HoldBack(ReadyStamp(cloud))
        /\ IF decided' # decided
           THEN ProcessLidarCloud(Len(clouds'), cloud, Precomputed(cloud))
           ELSE UNCHANGED <<pipeline, published, event>>
    BY <1>5 DEF OnLidarReceived, Holdback!OnLidarReceived
  <2>2. ReadyStamp(cloud) \in ReadyStamps /\ readyOf \in Seq(ReadyStamps)
        /\ decided \in Seq(Nat \ {0})
    BY ReadyStampIsATime DEF Queue!IInv, Queue!TypeOK
  <2>3. received.cloud = cloud /\ received.precomputed = Precomputed(cloud)
    OBVIOUS
  <2> HIDE DEF received
  <2>4. /\ Len(clouds) \in Nat /\ Len(clouds) = Len(readyOf) /\ Len(clouds') = Len(clouds) + 1
        /\ \A i \in 1 .. Len(clouds) : clouds'[i] = clouds[i] /\ readyOf'[i] = readyOf[i]
        /\ clouds'[Len(clouds) + 1] = received
    BY <2>1, <2>2, AppendProperties, LenProperties DEF CloudsInv
  <2>5. CASE Holdback!ProcessAtOnce(ReadyStamp(cloud))
    <3>1. decided' = Append(decided, id)
      BY <2>4, <2>5 DEF Holdback!ProcessAtOnce, Holdback!arrived
    <3>2. id \in Nat \ {0} /\ id \in 1 .. Len(clouds') /\ clouds'[id] = received
      BY <2>4
    <3>3. decided' # decided
      BY <2>2, <3>1, <3>2, AppendProperties, LenProperties
    <3>4. ProcessLidarCloud(id, clouds'[id].cloud, clouds'[id].precomputed)
      BY <2>1, <2>3, <3>2, <3>3
    <3> HIDE DEF id
    <3> QED  BY <2>1, <2>4, <3>1, <3>2, <3>4, DecidingKeepsInv
  <2>6. CASE Holdback!HoldBack(ReadyStamp(cloud))
    <3>1. decided' = decided /\ event' = event /\ pipeline' = pipeline
      BY <2>1, <2>6 DEF Holdback!HoldBack
    <3> QED  BY <2>4, <3>1, NotDecidingKeepsInv
  <2> QED  BY <2>1, <2>5, <2>6
<1> QED  BY <1>2, <1>3, <1>4, <1>5 DEF Next

LEMMA WindowInvHolds == Spec => [](ArrivalInv /\ DecisionInv)
<1>1. Init => ArrivalInv /\ DecisionInv
  <2> SUFFICES ASSUME Init PROVE ArrivalInv /\ DecisionInv
    OBVIOUS
  <2>1. clouds = <<>> /\ decided = <<>> /\ holdbackPrevious = NoStamp /\ event = NoEvent
        /\ pipeline.previous = NoStamp
    BY DEF Init, Holdback!Init, Pipeline!NewPipeline
  <2>2. Len(clouds) = 0 /\ Len(decided) = 0
    BY <2>1, EmptySeq
  <2> QED  BY <2>1, <2>2 DEF ArrivalInv, DecisionInv, HeaderDecidedBefore
<1>2. NodeInv /\ NodeInv' /\ Queue!IInv /\ Queue!IInv' /\ ArrivalInv /\ DecisionInv /\ [Next]_vars
          => ArrivalInv' /\ DecisionInv'
  BY ArrivalInvStep, DecisionInvStep DEF NodeInv
<1> QED  BY <1>1, <1>2, NodeInvHolds, QueueInvHolds, PTL DEF Spec

\* A field that is true of a cloud gives its scan or nothing.
LEMMA FieldGivesScan ==
    ASSUME NEW cloud \in Clouds, NEW i \in DOMAIN cloud.fields,
           Pipeline!PointTime!Extract(cloud, cloud.fields[i]) # NoScan
    PROVE  Pipeline!PointTime!Extract(cloud, cloud.fields[i]) = cloud.scan
<1> DEFINE field == cloud.fields[i]
           role == Pipeline!PointTime!ResolveTimeFieldRole(field)
           zero == IF role = "point_time" THEN 0 ELSE cloud.header
           times == Pipeline!PointTime!PointTimes(cloud, field)
           raw == IF /\ field.offset \in DOMAIN cloud.values
                     /\ Pipeline!PointTime!IsConvertible(role, field.datatype)
                  THEN cloud.values[field.offset] ELSE {}
           start == cloud.scan.start
           end == cloud.scan.end
<1>1. /\ cloud.header \in Int /\ raw \subseteq Int
      /\ cloud.scan \in [start : Int, end : Int]
      /\ raw # {} => /\ start - zero \in raw /\ end - zero \in raw
                     /\ \A value \in raw : start <= zero + value /\ zero + value <= end
  BY NodeAssumption, PointTimesAreTrue DEF HasBounds
<1>2. times = IF role = "point_time" THEN raw ELSE {cloud.header + offset : offset \in raw}
  BY DEF Pipeline!PointTime!PointTimes, Pipeline!PointTime!TimesByRole
<1>3. /\ times # {}
      /\ Pipeline!PointTime!Extract(cloud, field)
           = [start |-> Pipeline!PointTime!Min(times), end |-> Pipeline!PointTime!Max(times)]
  BY DEF Pipeline!PointTime!Extract, Pipeline!PointTime!WindowOf
<1>4. zero \in Int
  BY <1>1
<1> HIDE DEF raw, times, role
<1>5. times = {zero + value : value \in raw}
  <2>1. CASE role = "point_time"
    <3>1. \A value \in raw : 0 + value = value
      BY <1>1
    <3>2. zero = 0 /\ times = raw
      BY <1>2, <2>1
    <3> HIDE DEF zero
    <3> QED  BY <3>1, <3>2
  <2>2. CASE role # "point_time"
    <3>1. zero = cloud.header
      BY <2>2
    <3> HIDE DEF zero
    <3> QED  BY <1>2, <2>2, <3>1
  <2> QED  BY <2>1, <2>2
<1> HIDE DEF zero
<1>6. raw # {}
  BY <1>3, <1>5
<1>7. start \in Int /\ end \in Int /\ start \in times /\ end \in times
  <2>1. start \in Int /\ end \in Int
    BY <1>1
  <2>2. zero + (start - zero) = start /\ zero + (end - zero) = end
    BY <1>4, <2>1
  <2> QED  BY <1>1, <1>5, <1>6, <2>1, <2>2
<1>8. \A t \in times : t \in Int /\ start <= t /\ t <= end
  BY <1>1, <1>4, <1>5, <1>6
<1>9. Pipeline!PointTime!Min(times) = start /\ Pipeline!PointTime!Max(times) = end
  <2>1. ASSUME NEW x \in times, \A t \in times : x <= t PROVE x = start
    BY <1>7, <1>8, <2>1
  <2>2. ASSUME NEW x \in times, \A t \in times : x >= t PROVE x = end
    BY <1>7, <1>8, <2>2
  <2> QED  BY <1>7, <1>8, <2>1, <2>2 DEF Pipeline!PointTime!Min, Pipeline!PointTime!Max
<1>10. cloud.scan = [start |-> start, end |-> end]
  BY <1>1
<1> QED  BY <1>3, <1>9, <1>10

\* A cloud judged by a window its points gave is judged by the interval it was
\* taken in, whichever path read it and however long ago (the two users of
\* PointCloud2TimeFieldExtractor), provided the fields that both paths keep from
\* some first cloud are fields of this one.
THEOREM PointTimeWindowsAreTheScans == Spec => []PointTimesGiveTheScan
<1>1. ASSUME CloudsInv, Queue!IInv, ArrivalInv, DecisionInv PROVE PointTimesGiveTheScan
  <2> DEFINE received == clouds[event.cloud]
             cloud == received.cloud
             chosen == {holdbackField, pipeline.field} \ {NoField}
  <2> SUFFICES ASSUME event # NoEvent, event.estimate.source = "point_time_field",
                      chosen \subseteq {cloud.fields[i] : i \in DOMAIN cloud.fields}
               PROVE  event.estimate.window = cloud.scan
    BY DEF PointTimesGiveTheScan
  <2>1. DecidedWell
    BY <1>1 DEF DecisionInv
  <2>2. event.cloud \in 1 .. Len(clouds)
    <3>1. decided # <<>> /\ event.cloud = decided[Len(decided)]
      BY <2>1 DEF DecidedWell
    <3>2. Len(decided) \in 1 .. Len(decided)
      BY <1>1, <3>1, DecidedAreReceived, EmptySeq
    <3> QED  BY <1>1, <3>1, <3>2, DecidedAreReceived
  <2>3. ArrivedWell(event.cloud) /\ cloud \in Clouds
    <3>1. received \in Received
      BY <1>1, <2>2, DecidedAreReceived
    <3> QED  BY <1>1, <2>2, <3>1 DEF ArrivalInv, Received
  <2> HIDE DEF received
  <2>4. \E field \in chosen :
            /\ Pipeline!PointTime!Extract(cloud, field) # NoScan
            /\ event.estimate.window = Pipeline!PointTime!Extract(cloud, field)
    <3>1. event.estimate = EstimateBy(pipeline.field,
                               HeaderDecidedBefore(clouds, decided, Len(decided)),
                               cloud, received.precomputed)
      BY <2>1 DEF DecidedWell, received
    <3>2. CASE received.precomputed # NoScan
      <4>1. event.estimate.window = received.precomputed
        BY <3>1, <3>2 DEF EstimateBy, Pipeline!PointTimeEstimate
      <4>2. /\ holdbackField # NoField
            /\ received.precomputed = Pipeline!PointTime!Extract(cloud, holdbackField)
        BY <2>3, <3>2 DEF ArrivedWell, received
      <4> QED  BY <3>2, <4>1, <4>2
    <3>3. CASE /\ received.precomputed = NoScan /\ pipeline.field # NoField
               /\ Pipeline!PointTime!Extract(cloud, pipeline.field) # NoScan
      <4>1. event.estimate.window = Pipeline!PointTime!Extract(cloud, pipeline.field)
        BY <3>1, <3>3 DEF EstimateBy, Pipeline!PointTimeEstimate
      <4> QED  BY <3>3, <4>1
    <3>4. CASE /\ received.precomputed = NoScan
               /\ ~ (/\ pipeline.field # NoField
                     /\ Pipeline!PointTime!Extract(cloud, pipeline.field) # NoScan)
      <4>1. event.estimate = Pipeline!Scan!Estimate(
                HeaderDecidedBefore(clouds, decided, Len(decided)), cloud.header)
        BY <3>1, <3>4 DEF EstimateBy
      <4> QED  BY <4>1 DEF Pipeline!Scan!Estimate
    <3> QED  BY <3>2, <3>3, <3>4
  <2>5. PICK field \in chosen :
            /\ Pipeline!PointTime!Extract(cloud, field) # NoScan
            /\ event.estimate.window = Pipeline!PointTime!Extract(cloud, field)
    BY <2>4
  <2>6. PICK i \in DOMAIN cloud.fields : field = cloud.fields[i]
    BY <2>5
  <2> QED  BY <2>3, <2>5, <2>6, FieldGivesScan
<1> QED  BY <1>1, NodeInvHolds, QueueInvHolds, WindowInvHolds, PTL DEF NodeInv

\* When both estimators saw the same clouds, the cloud judged was given the
\* window it waited for.
LEMMA JudgedByAwaited ==
    ASSUME CloudsInv, Queue!IInv, ArrivalInv, DecisionInv, Queue!EveryCloudAccountedFor,
           HoldbackEnabled, event # NoEvent, EstimatorsSawTheSame
    PROVE  /\ event.estimate.window = clouds[event.cloud].awaited
           /\ event.estimate.window \in Windows
           /\ event.reached \in Int
           /\ event.reached >= event.estimate.window.end
<1> DEFINE last == Len(decided)
           e == event.cloud
<1>1. DecidedWell
  BY DEF DecisionInv
<1>2. /\ decided # <<>> /\ e = decided[last] /\ last \in Nat /\ last \in 1 .. last
      /\ e \in 1 .. Len(clouds) /\ Len(clouds) \in Nat
      /\ clouds[e] \in Received /\ readyOf[e] \in Int
      /\ event.reached \in Int /\ event.reached >= readyOf[e]
      /\ event.estimate.window \in Windows
      /\ event.estimate = EstimateBy(pipeline.field, HeaderDecidedBefore(clouds, decided, last),
                                     clouds[e].cloud, clouds[e].precomputed)
  <2>1. decided # <<>> /\ e = decided[last]
    BY <1>1 DEF DecidedWell
  <2>2. last \in Nat /\ last \in 1 .. last
    BY <2>1, DecidedAreReceived, EmptySeq
  <2> QED  BY <1>1, <2>1, <2>2, DecidedAreReceived DEF DecidedWell
<1>3. ArrivedWell(e)
  BY <1>2 DEF ArrivalInv
<1>4. \A i, j \in 1 .. last : decided[i] = decided[j] => i = j
  BY DEF Queue!EveryCloudAccountedFor, Queue!Ledger!EveryCloudAccountedFor
<1> HIDE DEF last, e
<1>5. event.estimate.window = clouds[e].awaited
  <2>1. CASE clouds[e].precomputed # NoScan
    BY <1>2, <1>3, <2>1 DEF EstimateBy, Pipeline!PointTimeEstimate, ArrivedWell
  <2>2. CASE \A i \in 1 .. e :
                decided[i] = i /\ clouds[i].precomputed = NoScan /\ pipeline.field = NoField
    <3>1. e = last
      <4>1. CASE e <= last
        <5>1. e \in 1 .. last /\ e \in 1 .. e
          BY <1>2, <4>1
        <5>2. decided[e] = e
          BY <2>2, <5>1
        <5> QED  BY <1>2, <1>4, <5>1, <5>2
      <4>2. CASE last <= e
        <5>1. last \in 1 .. e
          BY <1>2, <4>2
        <5> QED  BY <1>2, <2>2, <5>1
      <4> QED  BY <1>2, <4>1, <4>2
    <3>2. /\ e \in 1 .. e /\ clouds[e].precomputed = NoScan /\ pipeline.field = NoField
      BY <1>2, <2>2
    <3>3. event.estimate = Pipeline!Scan!Estimate(HeaderDecidedBefore(clouds, decided, e),
                                                  clouds[e].cloud.header)
      BY <1>2, <3>1, <3>2 DEF EstimateBy
    <3>4. /\ HeaderDecidedBefore(clouds, decided, e) = HeaderBefore(clouds, e)
          /\ e > 1 => clouds[e - 1].precomputed = NoScan
      <4>1. e # 1 => e - 1 \in 1 .. e
        BY <1>2
      <4>2. e # 1 => decided[e - 1] = e - 1 /\ clouds[e - 1].precomputed = NoScan
        BY <2>2, <4>1
      <4>3. e > 1 => e # 1
        BY <1>2
      <4> QED  BY <4>2, <4>3 DEF HeaderDecidedBefore, HeaderBefore
    <3> QED  BY <1>3, <3>2, <3>3, <3>4 DEF ArrivedWell
  <2> QED  BY <2>1, <2>2 DEF EstimatorsSawTheSame, e
<1>6. clouds[e].awaited \in Windows /\ readyOf[e] >= clouds[e].awaited.end
  BY <1>2, <1>3 DEF Received, ArrivedWell
<1>7. event.reached >= event.estimate.window.end
  BY <1>2, <1>5, <1>6 DEF Windows
<1> QED  BY <1>2, <1>5, <1>7 DEF e

\* A cloud is judged by the window its ready stamp was computed from, and not
\* before the IMU stream has passed its end, however callbacks and drains
\* interleave (holdback_scan_window_estimator_ beside the pipeline's estimator).
THEOREM HeldBackCloudsWaitForTheirScan == Spec => []HoldbackWaitsForScan
<1>1. CloudsInv /\ Queue!IInv /\ ArrivalInv /\ DecisionInv /\ Queue!EveryCloudAccountedFor
          => HoldbackWaitsForScan
  BY JudgedByAwaited DEF HoldbackWaitsForScan
<1>2. Spec => []Queue!EveryCloudAccountedFor
  BY NodeDrivesQueue, PartsAreFit, Queue!NodeLedgerIsComplete
<1> QED  BY <1>1, <1>2, NodeInvHolds, QueueInvHolds, WindowInvHolds, PTL DEF NodeInv

-----------------------------------------------------------------------------
(* The samples a cloud is judged on *)

\* While the stream is in order the buffer holds its recent samples, and the
\* last cloud was judged on those recent when the stream had reached the stamp
\* recorded with it.
EvidenceInv ==
    /\ imuLog = <<>> <=> latestImu = NoStamp
    /\ Facts!Ordered(imuLog) =>
          /\ Facts!IsRecent(pipeline.buffer.samples, imuLog)
          /\ imuLog # <<>> => latestImu = imuLog[Len(imuLog)]
    /\ Facts!Ordered(imuLog) /\ HoldbackEnabled /\ event # NoEvent =>
          \E k \in 1 .. Len(imuLog) :
              /\ event.reached = imuLog[k]
              /\ event.coverage = Pipeline!Coverage!Analyze(event.estimate.window,
                                                            Facts!KeptAt(imuLog, k))

\* A sample that comes in order is buffered.
LEMMA ImuKeepsEvidence ==
    ASSUME PipelineInv, Queue!IInv, EvidenceInv, NEW stamp \in ImuStamps, OnImuReceived(stamp)
    PROVE  EvidenceInv'
<1> DEFINE n == Len(imuLog)
<1>1. /\ imuLog' = Append(imuLog, stamp) /\ event' = event
      /\ pipeline' = Pipeline!ObserveImu(pipeline, stamp)
      /\ latestImu' = IF latestImu = NoStamp \/ stamp > latestImu THEN stamp ELSE latestImu
  BY DEF OnImuReceived, Holdback!OnImuReceived
<1>2. stamp \in Int /\ NoStamp \notin Int /\ latestImu \in Int \cup {NoStamp}
  BY NodeAssumption, PartsAreFit DEF Queue!IInv, Queue!TypeOK
<1>3. /\ imuLog \in Seq(Int) /\ imuLog' \in Seq(Int) /\ n \in Nat /\ Len(imuLog') = n + 1
      /\ imuLog'[n + 1] = stamp /\ \A i \in 1 .. n : imuLog'[i] = imuLog[i]
      /\ imuLog' # <<>> /\ (imuLog = <<>> <=> n = 0)
      /\ \A i \in 1 .. n : imuLog[i] \in Int
  <2>1. /\ imuLog \in Seq(Int) /\ imuLog' \in Seq(Int) /\ n \in Nat /\ Len(imuLog') = n + 1
        /\ imuLog'[n + 1] = stamp /\ \A i \in 1 .. n : imuLog'[i] = imuLog[i]
    BY <1>1, <1>2, AppendProperties, LenProperties DEF PipelineInv
  <2> QED  BY <2>1, EmptySeq, ElementOfSeq
<1>4. pipeline'.buffer = Pipeline!Buffer!Add(pipeline.buffer, stamp)
  BY <1>1, <1>2, ImuKeepsPipeline DEF PipelineInv
<1> HIDE DEF n
<1>5. latestImu' # NoStamp
  BY <1>1, <1>2
<1>6. ASSUME Facts!Ordered(imuLog')
      PROVE  /\ Facts!Ordered(imuLog)
             /\ imuLog # <<>> => imuLog[n] <= stamp
             /\ latestImu' = stamp
  <2>1. \A i, j \in 1 .. n + 1 : i <= j => imuLog'[i] <= imuLog'[j]
    BY <1>3, <1>6 DEF Facts!Ordered
  <2>2. Facts!Ordered(imuLog)
    <3> SUFFICES ASSUME NEW i \in 1 .. Len(imuLog), NEW j \in 1 .. Len(imuLog), i <= j
                 PROVE  imuLog[i] <= imuLog[j]
      BY DEF Facts!Ordered
    <3>1. i \in 1 .. n /\ j \in 1 .. n /\ i \in 1 .. n + 1 /\ j \in 1 .. n + 1
      BY <1>3 DEF n
    <3> QED  BY <1>3, <2>1, <3>1
  <2>3. imuLog # <<>> => n \in 1 .. n /\ n \in 1 .. n + 1 /\ n + 1 \in 1 .. n + 1 /\ n <= n + 1
    BY <1>3
  <2>4. imuLog # <<>> => imuLog[n] <= stamp
    BY <1>3, <2>1, <2>3
  <2>5. latestImu' = stamp
    <3>1. CASE imuLog = <<>>
      BY <1>1, <3>1 DEF EvidenceInv
    <3>2. CASE imuLog # <<>>
      <4>1. latestImu = imuLog[n] /\ imuLog[n] \in Int
        BY <1>3, <2>2, <2>3, <3>2 DEF EvidenceInv, n
      <4> QED  BY <1>1, <1>2, <2>4, <3>2, <4>1
    <3> QED  BY <3>1, <3>2
  <2> QED  BY <2>2, <2>4, <2>5
<1>7. ASSUME Facts!Ordered(imuLog')
      PROVE  Facts!IsRecent(pipeline'.buffer.samples, imuLog')
  <2> DEFINE samples == pipeline.buffer.samples
             grown == Append(samples, stamp)
             cutoff == stamp - Retention
  <2>1. samples \in Seq(Int) /\ pipeline.buffer \in Buffers
    BY DEF PipelineInv, IsPipeline, Buffers
  <2>2. Facts!IsRecent(samples, imuLog)
    BY <1>6, <1>7 DEF EvidenceInv
  <2>3. samples # <<>> => ~ (stamp < Pipeline!Buffer!Back(pipeline.buffer))
    <3> SUFFICES ASSUME samples # <<>> PROVE ~ (stamp < samples[Len(samples)])
      BY DEF Pipeline!Buffer!Back
    <3>1. imuLog # <<>>
      BY <2>2 DEF Facts!IsRecent
    <3>2. samples[Len(samples)] = imuLog[n]
      BY <1>3, <2>1, <2>2, <3>1, PartsAreFit, Facts!LastIsBack DEF n
    <3>3. n \in 1 .. n
      BY <1>3, <3>1
    <3> QED  BY <1>2, <1>3, <1>6, <1>7, <3>1, <3>2, <3>3
  <2>4. pipeline'.buffer
          = [pipeline.buffer EXCEPT !.samples = Pipeline!Buffer!PruneOlderThan(grown, cutoff)]
    BY <1>4, <2>3 DEF Pipeline!Buffer!Add
  <2>5. Pipeline!Buffer!PruneOlderThan(grown, cutoff) = Facts!PruneOlderThan(grown, cutoff)
    BY DEF Pipeline!Buffer!PruneOlderThan, Facts!PruneOlderThan,
           Pipeline!Buffer!FirstKept, Facts!FirstKept
  <2> HIDE DEF grown, cutoff
  <2>6. pipeline'.buffer.samples = Facts!PruneOlderThan(grown, cutoff)
    BY <2>1, <2>4, <2>5 DEF Buffers
  <2> HIDE DEF samples
  <2>7. Facts!IsRecent(Facts!PruneOlderThan(grown, cutoff), Append(imuLog, stamp))
    BY <1>2, <1>3, <1>6, <1>7, <2>1, <2>2, PartsAreFit, Facts!AddKeepsRecent
    DEF grown, cutoff, n
  <2> QED  BY <1>1, <2>6, <2>7
<1>8. ASSUME Facts!Ordered(imuLog'), HoldbackEnabled, event # NoEvent
      PROVE  \E k \in 1 .. Len(imuLog') :
                 /\ event.reached = imuLog'[k]
                 /\ event.coverage = Pipeline!Coverage!Analyze(event.estimate.window,
                                                               Facts!KeptAt(imuLog', k))
  <2>1. PICK k \in 1 .. n :
            /\ event.reached = imuLog[k]
            /\ event.coverage = Pipeline!Coverage!Analyze(event.estimate.window,
                                                          Facts!KeptAt(imuLog, k))
    BY <1>6, <1>8 DEF EvidenceInv, n
  <2>2. k \in 1 .. Len(imuLog') /\ imuLog'[k] = imuLog[k]
        /\ \A j \in 1 .. k : imuLog'[j] = imuLog[j]
    BY <1>3
  <2>3. Facts!KeptAt(imuLog', k) = Facts!KeptAt(imuLog, k)
    BY <2>2 DEF Facts!KeptAt
  <2> QED  BY <2>1, <2>2, <2>3
<1>9. imuLog' # <<>> => (Facts!Ordered(imuLog') => latestImu' = imuLog'[Len(imuLog')])
  BY <1>3, <1>6
<1> QED  BY <1>1, <1>3, <1>5, <1>7, <1>8, <1>9 DEF EvidenceInv

\* A cloud is judged on what the buffer holds.
LEMMA DecidingKeepsEvidence ==
    ASSUME PipelineInv, EvidenceInv, NEW id, NEW cloud \in Clouds,
           NEW precomputed \in {NoScan} \cup Windows,
           ProcessLidarCloud(id, cloud, precomputed), imuLog' = imuLog, latestImu' = latestImu,
           HoldbackEnabled => latestImu # NoStamp
    PROVE  EvidenceInv'
<1>1. /\ pipeline'.buffer = pipeline.buffer
      /\ event'.reached = latestImu
      /\ event'.coverage = Pipeline!Coverage!Analyze(event'.estimate.window,
                                                     Pipeline!Stamps(pipeline))
  BY CloudDecided
<1>2. ASSUME Facts!Ordered(imuLog), HoldbackEnabled
      PROVE  \E k \in 1 .. Len(imuLog) :
                 /\ event'.reached = imuLog[k]
                 /\ event'.coverage = Pipeline!Coverage!Analyze(event'.estimate.window,
                                                                Facts!KeptAt(imuLog, k))
  <2>1. imuLog # <<>> /\ imuLog \in Seq(Int)
    BY <1>2 DEF EvidenceInv, PipelineInv
  <2>2. Len(imuLog) \in 1 .. Len(imuLog)
    BY <2>1, EmptySeq, LenProperties
  <2>3. latestImu = imuLog[Len(imuLog)] /\ Facts!IsRecent(pipeline.buffer.samples, imuLog)
    BY <1>2, <2>1 DEF EvidenceInv
  <2>4. Pipeline!Stamps(pipeline) = Facts!KeptAt(imuLog, Len(imuLog))
    BY <2>1, <2>3, PartsAreFit, Facts!RecentAreKept DEF Pipeline!Stamps
  <2> QED  BY <1>1, <2>2, <2>3, <2>4
<1> QED  BY <1>1, <1>2 DEF EvidenceInv

LEMMA EvidenceInvStep ==
    ASSUME NodeInv, Queue!IInv, EvidenceInv, [Next]_vars
    PROVE  EvidenceInv'
<1> USE DEF NodeInv
<1>1. ASSUME NEW stamp \in ImuStamps, OnImuReceived(stamp) PROVE EvidenceInv'
  BY <1>1, ImuKeepsEvidence
<1>2. CASE ProcessReadyPendingCloud
  <2> DEFINE id == Head(pending).id
  <2>1. /\ ProcessLidarCloud(id, clouds[id].cloud, clouds[id].precomputed)
        /\ imuLog' = imuLog /\ latestImu' = latestImu /\ latestImu # NoStamp
    BY <1>2 DEF ProcessReadyPendingCloud, Holdback!ProcessReadyPendingCloud,
                Holdback!HeadIsReady, Holdback!ImuReached
  <2>2. clouds[id].cloud \in Clouds /\ clouds[id].precomputed \in {NoScan} \cup Windows
    BY <1>2, PendingAreReceived DEF Received
  <2> HIDE DEF id
  <2> QED  BY <2>1, <2>2, DecidingKeepsEvidence
<1>3. ASSUME NEW cloud \in Clouds, OnLidarReceived(cloud) PROVE EvidenceInv'
  <2>1. /\ imuLog' = imuLog /\ latestImu' = latestImu
        /\ Holdback!ProcessAtOnce(ReadyStamp(cloud)) \/ Holdback!HoldBack(ReadyStamp(cloud))
        /\ IF decided' # decided
           THEN ProcessLidarCloud(Len(clouds'), cloud, Precomputed(cloud))
           ELSE UNCHANGED <<pipeline, published, event>>
    BY <1>3 DEF OnLidarReceived, Holdback!OnLidarReceived
  <2>2. CASE decided' # decided
    <3>1. HoldbackEnabled => latestImu # NoStamp
      BY <2>1, <2>2 DEF Holdback!ProcessAtOnce, Holdback!HoldBack, Holdback!ImuReached
    <3> QED  BY <2>1, <2>2, <3>1, PrecomputedWindow, DecidingKeepsEvidence
  <2>3. CASE decided' = decided
    BY <2>1, <2>3 DEF EvidenceInv
  <2> QED  BY <2>2, <2>3
<1>4. CASE OnTimer
  <2>1. /\ imuLog' = imuLog /\ latestImu' = latestImu /\ event' = event
        /\ pipeline' = Pipeline!ConsumeWindows(pipeline)
    BY <1>4 DEF OnTimer, holdbackVars
  <2>2. pipeline'.buffer = pipeline.buffer
    BY <2>1, ConsumingKeepsPipeline DEF PipelineInv
  <2> QED  BY <2>1, <2>2 DEF EvidenceInv
<1>5. CASE FinishDraining \/ UNCHANGED vars
  BY <1>5 DEF FinishDraining, Holdback!FinishDraining, vars, holdbackVars, EvidenceInv
<1> QED  BY <1>1, <1>2, <1>3, <1>4, <1>5 DEF Next

LEMMA EvidenceInvHolds == Spec => []EvidenceInv
<1>1. Init => EvidenceInv
  <2> SUFFICES ASSUME Init PROVE EvidenceInv
    OBVIOUS
  <2>1. imuLog = <<>> /\ latestImu = NoStamp /\ event = NoEvent
        /\ pipeline.buffer.samples = <<>>
    BY DEF Init, Holdback!Init, Pipeline!NewPipeline, Pipeline!Buffer!NewBuffer
  <2>2. Facts!IsRecent(<<>>, <<>>)
    BY DEF Facts!IsRecent
  <2> QED  BY <2>1, <2>2 DEF EvidenceInv
<1>2. NodeInv /\ Queue!IInv /\ EvidenceInv /\ [Next]_vars => EvidenceInv'
  BY EvidenceInvStep
<1> QED  BY <1>1, <1>2, NodeInvHolds, QueueInvHolds, PTL DEF Spec

\* Holdback keeps its purpose for every retention, tolerance, queue limit and
\* interleaving: a cloud that waited for its own window is not blamed for IMU
\* samples that were merely late (TemporalMonitorNode::OnLidarReceived and
\* ProcessReadyPendingLidarClouds over the buffer of the pipeline).
THEOREM HeldBackCloudsAreCovered == Spec => []HeldBackScanIsCovered
<1>1. ASSUME CloudsInv, PipelineInv, Queue!IInv, ArrivalInv, DecisionInv, EvidenceInv,
             Queue!EveryCloudAccountedFor
      PROVE  HeldBackScanIsCovered
  <2> DEFINE window == event.estimate.window
  <2> SUFFICES ASSUME HoldbackEnabled, event # NoEvent, EstimatorsSawTheSame,
                      window.start < window.end, ImuWasRegularFor(window),
                      event.reached - Retention <= window.start
               PROVE  event.coverage = "ok"
    BY DEF HeldBackScanIsCovered
  <2>1. window \in Windows /\ event.reached >= window.end
    BY <1>1, JudgedByAwaited
  <2>2. imuLog \in Seq(Int) /\ Len(imuLog) \in Nat /\ \A i \in 1 .. Len(imuLog) : imuLog[i] \in Int
    BY <1>1, LenProperties, ElementOfSeq DEF PipelineInv
  <2> HIDE DEF window
  <2>3. Facts!Ordered(imuLog)
    <3>1. \A i \in 2 .. Len(imuLog) : imuLog[i] - imuLog[i - 1] >= 0
      BY DEF ImuWasRegularFor
    <3> QED  BY <2>2, <3>1, PartsAreFit, Facts!StepsMakeOrder
  <2>4. PICK k \in 1 .. Len(imuLog) :
            /\ event.reached = imuLog[k]
            /\ event.coverage = Pipeline!Coverage!Analyze(window, Facts!KeptAt(imuLog, k))
    BY <1>1, <2>3 DEF EvidenceInv, window
  <2>5. /\ k \in Nat \ {0} /\ \A i \in 1 .. k : i \in 1 .. Len(imuLog)
        /\ \A i \in 2 .. k : i \in 2 .. Len(imuLog)
    BY <2>2
  <2>6. Facts!StepsFit(window, imuLog, k)
    BY <2>5 DEF Facts!StepsFit, ImuWasRegularFor
  <2>7. /\ \A i \in 1 .. k : imuLog[i] \in Int
        /\ \A i, j \in 1 .. k : i <= j => imuLog[i] <= imuLog[j]
    BY <2>2, <2>3, <2>5 DEF Facts!Ordered
  <2>8. imuLog[1] <= window.start + MaxMissingPrefix /\ imuLog[1] <= window.end
    BY DEF ImuWasRegularFor
  <2>9. imuLog[k] >= window.end /\ imuLog[k] - Retention <= window.start
    BY <2>1, <2>4
  <2>10. Facts!Analyze(window, Facts!KeptAt(imuLog, k)) = "ok"
    BY <2>1, <2>5, <2>6, <2>7, <2>8, <2>9, PartsAreFit, Facts!RegularStreamIsOk DEF Windows
  <2> QED  BY <2>4, <2>10, SameAnalysis
<1>2. Spec => []Queue!EveryCloudAccountedFor
  BY NodeDrivesQueue, PartsAreFit, Queue!NodeLedgerIsComplete
<1> QED  BY <1>1, <1>2, NodeInvHolds, QueueInvHolds, WindowInvHolds, EvidenceInvHolds, PTL DEF NodeInv

-----------------------------------------------------------------------------
(* What the policy is shown *)

\* A tracker's record, as far as the policy sees it.
TrackerFields ==
    {"previousStamp", "previousPeriod", "count", "reordered", "gaps",
     "windowCount", "windowReordered", "windowGaps", "windowMaxJitter"}

IsTracker(t) ==
    /\ t = [f \in TrackerFields |-> t[f]]
    /\ t.count \in Nat /\ t.windowCount \in Nat

Diagnosis(candidate, supported, attempted, used) ==
    [candidate |-> candidate, supported |-> supported,
     attempted |-> attempted, used |-> used]

\* The point-time diagnostics belong to the field the pipeline has chosen.
IsDiagnosed(p) ==
    /\ p.field = NoField =>
          p.pointTime \in {Diagnosis(c, FALSE, FALSE, FALSE) : c \in BOOLEAN}
    /\ p.field # NoField =>
          p.pointTime \in {Diagnosis(TRUE, TRUE, FALSE, FALSE),
                           Diagnosis(TRUE, TRUE, TRUE, FALSE),
                           Diagnosis(TRUE, TRUE, TRUE, TRUE)}

PolicyInv ==
    /\ IsTracker(pipeline.imuTiming) /\ IsTracker(pipeline.lidarTiming)
    /\ IsDiagnosed(pipeline)

LEMMA HealthIsASummary ==
    ASSUME NEW t
    PROVE  /\ Pipeline!ImuTracker!EvaluateHealth(t) \in Fusion!TimingSummaries
           /\ Pipeline!LidarTracker!EvaluateHealth(t) \in Fusion!TimingSummaries
  BY DEF Pipeline!ImuTracker!EvaluateHealth, Pipeline!LidarTracker!EvaluateHealth,
         Fusion!TimingSummaries, Fusion!TimingSummary

LEMMA ObservingCounts ==
    ASSUME NEW t, IsTracker(t), NEW stamp
    PROVE  /\ LET u == Pipeline!ImuTracker!Observe(t, stamp)
              IN  /\ IsTracker(u)
                  /\ u.count = t.count + 1 /\ u.windowCount = t.windowCount + 1
           /\ IsTracker(Pipeline!LidarTracker!Observe(t, stamp))
<1>1. ASSUME NEW r, IsTracker(r)
      PROVE  LET u == [r EXCEPT !.previousStamp = stamp, !.count = @ + 1, !.windowCount = @ + 1]
             IN  IsTracker(u) /\ u.count = r.count + 1 /\ u.windowCount = r.windowCount + 1
  <2> DEFINE u == [r EXCEPT !.previousStamp = stamp, !.count = @ + 1, !.windowCount = @ + 1]
  <2>1. u = [f \in TrackerFields |->
                IF f = "previousStamp" THEN stamp
                ELSE IF f \in {"count", "windowCount"} THEN r[f] + 1 ELSE r[f]]
    BY <1>1 DEF IsTracker, TrackerFields
  <2> HIDE DEF u
  <2>2. u.count = r.count + 1 /\ u.windowCount = r.windowCount + 1
    BY <2>1 DEF TrackerFields
  <2>3. u = [f \in TrackerFields |-> u[f]]
    BY <2>1
  <2>4. IsTracker(u)
    BY <1>1, <2>2, <2>3 DEF IsTracker
  <2> QED  BY <2>2, <2>4 DEF u
<1>2. /\ \A r : r \in {Pipeline!ImuTracker!OnReordered(t), Pipeline!ImuTracker!OnGap(t)}
                => IsTracker(r) /\ r.count = t.count /\ r.windowCount = t.windowCount
      /\ \A period : LET r == Pipeline!ImuTracker!OnPeriod(t, period)
                     IN  IsTracker(r) /\ r.count = t.count /\ r.windowCount = t.windowCount
  BY DEF IsTracker, TrackerFields, Pipeline!ImuTracker!OnReordered,
         Pipeline!ImuTracker!OnGap, Pipeline!ImuTracker!OnPeriod
<1>3. /\ \A r : r \in {Pipeline!LidarTracker!OnReordered(t), Pipeline!LidarTracker!OnGap(t)}
                => IsTracker(r)
      /\ \A period : IsTracker(Pipeline!LidarTracker!OnPeriod(t, period))
  BY DEF IsTracker, TrackerFields, Pipeline!LidarTracker!OnReordered,
         Pipeline!LidarTracker!OnGap, Pipeline!LidarTracker!OnPeriod
<1>4. \E r : /\ IsTracker(r) /\ r.count = t.count /\ r.windowCount = t.windowCount
             /\ Pipeline!ImuTracker!Observe(t, stamp)
                  = [r EXCEPT !.previousStamp = stamp, !.count = @ + 1, !.windowCount = @ + 1]
  BY <1>2 DEF Pipeline!ImuTracker!Observe
<1>5. \E r : /\ IsTracker(r)
             /\ Pipeline!LidarTracker!Observe(t, stamp)
                  = [r EXCEPT !.previousStamp = stamp, !.count = @ + 1, !.windowCount = @ + 1]
  BY <1>3 DEF Pipeline!LidarTracker!Observe
<1> QED  BY <1>1, <1>4, <1>5

LEMMA ResettingForgets ==
    ASSUME NEW t, IsTracker(t)
    PROVE  /\ LET u == Pipeline!ImuTracker!ResetWindow(t)
              IN  /\ IsTracker(u) /\ u.count = t.count /\ u.windowCount = 0
                  /\ Pipeline!ImuTracker!EvaluateHealth(u) = Fusion!TimingSummary("ok")
           /\ LET u == Pipeline!LidarTracker!ResetWindow(t)
              IN  /\ IsTracker(u)
                  /\ Pipeline!LidarTracker!EvaluateHealth(u) = Fusion!TimingSummary("ok")
<1> DEFINE u == [t EXCEPT !.windowCount = 0, !.windowReordered = 0, !.windowGaps = 0,
                          !.windowMaxJitter = 0]
<1>1. /\ Pipeline!ImuTracker!ResetWindow(t) = u
      /\ Pipeline!LidarTracker!ResetWindow(t) = u
  BY DEF Pipeline!ImuTracker!ResetWindow, Pipeline!LidarTracker!ResetWindow
<1>2. /\ IsTracker(u) /\ u.count = t.count /\ u.windowCount = 0
      /\ u.windowReordered = 0 /\ u.windowGaps = 0 /\ u.windowMaxJitter = 0
  BY DEF IsTracker, TrackerFields
<1> HIDE DEF u
<1>3. HighJitter \in Nat /\ SuspiciousJitter \in Nat
  BY PartsAssumption DEF Pipeline!ImuTracker!TrackerAssumption
<1>4. /\ Pipeline!ImuTracker!EvaluateHealth(u) = [health |-> "OK", reason |-> "ok"]
      /\ Pipeline!LidarTracker!EvaluateHealth(u) = [health |-> "OK", reason |-> "ok"]
  BY <1>2, <1>3 DEF Pipeline!ImuTracker!EvaluateHealth, Pipeline!LidarTracker!EvaluateHealth
<1> QED  BY <1>1, <1>2, <1>4 DEF Fusion!TimingSummary

LEMMA CountingUpTo ==
    ASSUME NEW n \in Nat, NEW bound \in Nat
    PROVE  AtMost(n + 1, bound) = Fusion!CountUpTo(AtMost(n, bound), bound)
  BY DEF AtMost, Fusion!CountUpTo

-----------------------------------------------------------------------------
(* A cloud as the policy sees it *)

LEMMA FieldIsACandidate ==
    ASSUME NEW fields, Pipeline!PointTime!Inspect(fields).primary # NoField
    PROVE  Pipeline!PointTime!Inspect(fields).candidate
<1>1. PICK i \in DOMAIN fields : Pipeline!PointTime!IsSupportedTimeField(fields[i])
  BY DEF Pipeline!PointTime!Inspect
<1>2. Pipeline!PointTime!ResolveTimeFieldRole(fields[i]) # "none"
  BY <1>1 DEF Pipeline!PointTime!IsSupportedTimeField, Pipeline!PointTime!IsConvertible
<1> QED  BY <1>2 DEF Pipeline!PointTime!Inspect

AfterInspection(d, x, y) == [d EXCEPT !.candidate = x, !.supported = y]
AfterExtraction(d, x, y) == [d EXCEPT !.attempted = x, !.used = y]

LEMMA DiagnosisUpdates ==
    ASSUME NEW c, NEW s, NEW a, NEW u, NEW d, d = Diagnosis(c, s, a, u), NEW x, NEW y
    PROVE  /\ AfterInspection(d, x, y) = Diagnosis(x, y, a, u)
           /\ AfterExtraction(d, x, y) = Diagnosis(c, s, x, y)
<1> DEFINE inspected == [d EXCEPT !.candidate = x]
           extracted == [d EXCEPT !.attempted = x]
<1>1. inspected = Diagnosis(x, s, a, u) /\ extracted = Diagnosis(c, s, x, u)
  BY DEF Diagnosis
<1>2. /\ AfterInspection(d, x, y) = [inspected EXCEPT !.supported = y]
      /\ AfterExtraction(d, x, y) = [extracted EXCEPT !.used = y]
  BY DEF AfterInspection, AfterExtraction
<1> HIDE DEF inspected, extracted
<1>3. /\ [inspected EXCEPT !.supported = y] = Diagnosis(x, y, a, u)
      /\ [extracted EXCEPT !.used = y] = Diagnosis(c, s, x, y)
  BY <1>1 DEF Diagnosis
<1> QED  BY <1>2, <1>3

LEMMA NothingDiagnosed == Pipeline!Diagnostics!NoPointTime = Diagnosis(FALSE, FALSE, FALSE, FALSE)
  BY DEF Pipeline!Diagnostics!NoPointTime, Diagnosis

LEMMA OutcomesOfDiagnoses ==
    /\ \A c \in BOOLEAN, confidence \in {"LOW", "MEDIUM", "HIGH"} :
          [pt |-> Diagnosis(c, FALSE, FALSE, FALSE), confidence |-> confidence]
              \in Fusion!PointTimeOutcomes
    /\ \A confidence \in {"LOW", "MEDIUM", "HIGH"} :
          [pt |-> Diagnosis(TRUE, TRUE, TRUE, FALSE), confidence |-> confidence]
              \in Fusion!PointTimeOutcomes
    /\ \A a \in BOOLEAN :
          [pt |-> Diagnosis(TRUE, TRUE, a, a), confidence |-> "HIGH"]
              \in Fusion!PointTimeOutcomes
<1> DEFINE none == Diagnosis(FALSE, FALSE, FALSE, FALSE)
           unsupported == Diagnosis(TRUE, FALSE, FALSE, FALSE)
           failed == Diagnosis(TRUE, TRUE, TRUE, FALSE)
<1>1. /\ Fusion!NoPointTime = none
      /\ [Fusion!NoPointTime EXCEPT !.candidate = TRUE] = unsupported
      /\ [candidate |-> TRUE, supported |-> TRUE, attempted |-> TRUE, used |-> FALSE] = failed
  <2> DEFINE no == FALSE
             yes == TRUE
  <2>1. Fusion!NoPointTime = Diagnosis(no, no, no, no)
    BY DEF Fusion!NoPointTime, Diagnosis
  <2> HIDE DEF no, yes
  <2>2. [Fusion!NoPointTime EXCEPT !.candidate = yes] = Diagnosis(yes, no, no, no)
    BY <2>1 DEF Diagnosis
  <2> QED  BY <2>1, <2>2 DEF Diagnosis, no, yes
<1>2. \A pt \in {none, unsupported, failed}, confidence \in {"LOW", "MEDIUM", "HIGH"} :
          [pt |-> pt, confidence |-> confidence] \in Fusion!PointTimeOutcomes
  <2> HIDE DEF none, unsupported, failed
  <2> QED  BY <1>1 DEF Fusion!PointTimeOutcomes
<1>3. \A a \in BOOLEAN :
          [pt |-> Diagnosis(TRUE, TRUE, a, a), confidence |-> "HIGH"]
              \in Fusion!PointTimeOutcomes
  <2> TAKE a \in BOOLEAN
  <2>1. Diagnosis(TRUE, TRUE, a, a)
          \in {[candidate |-> TRUE, supported |-> TRUE,
                attempted |-> b, used |-> b] : b \in BOOLEAN}
    BY DEF Diagnosis
  <2> DEFINE pt == Diagnosis(TRUE, TRUE, a, a)
  <2> HIDE DEF pt
  <2> QED  BY <2>1 DEF Fusion!PointTimeOutcomes, pt
<1> QED  BY <1>2, <1>3

LEMMA HeadersGiveAnEstimate ==
    ASSUME NEW previous \in Int \cup {NoStamp}, NEW stamp \in Int
    PROVE  LET estimate == Pipeline!Scan!Estimate(previous, stamp)
           IN  estimate \in Estimates /\ estimate.confidence \in {"LOW", "MEDIUM"}
  BY EstimatedWindow DEF Pipeline!Scan!Estimate, Estimates, Windows

LEMMA PointsGiveAnEstimate ==
    ASSUME NEW window \in Windows
    PROVE  LET estimate == Pipeline!PointTimeEstimate(window)
           IN  estimate \in Estimates /\ estimate.confidence = "HIGH"
  BY DEF Pipeline!PointTimeEstimate, Estimates, Windows

\* The point-time diagnostics and the confidence of the window only occur in
\* the combinations FusionDecision knows.
LEMMA CloudShown ==
    ASSUME NEW p, IsPipeline(p), IsDiagnosed(p), NEW cloud \in Clouds,
           NEW precomputed \in {NoScan} \cup Windows, NEW statuses
    PROVE  LET q == Pipeline!ObserveTransforms(
                        Pipeline!ObserveLidar(p, cloud, precomputed), statuses)
           IN  /\ IsDiagnosed(q)
               /\ q.estimate \in Estimates
               /\ [pt |-> q.pointTime, confidence |-> q.estimate.confidence]
                      \in Fusion!PointTimeOutcomes
               /\ q.imuTiming = p.imuTiming
               /\ q.lidarTiming = Pipeline!LidarTracker!Observe(p.lidarTiming, cloud.header)
<1> DEFINE a == Pipeline!Inspected(p, cloud)
           b == Pipeline!ObserveScan(a, cloud, precomputed)
           q == Pipeline!ObserveTransforms(
                    Pipeline!ObserveLidar(p, cloud, precomputed), statuses)
           Shown(r) == /\ IsDiagnosed(r) /\ r.estimate \in Estimates
                       /\ [pt |-> r.pointTime, confidence |-> r.estimate.confidence]
                              \in Fusion!PointTimeOutcomes
<1>0. IsPipeline(p) /\ IsDiagnosed(p)
  OBVIOUS
<1>1. cloud.header \in Int
  BY NodeAssumption
<1>2. /\ IsPipeline(a) /\ IsDiagnosed(a)
      /\ a.imuTiming = p.imuTiming /\ a.lidarTiming = p.lidarTiming
  <2> DEFINE inspection == Pipeline!PointTime!Inspect(cloud.fields)
             pt == [Pipeline!Diagnostics!NoPointTime EXCEPT
                       !.candidate = inspection.candidate,
                       !.supported = inspection.primary # NoField]
  <2>1. inspection.candidate \in BOOLEAN
        /\ (inspection.primary # NoField => inspection.candidate)
    BY FieldIsACandidate DEF Pipeline!PointTime!Inspect
  <2>2. CASE p.inspected
    BY <2>2 DEF Pipeline!Inspected
  <2>3. CASE ~ p.inspected
    <3>1. a = [p EXCEPT !.inspected = TRUE, !.field = inspection.primary, !.pointTime = pt]
      BY <2>3 DEF Pipeline!Inspected
    <3>2. pt = Diagnosis(inspection.candidate, inspection.primary # NoField, FALSE, FALSE)
      <4> DEFINE blank == Pipeline!Diagnostics!NoPointTime
                 named == inspection.candidate
                 supported == inspection.primary # NoField
                 no == FALSE
      <4>1. blank = Diagnosis(no, no, no, no)
        BY NothingDiagnosed
      <4> HIDE DEF blank, named, supported, no
      <4>2. AfterInspection(blank, named, supported) = Diagnosis(named, supported, no, no)
        BY <4>1, DiagnosisUpdates
      <4> QED  BY <4>2 DEF AfterInspection, blank, named, supported, no
    <3> HIDE DEF a, pt, inspection
    <3>3. /\ IsPipeline(a) /\ a.field = inspection.primary /\ a.pointTime = pt
          /\ a.imuTiming = p.imuTiming /\ a.lidarTiming = p.lidarTiming
      BY <3>1 DEF IsPipeline, PipelineFields
    <3>4. CASE inspection.primary = NoField
      <4>1. pt = Diagnosis(inspection.candidate, FALSE, FALSE, FALSE)
        BY <3>2, <3>4
      <4> QED  BY <2>1, <3>3, <3>4, <4>1 DEF IsDiagnosed
    <3>5. CASE inspection.primary # NoField
      <4>1. pt = Diagnosis(TRUE, TRUE, FALSE, FALSE)
        BY <2>1, <3>2, <3>5
      <4> QED  BY <3>3, <3>5, <4>1 DEF IsDiagnosed
    <3> QED  BY <3>3, <3>4, <3>5
  <2> QED  BY <1>0, <2>2, <2>3
<1> HIDE DEF a
<1>3. /\ IsPipeline(b) /\ Shown(b)
      /\ b.imuTiming = p.imuTiming /\ b.lidarTiming = p.lidarTiming
  <2> DEFINE extracted == Pipeline!PointTime!Extract(cloud, a.field)
             headers == Pipeline!Scan!Estimate(a.previous, cloud.header)
             read == IF extracted # NoScan THEN Pipeline!PointTimeEstimate(extracted) ELSE headers
  <2>1. headers \in Estimates /\ headers.confidence \in {"LOW", "MEDIUM"}
    BY <1>1, <1>2, HeadersGiveAnEstimate DEF IsPipeline
  <2>2. extracted \in {NoScan} \cup Windows
    BY ExtractedWindow
  <2>3. CASE precomputed # NoScan
    <3> DEFINE given == Pipeline!PointTimeEstimate(precomputed)
    <3>1. given \in Estimates /\ given.confidence = "HIGH"
      BY <2>3, PointsGiveAnEstimate
    <3>2. b = [a EXCEPT !.estimate = given]
      BY <2>3 DEF Pipeline!ObserveScan
    <3> HIDE DEF b, given
    <3>3. /\ IsPipeline(b) /\ b.estimate = given /\ b.field = a.field
          /\ b.pointTime = a.pointTime
          /\ b.imuTiming = a.imuTiming /\ b.lidarTiming = a.lidarTiming
      BY <1>2, <3>2 DEF IsPipeline, PipelineFields
    <3>4. Shown(b)
      BY <1>2, <3>1, <3>3, OutcomesOfDiagnoses DEF IsDiagnosed
    <3> QED  BY <1>2, <3>3, <3>4
  <2>4. CASE precomputed = NoScan /\ a.field = NoField
    <3>1. b = [a EXCEPT !.estimate = headers]
      BY <2>4 DEF Pipeline!ObserveScan
    <3> HIDE DEF b, headers
    <3>2. /\ IsPipeline(b) /\ b.estimate = headers /\ b.field = a.field
          /\ b.pointTime = a.pointTime
          /\ b.imuTiming = a.imuTiming /\ b.lidarTiming = a.lidarTiming
      BY <1>2, <3>1 DEF IsPipeline, PipelineFields
    <3>3. Shown(b)
      BY <1>2, <2>1, <2>4, <3>2, OutcomesOfDiagnoses DEF IsDiagnosed
    <3> QED  BY <1>2, <3>2, <3>3
  <2>5. CASE precomputed = NoScan /\ a.field # NoField
    <3> DEFINE pt == [a.pointTime EXCEPT !.attempted = TRUE, !.used = extracted # NoScan]
    <3>1. b = [a EXCEPT !.estimate = read, !.pointTime = pt]
      <4>1. b = [a EXCEPT !.estimate = read, !.pointTime.attempted = TRUE,
                          !.pointTime.used = extracted # NoScan]
        BY <2>5 DEF Pipeline!ObserveScan
      <4> HIDE DEF b, read, extracted
      <4> QED  BY <1>2, <4>1 DEF IsPipeline, PipelineFields
    <3>2. pt = Diagnosis(TRUE, TRUE, TRUE, extracted # NoScan)
      <4>1. PICK x, u : a.pointTime = Diagnosis(TRUE, TRUE, x, u)
        BY <1>2, <2>5 DEF IsDiagnosed
      <4> DEFINE yes == TRUE
                 worked == extracted # NoScan
      <4>2. a.pointTime = Diagnosis(yes, yes, x, u)
        BY <4>1
      <4> HIDE DEF extracted, yes, worked
      <4> DEFINE before == a.pointTime
      <4> HIDE DEF before
      <4>3. AfterExtraction(before, yes, worked) = Diagnosis(yes, yes, yes, worked)
        BY <4>2, DiagnosisUpdates DEF before
      <4> QED  BY <4>3 DEF AfterExtraction, yes, worked, before
    <3>3. /\ read \in Estimates
          /\ extracted # NoScan => read.confidence = "HIGH"
      <4>1. extracted # NoScan => /\ Pipeline!PointTimeEstimate(extracted) \in Estimates
                                  /\ Pipeline!PointTimeEstimate(extracted).confidence = "HIGH"
        BY <2>2, PointsGiveAnEstimate
      <4> HIDE DEF extracted, headers
      <4> QED  BY <2>1, <4>1
    <3> HIDE DEF b, read, extracted, pt
    <3>4. /\ IsPipeline(b) /\ b.estimate = read /\ b.field = a.field /\ b.pointTime = pt
          /\ b.imuTiming = a.imuTiming /\ b.lidarTiming = a.lidarTiming
      BY <1>2, <3>1 DEF IsPipeline, PipelineFields
    <3>5. read.confidence \in {"LOW", "MEDIUM", "HIGH"}
      BY <3>3 DEF Estimates
    <3>6. [pt |-> pt, confidence |-> read.confidence] \in Fusion!PointTimeOutcomes
      <4>1. CASE extracted # NoScan
        BY <3>2, <3>3, <4>1, OutcomesOfDiagnoses
      <4>2. CASE extracted = NoScan
        BY <3>2, <3>5, <4>2, OutcomesOfDiagnoses
      <4> QED  BY <4>1, <4>2
    <3>7. IsDiagnosed(b)
      <4>1. pt \in {Diagnosis(TRUE, TRUE, TRUE, FALSE), Diagnosis(TRUE, TRUE, TRUE, TRUE)}
        BY <3>2
      <4> QED  BY <2>5, <3>4, <4>1 DEF IsDiagnosed
    <3> QED  BY <1>2, <3>3, <3>4, <3>6, <3>7
  <2> QED  BY <2>3, <2>4, <2>5
<1> HIDE DEF b
<1>4. /\ q.pointTime = b.pointTime /\ q.estimate = b.estimate /\ q.field = b.field
      /\ q.imuTiming = b.imuTiming
      /\ q.lidarTiming = Pipeline!LidarTracker!Observe(b.lidarTiming, cloud.header)
  BY <1>3 DEF Pipeline!ObserveTransforms, Pipeline!ObserveLidar, Pipeline!ObserveCoverage,
              IsPipeline, PipelineFields, a, b
<1> HIDE DEF q
<1> QED  BY <1>3, <1>4 DEF IsDiagnosed, q

-----------------------------------------------------------------------------
(* The steps of the node are steps of the policy's environment *)

Shown == Pipeline!Observation(pipeline)
TotalShown == AtMost(pipeline.imuTiming.count, MinTotalImuSamples)
WindowShown == AtMost(pipeline.imuTiming.windowCount, MinWindowImuSamples)

LEMMA NothingShownYet == ASSUME Init PROVE PolicyInv /\ Fusion!Init
<1> DEFINE t == Pipeline!ImuTracker!NewTracker
<1>1. /\ pipeline = Pipeline!NewPipeline
      /\ Pipeline!ImuTracker!NewTracker = Pipeline!LidarTracker!NewTracker
  BY DEF Init, Pipeline!ImuTracker!NewTracker, Pipeline!LidarTracker!NewTracker
<1>2. IsTracker(t) /\ t.count = 0 /\ t.windowCount = 0
  BY DEF IsTracker, TrackerFields, Pipeline!ImuTracker!NewTracker
<1>3. /\ Pipeline!ImuTracker!EvaluateHealth(t) = Fusion!TimingSummary("ok")
      /\ Pipeline!LidarTracker!EvaluateHealth(t) = Fusion!TimingSummary("ok")
  <2>1. t.windowReordered = 0 /\ t.windowGaps = 0 /\ t.windowMaxJitter = 0
    BY DEF Pipeline!ImuTracker!NewTracker
  <2>2. HighJitter \in Nat /\ SuspiciousJitter \in Nat
    BY PartsAssumption DEF Pipeline!ImuTracker!TrackerAssumption
  <2> HIDE DEF t
  <2> QED
    BY <2>1, <2>2 DEF Pipeline!ImuTracker!EvaluateHealth, Pipeline!LidarTracker!EvaluateHealth,
                      Fusion!TimingSummary
<1> HIDE DEF t
<1>4. /\ pipeline.imuTiming = t /\ pipeline.lidarTiming = t
      /\ pipeline.field = NoField /\ pipeline.estimate = NoScan
      /\ pipeline.pointTime = Pipeline!Diagnostics!NoPointTime
      /\ pipeline.coverage = Pipeline!Diagnostics!NoCoverage
      /\ pipeline.transforms = <<>>
  BY <1>1 DEF Pipeline!NewPipeline, t
<1>5. IsDiagnosed(pipeline)
  BY <1>4, NothingDiagnosed DEF IsDiagnosed
<1>6. /\ Shown = [imuTiming |-> Fusion!TimingSummary("ok"),
                  lidarTiming |-> Fusion!TimingSummary("ok"),
                  coverage |-> Fusion!NoCoverage, pointTime |-> Fusion!NoPointTime,
                  confidence |-> Fusion!NoWindow, transforms |-> <<>>]
  BY <1>3, <1>4 DEF Shown, Pipeline!Observation, Pipeline!Diagnostics!NoPointTime,
                    Pipeline!Diagnostics!NoCoverage, Pipeline!Diagnostics!NoWindow,
                    Fusion!NoPointTime, Fusion!NoCoverage, Fusion!NoWindow
<1>7. TotalShown = 0 /\ WindowShown = 0
  BY <1>2, <1>4, NodeAssumption DEF TotalShown, WindowShown, AtMost
<1> QED  BY <1>2, <1>4, <1>5, <1>6, <1>7 DEF PolicyInv, Fusion!Init, Shown, TotalShown, WindowShown

Confidence(p) ==
    IF p.estimate = NoScan THEN Pipeline!Diagnostics!NoWindow ELSE p.estimate.confidence

LEMMA ShownFields ==
    Shown = [imuTiming   |-> Pipeline!ImuTracker!EvaluateHealth(pipeline.imuTiming),
             lidarTiming |-> Pipeline!LidarTracker!EvaluateHealth(pipeline.lidarTiming),
             coverage    |-> pipeline.coverage,
             pointTime   |-> pipeline.pointTime,
             confidence  |-> Confidence(pipeline),
             transforms  |-> pipeline.transforms]
  BY DEF Shown, Confidence, Pipeline!Observation

\* A step that leaves the evidence alone changes what is shown in the timings only.
LEMMA ShownFieldsAfter ==
    ASSUME NEW imu, pipeline'.imuTiming = imu,
           NEW lidar, pipeline'.lidarTiming = lidar,
           pipeline'.coverage = pipeline.coverage,
           pipeline'.pointTime = pipeline.pointTime,
           pipeline'.estimate = pipeline.estimate,
           pipeline'.transforms = pipeline.transforms
    PROVE  Shown' = [imuTiming   |-> Pipeline!ImuTracker!EvaluateHealth(imu),
                     lidarTiming |-> Pipeline!LidarTracker!EvaluateHealth(lidar),
                     coverage    |-> pipeline.coverage,
                     pointTime   |-> pipeline.pointTime,
                     confidence  |-> Confidence(pipeline),
                     transforms  |-> pipeline.transforms]
  BY DEF Shown, Confidence, Pipeline!Observation

LEMMA OneTimingChanges ==
    ASSUME NEW imu, NEW lidar, NEW coverage, NEW pt, NEW confidence, NEW transforms, NEW new,
           NEW shown, shown = [imuTiming |-> imu, lidarTiming |-> lidar, coverage |-> coverage,
                               pointTime |-> pt, confidence |-> confidence,
                               transforms |-> transforms]
    PROVE  [shown EXCEPT !.imuTiming = new]
               = [imuTiming |-> new, lidarTiming |-> lidar, coverage |-> coverage,
                  pointTime |-> pt, confidence |-> confidence, transforms |-> transforms]
  OBVIOUS

LEMMA BothTimingsChange ==
    ASSUME NEW new
    PROVE  [Shown EXCEPT !.imuTiming = new, !.lidarTiming = new]
               = [imuTiming   |-> new,
                  lidarTiming |-> new,
                  coverage    |-> pipeline.coverage,
                  pointTime   |-> pipeline.pointTime,
                  confidence  |-> Confidence(pipeline),
                  transforms  |-> pipeline.transforms]
<1> DEFINE both == [Shown EXCEPT !.imuTiming = new, !.lidarTiming = new]
<1>1. /\ DOMAIN Shown = {"imuTiming", "lidarTiming", "coverage", "pointTime", "confidence",
                         "transforms"}
      /\ Shown.coverage = pipeline.coverage /\ Shown.pointTime = pipeline.pointTime
      /\ Shown.confidence = Confidence(pipeline) /\ Shown.transforms = pipeline.transforms
  BY ShownFields
<1>2. /\ both = [f \in DOMAIN both |-> both[f]]
      /\ DOMAIN both = DOMAIN Shown
  BY Zenon
<1>3. /\ both.imuTiming = new /\ both.lidarTiming = new
      /\ both.coverage = Shown.coverage /\ both.pointTime = Shown.pointTime
      /\ both.confidence = Shown.confidence /\ both.transforms = Shown.transforms
  BY <1>1
<1> HIDE DEF both
<1>4. both = [imuTiming   |-> new,
              lidarTiming |-> new,
              coverage    |-> pipeline.coverage,
              pointTime   |-> pipeline.pointTime,
              confidence  |-> Confidence(pipeline),
              transforms  |-> pipeline.transforms]
  BY <1>1, <1>2, <1>3
<1> QED  BY <1>4 DEF both

LEMMA ImuShown ==
    ASSUME PipelineInv, PolicyInv, NEW stamp \in ImuStamps, OnImuReceived(stamp)
    PROVE  PolicyInv' /\ Fusion!ObserveImu
<1> DEFINE timing == Pipeline!ImuTracker!Observe(pipeline.imuTiming, stamp)
           buffer == Pipeline!Buffer!Add(pipeline.buffer, stamp)
           summary == Pipeline!ImuTracker!EvaluateHealth(timing)
<1>1. pipeline' = [pipeline EXCEPT !.imuTiming = timing, !.buffer = buffer]
  BY DEF OnImuReceived, Pipeline!ObserveImu
<1>2. /\ IsTracker(pipeline.imuTiming) /\ IsTracker(timing)
      /\ timing.count = pipeline.imuTiming.count + 1
      /\ timing.windowCount = pipeline.imuTiming.windowCount + 1
      /\ summary \in Fusion!TimingSummaries
  BY ObservingCounts, HealthIsASummary DEF PolicyInv
<1> HIDE DEF timing, buffer
<1>3. /\ pipeline'.imuTiming = timing /\ pipeline'.lidarTiming = pipeline.lidarTiming
      /\ pipeline'.field = pipeline.field /\ pipeline'.pointTime = pipeline.pointTime
      /\ pipeline'.coverage = pipeline.coverage /\ pipeline'.estimate = pipeline.estimate
      /\ pipeline'.transforms = pipeline.transforms
  BY <1>1 DEF PipelineInv, IsPipeline, PipelineFields
<1>4. PolicyInv'
  BY <1>2, <1>3 DEF PolicyInv, IsDiagnosed
<1>5. Shown' = [Shown EXCEPT !.imuTiming = summary]
  BY <1>3, ShownFields, ShownFieldsAfter, OneTimingChanges
<1>6. /\ TotalShown' = Fusion!CountUpTo(TotalShown, MinTotalImuSamples)
      /\ WindowShown' = Fusion!CountUpTo(WindowShown, MinWindowImuSamples)
  BY <1>2, <1>3, CountingUpTo, NodeAssumption DEF TotalShown, WindowShown, IsTracker
<1> HIDE DEF summary
<1> QED  BY <1>2, <1>4, <1>5, <1>6 DEF Fusion!ObserveImu, Shown, TotalShown, WindowShown

LEMMA TimerShown ==
    ASSUME PipelineInv, PolicyInv, OnTimer PROVE PolicyInv' /\ Fusion!ConsumeWindows
<1> DEFINE imu == Pipeline!ImuTracker!ResetWindow(pipeline.imuTiming)
           lidar == Pipeline!LidarTracker!ResetWindow(pipeline.lidarTiming)
<1>1. pipeline' = [pipeline EXCEPT !.imuTiming = imu, !.lidarTiming = lidar]
  BY DEF OnTimer, Pipeline!ConsumeWindows
<1>2. /\ IsTracker(imu) /\ IsTracker(lidar)
      /\ imu.count = pipeline.imuTiming.count /\ imu.windowCount = 0
      /\ Pipeline!ImuTracker!EvaluateHealth(imu) = Fusion!TimingSummary("ok")
      /\ Pipeline!LidarTracker!EvaluateHealth(lidar) = Fusion!TimingSummary("ok")
  BY ResettingForgets DEF PolicyInv
<1> HIDE DEF imu, lidar
<1>3. /\ pipeline'.imuTiming = imu /\ pipeline'.lidarTiming = lidar
      /\ pipeline'.field = pipeline.field /\ pipeline'.pointTime = pipeline.pointTime
      /\ pipeline'.coverage = pipeline.coverage /\ pipeline'.estimate = pipeline.estimate
      /\ pipeline'.transforms = pipeline.transforms
  BY <1>1 DEF PipelineInv, IsPipeline, PipelineFields
<1>4. PolicyInv'
  BY <1>2, <1>3 DEF PolicyInv, IsDiagnosed
<1>5. Shown' = [Shown EXCEPT !.imuTiming = Fusion!TimingSummary("ok"),
                             !.lidarTiming = Fusion!TimingSummary("ok")]
  <2> DEFINE consumed == Fusion!TimingSummary("ok")
  <2>1. Shown' = [imuTiming   |-> consumed,
                  lidarTiming |-> consumed,
                  coverage    |-> pipeline.coverage,
                  pointTime   |-> pipeline.pointTime,
                  confidence  |-> Confidence(pipeline),
                  transforms  |-> pipeline.transforms]
    BY <1>2, <1>3, ShownFieldsAfter
  <2> HIDE DEF consumed
  <2>2. [Shown EXCEPT !.imuTiming = consumed, !.lidarTiming = consumed] = Shown'
    BY <2>1, BothTimingsChange, Zenon
  <2> QED  BY <2>2 DEF consumed
<1>6. TotalShown' = TotalShown /\ WindowShown' = 0
  BY <1>2, <1>3, NodeAssumption DEF TotalShown, WindowShown, AtMost
<1> QED  BY <1>4, <1>5, <1>6 DEF Fusion!ConsumeWindows, Shown, TotalShown, WindowShown

LEMMA DecidedCloudShown ==
    ASSUME PipelineInv, PolicyInv, NEW id, NEW cloud \in Clouds,
           NEW precomputed \in {NoScan} \cup Windows, ProcessLidarCloud(id, cloud, precomputed)
    PROVE  PolicyInv' /\ Fusion!ObserveLidar
<1>1. PICK answers \in TransformAnswers :
          pipeline' = Pipeline!ObserveTransforms(
                          Pipeline!ObserveLidar(pipeline, cloud, precomputed),
                          Pipeline!TransformAge!StatusesOf(cloud.header, answers))
  BY DEF ProcessLidarCloud
<1> DEFINE statuses == Pipeline!TransformAge!StatusesOf(cloud.header, answers)
           Results == UNION {[DOMAIN a -> Pipeline!TransformAge!ReportedStatuses]
                             : a \in TransformAnswers}
           Verdicts == {"ok", "invalid_scan_window", "imu_window_empty",
                        "imu_window_missing_prefix", "imu_window_missing_suffix",
                        "imu_window_internal_gap"}
<1>2. IsFiniteSet(DOMAIN statuses) /\ statuses \in Results
  <2>1. statuses \in [DOMAIN answers -> Pipeline!TransformAge!ReportedStatuses]
    BY DEF Pipeline!TransformAge!StatusesOf, Pipeline!TransformAge!AnalyzeTransform,
           Pipeline!TransformAge!LookupTransform, Pipeline!TransformAge!ReportedStatuses
  <2> QED  BY <2>1, NodeAssumption
<1> HIDE DEF statuses, Results
<1>3. /\ pipeline'.transforms = statuses
      /\ pipeline'.coverage \in Verdicts
  BY <1>1, <1>2, LidarObserved, CoverageVerdicts DEF PipelineInv, statuses
<1>4. /\ IsDiagnosed(pipeline') /\ pipeline'.estimate \in Estimates
      /\ [pt |-> pipeline'.pointTime, confidence |-> pipeline'.estimate.confidence]
             \in Fusion!PointTimeOutcomes
      /\ pipeline'.imuTiming = pipeline.imuTiming
      /\ pipeline'.lidarTiming
           = Pipeline!LidarTracker!Observe(pipeline.lidarTiming, cloud.header)
  BY <1>1, CloudShown DEF PipelineInv, PolicyInv
<1>5. PolicyInv'
  BY <1>4, ObservingCounts DEF PolicyInv
<1> DEFINE new == pipeline'
<1>6. /\ Shown' = [imuTiming   |-> Pipeline!ImuTracker!EvaluateHealth(pipeline.imuTiming),
                   lidarTiming |-> Pipeline!LidarTracker!EvaluateHealth(new.lidarTiming),
                   coverage    |-> new.coverage,
                   pointTime   |-> new.pointTime,
                   confidence  |-> new.estimate.confidence,
                   transforms  |-> statuses]
  BY <1>3, <1>4, NodeAssumption DEF Shown, Pipeline!Observation
<1>7. new.estimate.confidence \in {"LOW", "MEDIUM", "HIGH"}
  BY <1>4 DEF Estimates
<1>8. new.pointTime \in {out.pt : out \in Fusion!PointTimeOutcomes}
  BY <1>4
<1>9. Pipeline!LidarTracker!EvaluateHealth(new.lidarTiming) \in Fusion!TimingSummaries
  BY HealthIsASummary
<1>10. Shown.imuTiming = Pipeline!ImuTracker!EvaluateHealth(pipeline.imuTiming)
  BY DEF Shown, Pipeline!Observation
<1> HIDE DEF Verdicts, new
<1>11. Shown' \in [imuTiming   : {Shown.imuTiming},
                   lidarTiming : Fusion!TimingSummaries,
                   coverage    : Verdicts,
                   pointTime   : {out.pt : out \in Fusion!PointTimeOutcomes},
                   confidence  : {"LOW", "MEDIUM", "HIGH"},
                   transforms  : Results]
  BY <1>2, <1>3, <1>6, <1>7, <1>8, <1>9, <1>10 DEF new
<1>12. [pt |-> Shown'.pointTime, confidence |-> Shown'.confidence] \in Fusion!PointTimeOutcomes
  BY <1>4, <1>6 DEF new
<1>13. TotalShown' = TotalShown /\ WindowShown' = WindowShown
  BY <1>4 DEF TotalShown, WindowShown
<1> QED
  BY <1>5, <1>11, <1>12, <1>13
  DEF Fusion!ObserveLidar, Shown, TotalShown, WindowShown, Verdicts, Results

LEMMA PolicyStep ==
    ASSUME NodeInv, Queue!IInv, PolicyInv, [Next]_vars
    PROVE  PolicyInv' /\ [Fusion!Next]_(Fusion!vars)
<1> USE DEF NodeInv
<1>1. ASSUME NEW stamp \in ImuStamps, OnImuReceived(stamp) PROVE PolicyInv' /\ Fusion!Next
  BY <1>1, ImuShown DEF Fusion!Next
<1>2. ASSUME ProcessReadyPendingCloud PROVE PolicyInv' /\ Fusion!Next
  <2> DEFINE received == clouds[Head(pending).id]
  <2>1. received.cloud \in Clouds /\ received.precomputed \in {NoScan} \cup Windows
    BY <1>2, PendingAreReceived DEF Received
  <2>2. ProcessLidarCloud(Head(pending).id, received.cloud, received.precomputed)
    BY <1>2 DEF ProcessReadyPendingCloud
  <2> QED  BY <2>1, <2>2, DecidedCloudShown DEF Fusion!Next
<1>3. ASSUME UNCHANGED pipeline PROVE PolicyInv' /\ UNCHANGED Fusion!vars
  BY <1>3 DEF PolicyInv, IsDiagnosed, Fusion!vars, Pipeline!Observation
<1>4. ASSUME NEW cloud \in Clouds, OnLidarReceived(cloud)
      PROVE  PolicyInv' /\ [Fusion!Next]_(Fusion!vars)
  <2>1. CASE ProcessLidarCloud(Len(clouds'), cloud, Precomputed(cloud))
    BY <2>1, PrecomputedWindow, DecidedCloudShown DEF Fusion!Next
  <2>2. CASE UNCHANGED <<pipeline, published, event>>
    BY <1>3, <2>2
  <2> QED  BY <1>4, <2>1, <2>2 DEF OnLidarReceived
<1>5. ASSUME OnTimer PROVE PolicyInv' /\ Fusion!Next
  BY <1>5, TimerShown DEF Fusion!Next
<1> QED  BY <1>1, <1>2, <1>3, <1>4, <1>5 DEF Next, FinishDraining, vars

\* What the running node shows its policy - timing, evidence, point-time
\* diagnostics, confidence and transforms - occurs and changes only as
\* FusionDecision describes it, whatever is received and however callbacks,
\* drains and timers interleave.
THEOREM NodeImplementsFusionDecision == Spec => ImplementsFusionDecision
<1>1. Init => PolicyInv /\ Fusion!Init
  BY NothingShownYet
<1>2. NodeInv /\ Queue!IInv /\ PolicyInv /\ [Next]_vars
        => PolicyInv' /\ [Fusion!Next]_(Fusion!vars)
  BY PolicyStep
<1> QED
  BY <1>1, <1>2, NodeInvHolds, QueueInvHolds, PTL DEF Spec, ImplementsFusionDecision, Fusion!Spec

-----------------------------------------------------------------------------
(* The verdict on the map *)

\* What the TF checks of a cloud may report.
Reports ==
    UNION {[DOMAIN answers -> Pipeline!TransformAge!ReportedStatuses] : answers \in TransformAnswers}

LEMMA PolicyIsFit ==
    /\ Policy!ObservationAssumption /\ Policy!EvidenceAssumption
    /\ \A answers \in TransformAnswers :
          IsFiniteSet(DOMAIN answers) /\ DOMAIN answers \subseteq Int
<1>1. \A answers \in TransformAnswers :
          IsFiniteSet(DOMAIN answers) /\ DOMAIN answers \subseteq Int
  BY NodeAssumption
<1>2. Pipeline!TransformAge!ReportedStatuses \subseteq {"OK"} \cup DOMAIN Policy!TransformFaultReason
  BY DEF Pipeline!TransformAge!ReportedStatuses, Policy!TransformFaultReason
<1>3. Policy!ObservationAssumption
  <2>1. ASSUME NEW transforms \in Reports
        PROVE  /\ Policy!IsFiniteSet(DOMAIN transforms) /\ DOMAIN transforms \subseteq Int
               /\ \A i \in DOMAIN transforms :
                     transforms[i] \in {"OK"} \cup DOMAIN Policy!TransformFaultReason
    <3>1. PICK answers \in TransformAnswers :
              transforms \in [DOMAIN answers -> Pipeline!TransformAge!ReportedStatuses]
      BY DEF Reports
    <3>2. DOMAIN transforms = DOMAIN answers
          /\ \A i \in DOMAIN transforms : transforms[i] \in Pipeline!TransformAge!ReportedStatuses
      BY <3>1
    <3>3. IsFiniteSet(DOMAIN transforms) /\ DOMAIN transforms \subseteq Int
      BY <1>1, <3>2
    <3> QED  BY <1>2, <3>2, <3>3 DEF Policy!IsFiniteSet, IsFiniteSet
  <2>2. {"ok", "jitter_suspicious", "jitter_high", "stream_gap", "message_reordering_detected"}
            \subseteq {"ok"} \cup DOMAIN Policy!ImuTimingFaultReason
    BY DEF Policy!ImuTimingFaultReason
  <2> QED  BY <2>1, <2>2 DEF Policy!ObservationAssumption, Reports
<1>4. Policy!EvidenceAssumption
  BY NodeAssumption DEF Policy!EvidenceAssumption
<1> QED  BY <1>1, <1>3, <1>4

\* What is published of an observation.
Published(o) ==
    [allowed |-> Policy!MapUpdateDecision(Policy!Build(o)).allowed,
     health  |-> Policy!Build(o).status,
     reasons |-> Policy!Raised(Policy!Build(o).issues)]

\* The builder of the pipeline is the one the policy is proved about.
LEMMA SameBuild ==
    ASSUME NEW o PROVE Pipeline!Diagnostics!Build(o) = Policy!Build(o)
<1>1. /\ \A summary, reasons : Pipeline!Diagnostics!TimingIssues(summary, reasons)
                                = Policy!TimingIssues(summary, reasons)
      /\ Pipeline!Diagnostics!ImuTimingFaultReason = Policy!ImuTimingFaultReason
      /\ Pipeline!Diagnostics!LidarTimingFaultReason = Policy!LidarTimingFaultReason
  BY DEF Pipeline!Diagnostics!TimingIssues, Policy!TimingIssues,
         Pipeline!Diagnostics!ImuTimingFaultReason, Policy!ImuTimingFaultReason,
         Pipeline!Diagnostics!LidarTimingFaultReason, Policy!LidarTimingFaultReason
<1>2. Pipeline!Diagnostics!CoverageIssues(o.coverage) = Policy!CoverageIssues(o.coverage)
  BY DEF Pipeline!Diagnostics!CoverageIssues, Policy!CoverageIssues,
         Pipeline!Diagnostics!NoCoverage, Policy!NoCoverage,
         Pipeline!Diagnostics!IssueIf, Policy!IssueIf
<1>3. Pipeline!Diagnostics!PointTimeIssues(o.pointTime) = Policy!PointTimeIssues(o.pointTime)
  BY DEF Pipeline!Diagnostics!PointTimeIssues, Policy!PointTimeIssues,
         Pipeline!Diagnostics!IssueIf, Policy!IssueIf
<1>4. Pipeline!Diagnostics!WindowIssues(o.confidence) = Policy!WindowIssues(o.confidence)
  BY DEF Pipeline!Diagnostics!WindowIssues, Policy!WindowIssues,
         Pipeline!Diagnostics!IssueIf, Policy!IssueIf
<1>5. Pipeline!Diagnostics!TransformIssues(o.transforms) = Policy!TransformIssues(o.transforms)
  BY DEF Pipeline!Diagnostics!TransformIssues, Policy!TransformIssues,
         Pipeline!Diagnostics!Selected, Policy!Selected, Pipeline!Diagnostics!Nth, Policy!Nth,
         Pipeline!Diagnostics!TransformIssue, Policy!TransformIssue,
         Pipeline!Diagnostics!TransformHealth, Policy!TransformHealth,
         Pipeline!Diagnostics!TransformFaultReason, Policy!TransformFaultReason,
         Pipeline!Diagnostics!Cardinality, Policy!Cardinality
<1>6. Pipeline!Diagnostics!Issues(o) = Policy!Issues(o)
  BY <1>1, <1>2, <1>3, <1>4, <1>5 DEF Pipeline!Diagnostics!Issues, Policy!Issues
<1> QED  BY <1>6 DEF Pipeline!Diagnostics!Build, Policy!Build,
                     Pipeline!Diagnostics!Worst, Policy!Worst

LEMMA PublishedIs ==
    ASSUME NEW p, PublishDiagnosticTopics(Pipeline!BuildLatestDiagnosticSnapshot(p))
    PROVE  published' = Published(Pipeline!Observation(p))
<1> DEFINE snapshot == Policy!Build(Pipeline!Observation(p))
<1>1. Pipeline!BuildLatestDiagnosticSnapshot(p) = snapshot
  BY SameBuild DEF Pipeline!BuildLatestDiagnosticSnapshot
<1> HIDE DEF snapshot
<1>2. Fusion!MapUpdateDecision(snapshot) = Policy!MapUpdateDecision(snapshot)
  BY DEF Fusion!MapUpdateDecision, Policy!MapUpdateDecision,
         Fusion!DecideMapUpdate, Policy!DecideMapUpdate,
         Fusion!HealthReason, Policy!HealthReason,
         Fusion!HasHardFusionBlockingIssue, Policy!HasHardFusionBlockingIssue,
         Fusion!HardFusionBlockingReasons, Policy!HardFusionBlockingReasons
<1>3. PublishDiagnosticTopics(snapshot)
  BY <1>1
<1> QED  BY <1>2, <1>3 DEF PublishDiagnosticTopics, Published, Policy!Raised, snapshot

\* Two observations that differ in the streams' timing at most.
OfSameScan(o, p) ==
    /\ o.coverage = p.coverage /\ o.pointTime = p.pointTime
    /\ o.confidence = p.confidence /\ o.transforms = p.transforms

LEMMA ShownIsAnObservation ==
    ASSUME NEW p, p.transforms \in Reports \cup {<<>>}
    PROVE  Policy!IsObservation(Pipeline!Observation(p))
<1> DEFINE o == Pipeline!Observation(p)
<1>1. /\ o.imuTiming \in Fusion!TimingSummaries
      /\ o.lidarTiming \in Fusion!TimingSummaries
      /\ o.transforms = p.transforms
  BY HealthIsASummary DEF Pipeline!Observation
<1>2. Fusion!TimingSummaries = Policy!TimingSummaries
  BY DEF Fusion!TimingSummaries, Policy!TimingSummaries,
         Fusion!TimingSummary, Policy!TimingSummary
<1> HIDE DEF o
<1> QED  BY <1>1, <1>2 DEF Policy!IsObservation, Reports, o

\* What was published last is about the scan the pipeline still judges.
PublishedInv ==
    /\ pipeline.transforms \in Reports \cup {<<>>}
    /\ published # NoEvent =>
          \E o : /\ Policy!IsObservation(o) /\ OfSameScan(o, Shown)
                /\ published = Published(o)

LEMMA SameScanShown ==
    ASSUME pipeline'.coverage = pipeline.coverage,
           pipeline'.pointTime = pipeline.pointTime,
           pipeline'.estimate = pipeline.estimate,
           pipeline'.transforms = pipeline.transforms
    PROVE  OfSameScan(Shown, Shown')
<1> DEFINE imu == pipeline'.imuTiming
           lidar == pipeline'.lidarTiming
<1>1. Shown' = [imuTiming   |-> Pipeline!ImuTracker!EvaluateHealth(imu),
                lidarTiming |-> Pipeline!LidarTracker!EvaluateHealth(lidar),
                coverage    |-> pipeline.coverage,
                pointTime   |-> pipeline.pointTime,
                confidence  |-> Confidence(pipeline),
                transforms  |-> pipeline.transforms]
  BY ShownFieldsAfter
<1> QED  BY <1>1, ShownFields DEF OfSameScan

\* A cloud is decided: what is published is what is shown then.
LEMMA DecidingPublishes ==
    ASSUME PipelineInv, NEW id, NEW cloud \in Clouds,
           NEW precomputed \in {NoScan} \cup Windows, ProcessLidarCloud(id, cloud, precomputed)
    PROVE  PublishedInv'
<1>1. PICK answers \in TransformAnswers :
          LET observed == Pipeline!ObserveTransforms(
                              Pipeline!ObserveLidar(pipeline, cloud, precomputed),
                              Pipeline!TransformAge!StatusesOf(cloud.header, answers))
          IN  /\ pipeline' = observed
              /\ PublishDiagnosticTopics(Pipeline!BuildLatestDiagnosticSnapshot(observed))
  BY DEF ProcessLidarCloud
<1> DEFINE statuses == Pipeline!TransformAge!StatusesOf(cloud.header, answers)
           q == Pipeline!ObserveTransforms(
                    Pipeline!ObserveLidar(pipeline, cloud, precomputed), statuses)
<1>2. IsFiniteSet(DOMAIN statuses) /\ statuses \in Reports
  <2>1. statuses \in [DOMAIN answers -> Pipeline!TransformAge!ReportedStatuses]
    BY DEF Pipeline!TransformAge!StatusesOf, Pipeline!TransformAge!AnalyzeTransform,
           Pipeline!TransformAge!LookupTransform, Pipeline!TransformAge!ReportedStatuses
  <2> QED  BY <2>1, NodeAssumption DEF Reports
<1>3. pipeline' = q /\ PublishDiagnosticTopics(Pipeline!BuildLatestDiagnosticSnapshot(q))
  BY <1>1
<1> HIDE DEF statuses
<1>4. q.transforms = statuses
  BY <1>2, LidarObserved DEF PipelineInv
<1> HIDE DEF q
<1>5. published' = Published(Pipeline!Observation(q))
  BY <1>3, PublishedIs
<1>6. Shown' = Pipeline!Observation(q)
  BY <1>3 DEF Shown
<1>7. Policy!IsObservation(Pipeline!Observation(q))
  BY <1>2, <1>4, ShownIsAnObservation
<1> QED  BY <1>2, <1>3, <1>4, <1>5, <1>6, <1>7 DEF PublishedInv, OfSameScan

\* The timer publishes what is shown and leaves the scan alone.
LEMMA TimerPublishes ==
    ASSUME PipelineInv, PublishedInv, OnTimer
    PROVE  PublishedInv' /\ published' = Published(Shown) /\ Policy!IsObservation(Shown)
<1>1. /\ pipeline' = Pipeline!ConsumeWindows(pipeline)
      /\ published' = Published(Shown)
  BY PublishedIs DEF OnTimer, Shown
<1>2. /\ pipeline'.coverage = pipeline.coverage /\ pipeline'.pointTime = pipeline.pointTime
      /\ pipeline'.estimate = pipeline.estimate /\ pipeline'.transforms = pipeline.transforms
  BY <1>1, StreamsLeaveWindow DEF PipelineInv
<1>3. OfSameScan(Shown, Shown')
  BY <1>2, SameScanShown
<1>4. Policy!IsObservation(Shown)
  BY ShownIsAnObservation DEF PublishedInv, Shown
<1> QED  BY <1>1, <1>2, <1>3, <1>4 DEF PublishedInv

LEMMA PublishedInvStep ==
    ASSUME NodeInv, Queue!IInv, PublishedInv, [Next]_vars PROVE PublishedInv'
<1> USE DEF NodeInv
<1>1. ASSUME published' = published,
             (\E stamp : pipeline' = Pipeline!ObserveImu(pipeline, stamp)) \/ pipeline' = pipeline
      PROVE  PublishedInv'
  <2>1. /\ pipeline'.coverage = pipeline.coverage /\ pipeline'.pointTime = pipeline.pointTime
        /\ pipeline'.estimate = pipeline.estimate /\ pipeline'.transforms = pipeline.transforms
    BY <1>1, StreamsLeaveWindow DEF PipelineInv
  <2>2. OfSameScan(Shown, Shown')
    BY <2>1, SameScanShown
  <2> QED  BY <1>1, <2>1, <2>2 DEF PublishedInv, OfSameScan
<1>2. ASSUME NEW stamp \in ImuStamps, OnImuReceived(stamp) PROVE PublishedInv'
  BY <1>1, <1>2 DEF OnImuReceived
<1>3. CASE ProcessReadyPendingCloud
  <2> DEFINE id == Head(pending).id
  <2>1. ProcessLidarCloud(id, clouds[id].cloud, clouds[id].precomputed)
    BY <1>3 DEF ProcessReadyPendingCloud
  <2>2. clouds[id].cloud \in Clouds /\ clouds[id].precomputed \in {NoScan} \cup Windows
    BY <1>3, PendingAreReceived DEF Received
  <2> HIDE DEF id
  <2> QED  BY <2>1, <2>2, DecidingPublishes
<1>4. ASSUME NEW cloud \in Clouds, OnLidarReceived(cloud) PROVE PublishedInv'
  <2>1. CASE ProcessLidarCloud(Len(clouds'), cloud, Precomputed(cloud))
    BY <2>1, PrecomputedWindow, DecidingPublishes
  <2>2. CASE UNCHANGED <<pipeline, published, event>>
    BY <1>1, <2>2
  <2> QED  BY <1>4, <2>1, <2>2 DEF OnLidarReceived
<1>5. CASE OnTimer
  BY <1>5, TimerPublishes
<1>6. CASE FinishDraining \/ UNCHANGED vars
  BY <1>1, <1>6 DEF FinishDraining, vars
<1> QED  BY <1>2, <1>3, <1>4, <1>5, <1>6 DEF Next

LEMMA PublishedInvHolds == Spec => []PublishedInv
<1>1. Init => PublishedInv
  BY DEF Init, PublishedInv, Pipeline!NewPipeline
<1>2. NodeInv /\ Queue!IInv /\ PublishedInv /\ [Next]_vars => PublishedInv'
  BY PublishedInvStep
<1> QED  BY <1>1, <1>2, NodeInvHolds, QueueInvHolds, PTL DEF Spec

\* The timer republishes the verdict on the map unchanged until the next cloud
\* is decided, whatever the timing of the streams did meanwhile, except that a
\* blocker of WARNING severity waits for something DEGRADED (OnTimer over
\* PublishDiagnosticTopics and DecideMapUpdate).
THEOREM MapUpdateVerdictIsAboutACloud == Spec => MapUpdateVerdictNeedsACloud
<1> DEFINE Verdict == (/\ published # NoEvent
                       /\ published.reasons \cap WarningBlockers = {}
                       /\ published'.allowed # published.allowed)
                      => decided' # decided
<1>1. ASSUME NodeInv, Queue!IInv, PublishedInv, [Next]_vars PROVE Verdict
  <2> SUFFICES ASSUME published # NoEvent, published.reasons \cap WarningBlockers = {},
                      decided' = decided
               PROVE  published'.allowed = published.allowed
    OBVIOUS
  <2>1. CASE OnTimer
    <3>1. published' = Published(Shown) /\ Policy!IsObservation(Shown)
      BY <1>1, <2>1, TimerPublishes DEF NodeInv
    <3>2. PICK o : /\ Policy!IsObservation(o) /\ OfSameScan(o, Shown)
                   /\ published = Published(o)
      BY <1>1 DEF PublishedInv
    <3>3. Policy!WarningBlockers \subseteq WarningBlockers
      BY DEF Policy!WarningBlockers, WarningBlockers, Policy!HardFusionBlockingReasons,
             Policy!Warnings
    <3>4. Policy!Raised(Policy!Build(o).issues) \cap Policy!WarningBlockers = {}
      BY <3>2, <3>3 DEF Published
    <3>5. Policy!MapUpdateDecision(Policy!Build(o)).allowed
            = Policy!MapUpdateDecision(Policy!Build(Shown)).allowed
      BY <3>1, <3>2, <3>4, PolicyIsFit, Policy!TimingDecidesOnlyByWarningBlockers DEF OfSameScan
    <3> QED  BY <3>1, <3>2, <3>5 DEF Published
  <2>2. CASE published' = published
    BY <2>2
  <2>3. \/ OnTimer \/ published' = published
    <3>1. ASSUME ProcessReadyPendingCloud PROVE FALSE
      <4>1. decided' = Append(decided, Head(pending).id)
        BY <3>1 DEF ProcessReadyPendingCloud, Holdback!ProcessReadyPendingCloud
      <4>2. Len(clouds) \in Nat /\ Head(pending).id \in Nat \ {0} /\ decided \in Seq(Nat \ {0})
        BY <1>1, <3>1, PendingAreReceived, DecidedAreReceived DEF NodeInv
      <4>3. Len(decided') = Len(decided) + 1 /\ Len(decided) \in Nat
        BY <4>1, <4>2, AppendProperties, LenProperties
      <4> QED  BY <4>3
    <3>2. ASSUME NEW cloud \in Clouds, OnLidarReceived(cloud) PROVE published' = published
      BY <3>2 DEF OnLidarReceived
    <3> QED  BY <1>1, <3>1, <3>2 DEF Next, OnImuReceived, FinishDraining, vars
  <2> QED  BY <2>1, <2>2, <2>3
<1> HIDE DEF Verdict
<1>2. Spec => [][Verdict]_vars
  BY <1>1, NodeInvHolds, QueueInvHolds, PublishedInvHolds, PTL DEF Spec
<1> QED  BY <1>2 DEF MapUpdateVerdictNeedsACloud, Verdict
=============================================================================
