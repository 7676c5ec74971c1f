------------------------ MODULE FusionDecision_proof ------------------------
(***************************************************************************)
(* Proofs about the fusion policy, for every observation the node can make *)
(* and any demand of timing evidence.  All of them go through one fact:    *)
(* each reason is raised with one severity only and never with OK, so what *)
(* the policy decides on is a function of the set of reasons.              *)
(***************************************************************************)
EXTENDS FusionDecision, FiniteSetTheorems, SequenceTheorems, TLAPS

\* The facts about sets of places; nothing here depends on these parameters.
Facts == INSTANCE Algorithms_proof
    WITH Retention <- 0, MaxMissingPrefix <- 0, MaxMissingSuffix <- 0, MaxInternalGap <- 0

TimingFaults ==
    {"imu_stream_timing_jitter_suspicious", "lidar_stream_timing_jitter_suspicious",
     "imu_stream_timing_jitter_high", "lidar_stream_timing_jitter_high",
     "imu_stream_timing_gap", "lidar_stream_timing_gap",
     "imu_stream_timing_reordered", "lidar_stream_timing_reordered"}

Warnings ==
    {"imu_stream_timing_jitter_suspicious", "lidar_stream_timing_jitter_suspicious",
     "lidar_point_time_unsupported", "lidar_point_time_extraction_failed",
     "lidar_scan_window_low_confidence"}

SeverityOf(reason) ==
    IF reason \in Warnings THEN "WARNING"
    ELSE IF reason \in {"no_lidar_scan_received_yet", "tf_lookup_failed"} THEN "INVALID"
    ELSE "DEGRADED"

Issue(reason) == [severity |-> SeverityOf(reason), reason |-> reason]

\* The issues that may be raised, with these reasons.
IssuesWith(R) == {Issue(reason) : reason \in R}

AllReasons ==
    TimingFaults \cup Warnings
    \cup {"no_lidar_scan_received_yet", "imu_window_incomplete",
          "tf_lookup_failed", "tf_extrapolation_required", "tf_age_too_high",
          "tf_transform_from_future"}

\* What an observation is.
IsObservation(o) ==
    /\ o.imuTiming \in TimingSummaries \cup {TimingSummary("ok")}
    /\ o.lidarTiming \in TimingSummaries \cup {TimingSummary("ok")}
    /\ o.transforms \in TransformResults \cup {<<>>}

\* A window read from points came from a supported field and is trusted.
UsedPointTimesAreTrusted ==
    obs.pointTime.used => /\ obs.pointTime.candidate /\ obs.pointTime.supported
                          /\ obs.confidence \in {"HIGH", NoWindow}

ObservationInv ==
    /\ IsObservation(obs)
    /\ UsedPointTimesAreTrusted
    /\ totalImu \in Nat /\ windowImu \in Nat

LEMMA ObservationInvHolds == Spec => []ObservationInv
<1> USE DEF IsObservation, UsedPointTimesAreTrusted
<1>1. Init => ObservationInv
  BY DEF Init, ObservationInv, NoPointTime
<1>2. ASSUME ObservationInv, [Next]_vars PROVE ObservationInv'
  <2>1. CASE ObserveImu
    <3>1. PICK summary \in TimingSummaries : obs' = [obs EXCEPT !.imuTiming = summary]
      BY <2>1 DEF ObserveImu
    <3>2. totalImu' \in Nat /\ windowImu' \in Nat
      BY <1>2, <2>1, EvidenceAssumption DEF ObserveImu, CountUpTo, ObservationInv
    <3> QED  BY <1>2, <3>1, <3>2 DEF ObservationInv
  <2>2. CASE ObserveLidar
    BY <1>2, <2>2 DEF ObserveLidar, ObservationInv, PointTimeOutcomes, NoPointTime
  <2>3. CASE ConsumeWindows
    BY <1>2, <2>3 DEF ConsumeWindows, ObservationInv
  <2>4. CASE UNCHANGED vars
    BY <1>2, <2>4 DEF vars, ObservationInv
  <2> QED  BY <1>2, <2>1, <2>2, <2>3, <2>4 DEF Next
<1> QED  BY <1>1, <1>2, PTL DEF Spec

-----------------------------------------------------------------------------
(* Each part of the issues *)

LEMMA IssueIfWith ==
    ASSUME NEW condition, NEW R, NEW reason, condition => reason \in R
    PROVE  IssueIf(condition, SeverityOf(reason), reason) \in Seq(IssuesWith(R))
<1>1. CASE condition
  <2>1. Issue(reason) \in IssuesWith(R)
    BY <1>1 DEF IssuesWith
  <2> QED  BY <1>1, <2>1 DEF IssueIf, Issue
<1>2. CASE ~ condition
  BY <1>2 DEF IssueIf
<1> QED  BY <1>1, <1>2

LEMMA TimingIssuesAre ==
    ASSUME NEW summary \in TimingSummaries \cup {TimingSummary("ok")}
    PROVE  /\ TimingIssues(summary, ImuTimingFaultReason) \in Seq(IssuesWith(TimingFaults))
           /\ TimingIssues(summary, LidarTimingFaultReason) \in Seq(IssuesWith(TimingFaults))
<1>1. PICK reason \in {"ok"} \cup DOMAIN ImuTimingFaultReason : summary = TimingSummary(reason)
  BY ObservationAssumption DEF TimingSummaries
<1>2. CASE reason = "ok"
  BY <1>1, <1>2 DEF TimingSummary, TimingIssues
<1>3. CASE reason \in DOMAIN ImuTimingFaultReason
  <2>1. /\ summary.health # "OK" /\ summary.reason = reason
        /\ ImuTimingFaultReason[reason] \in TimingFaults
        /\ LidarTimingFaultReason[reason] \in TimingFaults
        /\ summary.health = SeverityOf(ImuTimingFaultReason[reason])
        /\ summary.health = SeverityOf(LidarTimingFaultReason[reason])
    BY <1>1, <1>3 DEF TimingSummary, ImuTimingFaultReason, LidarTimingFaultReason,
                      TimingFaults, SeverityOf, Warnings
  <2>2. /\ Issue(ImuTimingFaultReason[reason]) \in IssuesWith(TimingFaults)
        /\ Issue(LidarTimingFaultReason[reason]) \in IssuesWith(TimingFaults)
    BY <2>1 DEF IssuesWith
  <2>3. /\ TimingIssues(summary, ImuTimingFaultReason) = <<Issue(ImuTimingFaultReason[reason])>>
        /\ TimingIssues(summary, LidarTimingFaultReason)
             = <<Issue(LidarTimingFaultReason[reason])>>
    BY <2>1 DEF TimingIssues, Issue
  <2> QED  BY <2>2, <2>3
<1> QED  BY <1>1, <1>2, <1>3

LEMMA CoverageIssuesAre ==
    ASSUME NEW coverage
    PROVE  /\ CoverageIssues(coverage) \in Seq(IssuesWith(AllReasons))
           /\ coverage = "ok" => CoverageIssues(coverage) = <<>>
<1>1. /\ SeverityOf("no_lidar_scan_received_yet") = "INVALID"
      /\ SeverityOf("imu_window_incomplete") = "DEGRADED"
      /\ {"no_lidar_scan_received_yet", "imu_window_incomplete"} \subseteq AllReasons
  BY DEF SeverityOf, Warnings, AllReasons
<1>2. /\ IssueIf(coverage = NoCoverage, "INVALID", "no_lidar_scan_received_yet")
            \in Seq(IssuesWith(AllReasons))
      /\ IssueIf(coverage \notin {NoCoverage, "ok"}, "DEGRADED", "imu_window_incomplete")
            \in Seq(IssuesWith(AllReasons))
  BY <1>1, IssueIfWith
<1>3. coverage = "ok" => CoverageIssues(coverage) = <<>> \o <<>>
  BY DEF CoverageIssues, IssueIf, NoCoverage
<1> QED  BY <1>2, <1>3, ConcatProperties DEF CoverageIssues

LEMMA PointTimeIssuesAre ==
    ASSUME NEW pt
    PROVE  /\ PointTimeIssues(pt) \in Seq(IssuesWith(AllReasons))
           /\ pt.used /\ pt.supported => PointTimeIssues(pt) = <<>>
<1>1. /\ SeverityOf("lidar_point_time_unsupported") = "WARNING"
      /\ SeverityOf("lidar_point_time_extraction_failed") = "WARNING"
      /\ {"lidar_point_time_unsupported", "lidar_point_time_extraction_failed"}
            \subseteq AllReasons
  BY DEF SeverityOf, Warnings, AllReasons
<1>2. /\ IssueIf(pt.candidate /\ ~pt.supported, "WARNING", "lidar_point_time_unsupported")
            \in Seq(IssuesWith(AllReasons))
      /\ IssueIf(pt.attempted /\ ~pt.used, "WARNING", "lidar_point_time_extraction_failed")
            \in Seq(IssuesWith(AllReasons))
  BY <1>1, IssueIfWith
<1>3. pt.used /\ pt.supported => PointTimeIssues(pt) = <<>> \o <<>>
  BY DEF PointTimeIssues, IssueIf
<1> QED  BY <1>2, <1>3, ConcatProperties DEF PointTimeIssues

LEMMA WindowIssuesAre ==
    ASSUME NEW confidence
    PROVE  /\ WindowIssues(confidence) \in Seq(IssuesWith(AllReasons))
           /\ confidence # "LOW" => WindowIssues(confidence) = <<>>
<1>1. /\ SeverityOf("lidar_scan_window_low_confidence") = "WARNING"
      /\ "lidar_scan_window_low_confidence" \in AllReasons
  BY DEF SeverityOf, Warnings, AllReasons
<1> QED  BY <1>1, IssueIfWith DEF WindowIssues, IssueIf

LEMMA TransformIssuesAre ==
    ASSUME NEW transforms \in TransformResults \cup {<<>>}
    PROVE  /\ TransformIssues(transforms) \in Seq(IssuesWith(AllReasons))
           /\ transforms = <<>> => TransformIssues(transforms) = <<>>
<1> DEFINE failing == {i \in DOMAIN transforms : transforms[i] # "OK"}
           number == Cardinality(failing)
           issues == TransformIssues(transforms)
<1>1. /\ IsFiniteSet(DOMAIN transforms) /\ DOMAIN transforms \subseteq Int
      /\ \A i \in DOMAIN transforms : transforms[i] \in {"OK"} \cup DOMAIN TransformFaultReason
  BY ObservationAssumption, FS_EmptySet
<1>2. IsFiniteSet(failing) /\ number \in Nat
  BY <1>1, FS_Subset, FS_CardinalityType
<1>3. issues = [n \in 1 .. number |->
                    [i \in failing |-> TransformIssue(transforms[i])][Nth(failing, n)]]
  BY DEF TransformIssues, Selected
<1>4. ASSUME NEW status \in DOMAIN TransformFaultReason
      PROVE  TransformIssue(status) \in IssuesWith(AllReasons)
  <2>1. /\ TransformFaultReason[status] \in AllReasons
        /\ TransformHealth(status) = SeverityOf(TransformFaultReason[status])
    BY DEF TransformFaultReason, AllReasons, TransformHealth, SeverityOf, Warnings
  <2> QED  BY <2>1 DEF TransformIssue, Issue, IssuesWith
<1>5. ASSUME NEW n \in 1 .. number PROVE Nth(failing, n) \in failing
  <2>1. Facts!RetentionAssumption /\ Facts!CoverageAssumption
    BY DEF Facts!RetentionAssumption, Facts!CoverageAssumption
  <2>2. /\ failing \in SUBSET Int /\ Facts!IsFiniteSet(failing)
        /\ n \in 1 .. Facts!Cardinality(failing)
    BY <1>1, <1>2 DEF IsFiniteSet, Facts!IsFiniteSet, Cardinality, Facts!Cardinality
  <2>3. Facts!Nth(failing, n) \in failing
    BY <2>1, <2>2, Facts!NthIsThere
  <2> QED  BY <2>3 DEF Nth, Facts!Nth, Cardinality, Facts!Cardinality
<1>6. transforms = <<>> => number = 0
  <2>1. transforms = <<>> => failing = {}
    OBVIOUS
  <2> QED  BY <2>1, FS_EmptySet
<1> HIDE DEF number, issues
<1>7. ASSUME NEW n \in 1 .. number
      PROVE  [i \in failing |-> TransformIssue(transforms[i])][Nth(failing, n)]
                 \in IssuesWith(AllReasons)
  <2>1. transforms[Nth(failing, n)] \in DOMAIN TransformFaultReason
    BY <1>1, <1>5
  <2> QED  BY <1>4, <1>5, <2>1
<1>8. issues \in Seq(IssuesWith(AllReasons)) /\ (number = 0 => issues = <<>>)
  <2> DEFINE of(n) == [i \in failing |-> TransformIssue(transforms[i])][Nth(failing, n)]
  <2>1. issues = [n \in 1 .. number |-> of(n)] /\ \A n \in 1 .. number : of(n) \in IssuesWith(AllReasons)
    BY <1>3, <1>7
  <2> HIDE DEF of
  <2> QED  BY <1>2, <2>1
<1> QED  BY <1>6, <1>8 DEF issues
-----------------------------------------------------------------------------
(* The policy decides on the set of reasons *)

LEMMA WiderSeq == ASSUME NEW A, NEW B, A \subseteq B, NEW s \in Seq(A) PROVE s \in Seq(B)
  OBVIOUS

\* The reasons a sequence of issues names.
Raised(issues) == {issues[i].reason : i \in DOMAIN issues}

LEMMA RaisedByEither ==
    ASSUME NEW S, NEW s \in Seq(S), NEW t \in Seq(S)
    PROVE  s \o t \in Seq(S) /\ Raised(s \o t) = Raised(s) \cup Raised(t)
<1>1. /\ s \o t \in Seq(S) /\ DOMAIN (s \o t) = 1 .. Len(s) + Len(t)
      /\ \A i \in 1 .. Len(s) + Len(t) :
            (s \o t)[i] = IF i <= Len(s) THEN s[i] ELSE t[i - Len(s)]
      /\ Len(s) \in Nat /\ Len(t) \in Nat
      /\ DOMAIN s = 1 .. Len(s) /\ DOMAIN t = 1 .. Len(t)
  BY ConcatProperties, LenProperties
<1>2. ASSUME NEW i \in DOMAIN s PROVE i \in DOMAIN (s \o t) /\ (s \o t)[i] = s[i]
  <2>1. i \in 1 .. Len(s) + Len(t) /\ i <= Len(s)
    BY <1>1
  <2> QED  BY <1>1, <2>1
<1>3. ASSUME NEW i \in DOMAIN t
      PROVE  i + Len(s) \in DOMAIN (s \o t) /\ (s \o t)[i + Len(s)] = t[i]
  <2>1. /\ i + Len(s) \in 1 .. Len(s) + Len(t) /\ ~ (i + Len(s) <= Len(s))
        /\ (i + Len(s)) - Len(s) = i
    BY <1>1
  <2> QED  BY <1>1, <2>1
<1>4. ASSUME NEW i \in DOMAIN (s \o t)
      PROVE  \/ i \in DOMAIN s /\ (s \o t)[i] = s[i]
             \/ i - Len(s) \in DOMAIN t /\ (s \o t)[i] = t[i - Len(s)]
  BY <1>1
<1>5. Raised(s \o t) \subseteq Raised(s) \cup Raised(t)
  BY <1>4 DEF Raised
<1>6. Raised(s) \subseteq Raised(s \o t) /\ Raised(t) \subseteq Raised(s \o t)
  <2> DEFINE c == s \o t
  <2>1. /\ \A i \in DOMAIN s : \E j \in DOMAIN c : s[i] = c[j]
        /\ \A i \in DOMAIN t : \E j \in DOMAIN c : t[i] = c[j]
    BY <1>2, <1>3
  <2> HIDE DEF c
  <2>2. Raised(s) \subseteq Raised(c) /\ Raised(t) \subseteq Raised(c)
    BY <2>1 DEF Raised
  <2> QED  BY <2>2 DEF c
<1> QED  BY <1>1, <1>5, <1>6

LEMMA IssuesAre ==
    ASSUME NEW o, IsObservation(o)
    PROVE  /\ Issues(o) \in Seq(IssuesWith(AllReasons))
           /\ Raised(Issues(o))
                = Raised(TimingIssues(o.imuTiming, ImuTimingFaultReason))
                  \cup Raised(TimingIssues(o.lidarTiming, LidarTimingFaultReason))
                  \cup Raised(CoverageIssues(o.coverage))
                  \cup Raised(PointTimeIssues(o.pointTime))
                  \cup Raised(WindowIssues(o.confidence))
                  \cup Raised(TransformIssues(o.transforms))
<1> DEFINE imu == TimingIssues(o.imuTiming, ImuTimingFaultReason)
           lidar == TimingIssues(o.lidarTiming, LidarTimingFaultReason)
           coverage == CoverageIssues(o.coverage)
           points == PointTimeIssues(o.pointTime)
           window == WindowIssues(o.confidence)
           transforms == TransformIssues(o.transforms)
           All == IssuesWith(AllReasons)
<1>1. IssuesWith(TimingFaults) \subseteq All
  BY DEF IssuesWith, AllReasons
<1>2. /\ imu \in Seq(All) /\ lidar \in Seq(All)
      /\ coverage \in Seq(All) /\ points \in Seq(All)
      /\ window \in Seq(All) /\ transforms \in Seq(All)
  BY <1>1, WiderSeq, TimingIssuesAre, CoverageIssuesAre, PointTimeIssuesAre, WindowIssuesAre,
     TransformIssuesAre DEF IsObservation
<1>3. Issues(o) = ((((imu \o lidar) \o coverage) \o points) \o window) \o transforms
  BY DEF Issues
<1> HIDE DEF imu, lidar, coverage, points, window, transforms, All
<1> DEFINE s2 == imu \o lidar
           s3 == s2 \o coverage
           s4 == s3 \o points
           s5 == s4 \o window
           s6 == s5 \o transforms
<1>4. s2 \in Seq(All) /\ Raised(s2) = Raised(imu) \cup Raised(lidar)
  BY <1>2, RaisedByEither
<1> HIDE DEF s2
<1>5. s3 \in Seq(All) /\ Raised(s3) = Raised(s2) \cup Raised(coverage)
  BY <1>2, <1>4, RaisedByEither
<1> HIDE DEF s3
<1>6. s4 \in Seq(All) /\ Raised(s4) = Raised(s3) \cup Raised(points)
  BY <1>2, <1>5, RaisedByEither
<1> HIDE DEF s4
<1>7. s5 \in Seq(All) /\ Raised(s5) = Raised(s4) \cup Raised(window)
  BY <1>2, <1>6, RaisedByEither
<1> HIDE DEF s5
<1>8. s6 \in Seq(All) /\ Raised(s6) = Raised(s5) \cup Raised(transforms)
  BY <1>2, <1>7, RaisedByEither
<1> HIDE DEF s6
<1>9. Issues(o) = s6
  BY <1>3 DEF s2, s3, s4, s5, s6
<1> QED  BY <1>4, <1>5, <1>6, <1>7, <1>8, <1>9 DEF imu, lidar, coverage, points, window, transforms, All

\* The reasons that are about the last scan, and not about the streams' timing.
ScanReasons(o) ==
    Raised(CoverageIssues(o.coverage)) \cup Raised(PointTimeIssues(o.pointTime))
    \cup Raised(WindowIssues(o.confidence)) \cup Raised(TransformIssues(o.transforms))

LEMMA TimingAddsFaults ==
    ASSUME NEW o, IsObservation(o)
    PROVE  /\ Raised(Issues(o)) \subseteq AllReasons
           /\ \E faults \in SUBSET TimingFaults : Raised(Issues(o)) = faults \cup ScanReasons(o)
<1>1. ASSUME NEW R, NEW s \in Seq(IssuesWith(R)) PROVE Raised(s) \subseteq R
  <2>1. \A i \in DOMAIN s : s[i] \in IssuesWith(R)
    OBVIOUS
  <2> QED  BY <2>1 DEF Raised, IssuesWith, Issue
<1>2. Raised(TimingIssues(o.imuTiming, ImuTimingFaultReason))
          \cup Raised(TimingIssues(o.lidarTiming, LidarTimingFaultReason)) \subseteq TimingFaults
  BY <1>1, TimingIssuesAre DEF IsObservation
<1> QED  BY <1>1, <1>2, IssuesAre DEF ScanReasons

\* The status a set of reasons amounts to.
StatusOf(R) == Worst({SeverityOf(reason) : reason \in R})

\* The map update, decided by reasons.
AllowsMapUpdate(R) ==
    /\ StatusOf(R) # "INVALID"
    /\ StatusOf(R) = "DEGRADED" => R \cap HardFusionBlockingReasons = {}

LEMMA BuildDecidesByReasons ==
    ASSUME NEW o, IsObservation(o)
    PROVE  LET R == Raised(Build(o).issues)
           IN  /\ R = Raised(Issues(o))
               /\ Build(o).status = StatusOf(R)
               /\ HasHardFusionBlockingIssue(Build(o))
                      <=> R \cap HardFusionBlockingReasons # {}
               /\ MapUpdateDecision(Build(o)).allowed <=> AllowsMapUpdate(R)
<1> DEFINE issues == Issues(o)
           R == Raised(issues)
<1>1. Build(o).issues = issues
      /\ Build(o).status = Worst({issues[i].severity : i \in DOMAIN issues})
  BY DEF Build
<1>2. issues \in Seq(IssuesWith(AllReasons))
  BY IssuesAre
<1> HIDE DEF issues
<1>3. \A i \in DOMAIN issues : issues[i].severity = SeverityOf(issues[i].reason)
  <2>1. \A i \in DOMAIN issues : issues[i] \in IssuesWith(AllReasons)
    BY <1>2
  <2> QED  BY <2>1 DEF IssuesWith, Issue
<1>4. {issues[i].severity : i \in DOMAIN issues} = {SeverityOf(reason) : reason \in R}
  BY <1>3 DEF Raised
<1>5. Build(o).status = StatusOf(R) /\ Build(o).status \in {"OK", "WARNING", "DEGRADED", "INVALID"}
  BY <1>1, <1>4 DEF StatusOf, Worst
<1>6. HasHardFusionBlockingIssue(Build(o)) <=> R \cap HardFusionBlockingReasons # {}
  BY <1>1 DEF HasHardFusionBlockingIssue, Raised
<1>7. MapUpdateDecision(Build(o)).allowed <=> AllowsMapUpdate(R)
  BY <1>5, <1>6 DEF MapUpdateDecision, DecideMapUpdate, AllowsMapUpdate
<1> QED  BY <1>1, <1>5, <1>6, <1>7 DEF issues

\* What the parts of the observation raise.
LEMMA ReasonIf ==
    ASSUME NEW condition, NEW severity, NEW reason
    PROVE  Raised(IssueIf(condition, severity, reason)) = IF condition THEN {reason} ELSE {}
  BY DEF Raised, IssueIf

LEMMA TimingReason ==
    ASSUME NEW summary, NEW faultReason
    PROVE  Raised(TimingIssues(summary, faultReason))
             = IF summary.health = "OK" THEN {} ELSE {faultReason[summary.reason]}
  BY DEF Raised, TimingIssues

LEMMA CoverageReason ==
    ASSUME NEW coverage
    PROVE  Raised(CoverageIssues(coverage))
             = (IF coverage = NoCoverage THEN {"no_lidar_scan_received_yet"} ELSE {})
               \cup (IF coverage \notin {NoCoverage, "ok"} THEN {"imu_window_incomplete"} ELSE {})
<1> DEFINE none == IssueIf(coverage = NoCoverage, "INVALID", "no_lidar_scan_received_yet")
           gap == IssueIf(coverage \notin {NoCoverage, "ok"}, "DEGRADED", "imu_window_incomplete")
<1>1. none \in Seq(IssuesWith(AllReasons)) /\ gap \in Seq(IssuesWith(AllReasons))
  <2>1. /\ SeverityOf("no_lidar_scan_received_yet") = "INVALID"
        /\ SeverityOf("imu_window_incomplete") = "DEGRADED"
        /\ {"no_lidar_scan_received_yet", "imu_window_incomplete"} \subseteq AllReasons
    BY DEF SeverityOf, Warnings, AllReasons
  <2> QED  BY <2>1, IssueIfWith
<1>2. Raised(CoverageIssues(coverage)) = Raised(none) \cup Raised(gap)
  <2>1. CoverageIssues(coverage) = none \o gap
    BY DEF CoverageIssues
  <2> HIDE DEF none, gap
  <2> QED  BY <1>1, <2>1, RaisedByEither
<1>3. /\ Raised(none) = IF coverage = NoCoverage THEN {"no_lidar_scan_received_yet"} ELSE {}
      /\ Raised(gap) = IF coverage \notin {NoCoverage, "ok"} THEN {"imu_window_incomplete"}
                       ELSE {}
  BY ReasonIf, Zenon
<1> HIDE DEF none, gap
<1> QED  BY <1>2, <1>3

LEMMA PointTimeReasons ==
    ASSUME NEW pt
    PROVE  Raised(PointTimeIssues(pt)) \subseteq
               {"lidar_point_time_unsupported", "lidar_point_time_extraction_failed"}
<1> DEFINE rejected == IssueIf(pt.candidate /\ ~pt.supported, "WARNING",
                               "lidar_point_time_unsupported")
           failed == IssueIf(pt.attempted /\ ~pt.used, "WARNING",
                             "lidar_point_time_extraction_failed")
<1>1. rejected \in Seq(IssuesWith(AllReasons)) /\ failed \in Seq(IssuesWith(AllReasons))
  <2>1. /\ SeverityOf("lidar_point_time_unsupported") = "WARNING"
        /\ SeverityOf("lidar_point_time_extraction_failed") = "WARNING"
        /\ {"lidar_point_time_unsupported", "lidar_point_time_extraction_failed"}
              \subseteq AllReasons
    BY DEF SeverityOf, Warnings, AllReasons
  <2> QED  BY <2>1, IssueIfWith
<1>2. Raised(PointTimeIssues(pt)) = Raised(rejected) \cup Raised(failed)
  <2>1. PointTimeIssues(pt) = rejected \o failed
    BY DEF PointTimeIssues
  <2> HIDE DEF rejected, failed
  <2> QED  BY <1>1, <2>1, RaisedByEither
<1> QED  BY <1>2, ReasonIf

\* Without TF checks nothing but a stream's own timing raises its timing faults.
LEMMA ScanReasonsAreNotTiming ==
    ASSUME NEW o, o.transforms = <<>> PROVE ScanReasons(o) \cap TimingFaults = {}
<1>1. Raised(TransformIssues(o.transforms)) = {}
  <2>1. TransformIssues(<<>>) = <<>>
    BY TransformIssuesAre
  <2> QED  BY <2>1 DEF Raised
<1>2. Raised(WindowIssues(o.confidence)) \subseteq {"lidar_scan_window_low_confidence"}
  BY ReasonIf DEF WindowIssues
<1>3. Raised(CoverageIssues(o.coverage)) \subseteq
          {"no_lidar_scan_received_yet", "imu_window_incomplete"}
  BY CoverageReason
<1> QED  BY <1>1, <1>2, <1>3, PointTimeReasons DEF ScanReasons, TimingFaults

\* The map update is only allowed when the last scan was judged and covered: any
\* other verdict of the analyzer raises an issue DecideMapUpdate gives way to.
THEOREM AllowedScansAreCovered ==
    ASSUME NEW o, IsObservation(o), MapUpdateDecision(Build(o)).allowed
    PROVE  o.coverage = "ok"
<1> DEFINE R == Raised(Build(o).issues)
<1>1. AllowsMapUpdate(R) /\ Raised(CoverageIssues(o.coverage)) \subseteq R
  BY BuildDecidesByReasons, IssuesAre
<1> HIDE DEF R
<1>2. ASSUME o.coverage = NoCoverage PROVE FALSE
  <2>1. "no_lidar_scan_received_yet" \in R
    BY <1>1, <1>2, CoverageReason
  <2>2. SeverityOf("no_lidar_scan_received_yet") = "INVALID"
    BY DEF SeverityOf, Warnings
  <2> QED  BY <1>1, <2>1, <2>2 DEF AllowsMapUpdate, StatusOf, Worst
<1>3. ASSUME o.coverage \notin {NoCoverage, "ok"} PROVE FALSE
  <2>1. "imu_window_incomplete" \in R
    BY <1>1, <1>3, CoverageReason
  <2>2. SeverityOf("imu_window_incomplete") = "DEGRADED"
    BY DEF SeverityOf, Warnings
  <2> QED  BY <1>1, <2>1, <2>2 DEF AllowsMapUpdate, StatusOf, Worst, HardFusionBlockingReasons
<1> QED  BY <1>2, <1>3

LEMMA SnapshotIsItsReasons ==
    ASSUME ObservationInv
    PROVE  /\ Snapshot.status = StatusOf(Reasons)
           /\ HasHardFusionBlockingIssue(Snapshot)
                  <=> Reasons \cap HardFusionBlockingReasons # {}
           /\ (/\ obs.coverage = "ok" /\ obs.transforms = <<>>
               /\ obs.pointTime.used) => Reasons \subseteq TimingFaults
<1>1. IsObservation(obs) /\ Reasons = Raised(Build(obs).issues)
  BY DEF ObservationInv, Reasons, Snapshot, Raised
<1>2. ASSUME obs.coverage = "ok", obs.transforms = <<>>, obs.pointTime.used
      PROVE  Reasons \subseteq TimingFaults
  <2>1. ScanReasons(obs) = Raised(<<>>)
    BY <1>2, CoverageIssuesAre, PointTimeIssuesAre, WindowIssuesAre, TransformIssuesAre
    DEF ScanReasons, ObservationInv, UsedPointTimesAreTrusted, IsObservation, NoWindow
  <2>2. Raised(<<>>) = {}
    BY DEF Raised
  <2> QED  BY <1>1, <2>1, <2>2, TimingAddsFaults, BuildDecidesByReasons
<1> QED  BY <1>1, <1>2, BuildDecidesByReasons DEF Snapshot

\* The hard blockers that raise no more than a WARNING.
WarningBlockers == HardFusionBlockingReasons \cap Warnings

\* The timing of the streams decides nothing about the map update, unless a
\* blocker of WARNING severity is among the reasons: it is heeded only once
\* something else makes the status DEGRADED (DecideMapUpdate).
THEOREM TimingDecidesOnlyByWarningBlockers ==
    ASSUME NEW o, IsObservation(o), NEW p, IsObservation(p),
           o.coverage = p.coverage, o.pointTime = p.pointTime,
           o.confidence = p.confidence, o.transforms = p.transforms,
           Raised(Build(o).issues) \cap WarningBlockers = {}
    PROVE  MapUpdateDecision(Build(o)).allowed = MapUpdateDecision(Build(p)).allowed
<1> DEFINE S == ScanReasons(o)
<1>1. S = ScanReasons(p)
  BY DEF ScanReasons
<1>2. /\ S \subseteq AllReasons /\ S \cap WarningBlockers = {}
  BY TimingAddsFaults, BuildDecidesByReasons
<1>3. S \cap HardFusionBlockingReasons \subseteq {"imu_window_incomplete"}
  BY <1>2 DEF AllReasons, TimingFaults, Warnings, WarningBlockers, HardFusionBlockingReasons
<1> HIDE DEF S
<1>4. ASSUME NEW faults \in SUBSET TimingFaults
      PROVE  AllowsMapUpdate(faults \cup S)
             <=> /\ \A reason \in S : SeverityOf(reason) # "INVALID"
                 /\ S \cap HardFusionBlockingReasons = {}
  <2> DEFINE R == faults \cup S
             severities == {SeverityOf(reason) : reason \in R}
  <2>1. \A reason \in faults : reason \notin HardFusionBlockingReasons
                                /\ SeverityOf(reason) # "INVALID"
    BY DEF TimingFaults, HardFusionBlockingReasons, SeverityOf, Warnings
  <2>2. "INVALID" \in severities <=> \E reason \in S : SeverityOf(reason) = "INVALID"
    BY <2>1
  <2>3. R \cap HardFusionBlockingReasons = S \cap HardFusionBlockingReasons
    BY <2>1
  <2>4. S \cap HardFusionBlockingReasons # {} => "DEGRADED" \in severities
    <3>1. S \cap HardFusionBlockingReasons # {} => "imu_window_incomplete" \in R
      BY <1>3
    <3>2. SeverityOf("imu_window_incomplete") = "DEGRADED"
      BY DEF SeverityOf, Warnings
    <3> QED  BY <3>1, <3>2
  <2>5. /\ StatusOf(R) = "INVALID" <=> "INVALID" \in severities
        /\ StatusOf(R) = "DEGRADED"
              <=> "INVALID" \notin severities /\ "DEGRADED" \in severities
    BY DEF StatusOf, Worst
  <2> HIDE DEF R, severities
  <2>6. AllowsMapUpdate(R) <=> /\ "INVALID" \notin severities
                               /\ S \cap HardFusionBlockingReasons = {}
    BY <2>3, <2>4, <2>5 DEF AllowsMapUpdate
  <2> QED  BY <2>2, <2>6 DEF R
<1>5. ASSUME NEW q, IsObservation(q), ScanReasons(q) = S
      PROVE  MapUpdateDecision(Build(q)).allowed
             <=> /\ \A reason \in S : SeverityOf(reason) # "INVALID"
                 /\ S \cap HardFusionBlockingReasons = {}
  BY <1>4, <1>5, TimingAddsFaults, BuildDecidesByReasons
<1>6. \A q : MapUpdateDecision(Build(q)).allowed \in BOOLEAN
  BY DEF MapUpdateDecision, DecideMapUpdate
<1> QED  BY <1>1, <1>5, <1>6 DEF S

LEMMA SeveritiesAreLoud ==
    ASSUME NEW reason PROVE SeverityOf(reason) \in {"WARNING", "DEGRADED", "INVALID"}
  BY DEF SeverityOf

\* More reasons do not make a better status.
LEMMA StatusIsMonotone ==
    ASSUME NEW R, NEW S, R \subseteq S
    PROVE  /\ StatusOf(R) \in {"OK", "WARNING", "DEGRADED", "INVALID"}
           /\ StatusOf(R) = "INVALID" => StatusOf(S) = "INVALID"
           /\ StatusOf(R) = "DEGRADED" => StatusOf(S) \in {"DEGRADED", "INVALID"}
           /\ R # {} => StatusOf(S) # "OK"
<1>1. {SeverityOf(reason) : reason \in R} \subseteq {SeverityOf(reason) : reason \in S}
  OBVIOUS
<1>2. R # {} => {SeverityOf(reason) : reason \in S} \cap {"WARNING", "DEGRADED", "INVALID"} # {}
  BY SeveritiesAreLoud
<1> QED  BY <1>1, <1>2 DEF StatusOf, Worst

\* What a mode forwards, in terms of the reasons and the evidence.
ForwardsWith(gateMode, R, total, window) ==
    \/ gateMode = "observe"
    \/ /\ total >= MinTotalImuSamples /\ window >= MinWindowImuSamples
       /\ \/ gateMode = "drop_invalid" /\ StatusOf(R) # "INVALID"
          \/ /\ gateMode = "drop_degraded" /\ StatusOf(R) # "INVALID"
             /\ R \cap HardFusionBlockingReasons = {}
          \/ gateMode = "strict" /\ StatusOf(R) = "OK"

LEMMA ForwardsByReasons ==
    ASSUME ObservationInv, NEW gateMode \in GateModes
    PROVE  Forwards(gateMode) <=> ForwardsWith(gateMode, Reasons, totalImu, windowImu)
<1>1. Forwards(gateMode)
      <=> EvaluateLidarCloudGate(gateMode, GateInput(Snapshot, totalImu, windowImu)).forward
  BY DEF Forwards, Decision, ForwardingDecision
<1>2. /\ GateInput(Snapshot, totalImu, windowImu).health = StatusOf(Reasons)
      /\ GateInput(Snapshot, totalImu, windowImu).blocker
            <=> Reasons \cap HardFusionBlockingReasons # {}
      /\ GateInput(Snapshot, totalImu, windowImu).totalImu = totalImu
      /\ GateInput(Snapshot, totalImu, windowImu).windowImu = windowImu
  BY SnapshotIsItsReasons DEF GateInput
<1> DEFINE input == GateInput(Snapshot, totalImu, windowImu)
<1> HIDE DEF input
<1>3. EvaluateLidarCloudGate(gateMode, input).forward
      <=> \/ gateMode = "observe"
          \/ /\ HasMinimumTimingEvidence(input)
             /\ ShouldForwardLidarCloud(gateMode, input.health, input.blocker)
  BY DEF EvaluateLidarCloudGate, ShouldForwardLidarCloud
<1> QED  BY <1>1, <1>2, <1>3 DEF input, HasMinimumTimingEvidence, ShouldForwardLidarCloud,
                                 ForwardsWith, GateModes

\* The gate is stricter mode by mode (EvaluateLidarCloudGate): a hard blocker
\* is a reason, and a reason raises the status above OK.
THEOREM GateModesAreNested == Spec => []ModesAreNested
<1>1. ASSUME ObservationInv PROVE ModesAreNested
  <2>1. Reasons # {} => StatusOf(Reasons) # "OK"
    BY StatusIsMonotone
  <2> QED  BY <1>1, <2>1, ForwardsByReasons DEF ModesAreNested, ForwardsWith, GateModes
<1> QED  BY <1>1, ObservationInvHolds, PTL

\* A protective gate forwards nothing while the same snapshot forbids the map
\* update (EvaluateLidarCloudGate against DecideMapUpdate).
THEOREM ForwardingImpliesMapUpdate == Spec => []ForwardedIsMapUpdatable
<1>1. ASSUME ObservationInv PROVE ForwardedIsMapUpdatable
  <2>1. StatusOf(Reasons) \in {"OK", "WARNING", "DEGRADED", "INVALID"}
    BY StatusIsMonotone
  <2> QED
    BY <1>1, <2>1, ForwardsByReasons, SnapshotIsItsReasons
    DEF ForwardedIsMapUpdatable, ForwardsWith, GateModes, MapUpdateDecision, DecideMapUpdate
<1> QED  BY <1>1, ObservationInvHolds, PTL

\* Jitter and gaps of the streams decide nothing about a covered scan: neither
\* is a hard blocker or makes a status INVALID.  Only the warmup may still
\* withhold it.
THEOREM JitterAloneBlocksNothing == Spec => []JitterAndGapsAreDiagnosticOnly
<1>1. ASSUME ObservationInv PROVE JitterAndGapsAreDiagnosticOnly
  <2> SUFFICES ASSUME obs.coverage = "ok", obs.transforms = <<>>, obs.pointTime.used
               PROVE  /\ MapUpdateDecision(Snapshot).allowed
                      /\ Decision("drop_degraded") # "blocked_by_gate"
    BY DEF JitterAndGapsAreDiagnosticOnly
  <2>1. Reasons \subseteq TimingFaults
    BY <1>1, SnapshotIsItsReasons
  <2>2. Reasons \cap HardFusionBlockingReasons = {}
    BY <2>1 DEF TimingFaults, HardFusionBlockingReasons
  <2>3. StatusOf(Reasons) \in {"OK", "WARNING", "DEGRADED"}
    <3>1. \A reason \in Reasons : SeverityOf(reason) # "INVALID"
      BY <2>1 DEF TimingFaults, SeverityOf, Warnings
    <3> QED  BY <3>1 DEF StatusOf, Worst
  <2>4. MapUpdateDecision(Snapshot).allowed
    BY <1>1, <2>2, <2>3, SnapshotIsItsReasons DEF MapUpdateDecision, DecideMapUpdate
  <2>5. Decision("drop_degraded") # "blocked_by_gate"
    <3> DEFINE gate == EvaluateLidarCloudGate("drop_degraded",
                                              GateInput(Snapshot, totalImu, windowImu))
    <3>1. totalImu >= MinTotalImuSamples /\ windowImu >= MinWindowImuSamples
          => Forwards("drop_degraded")
      BY <1>1, <2>2, <2>3, ForwardsByReasons DEF ForwardsWith, GateModes
    <3>2. ~(totalImu >= MinTotalImuSamples /\ windowImu >= MinWindowImuSamples)
          => gate.reason = "insufficient_timing_evidence"
      BY DEF EvaluateLidarCloudGate, HasMinimumTimingEvidence, GateInput
    <3> QED
      BY <3>1, <3>2 DEF Forwards, Decision, ForwardingDecision
  <2> QED  BY <2>4, <2>5
<1> QED  BY <1>1, ObservationInvHolds, PTL

\* A step that only adds reasons, and takes evidence away if anything, never
\* turns a blocked cloud into a forwarded one, in any mode.
THEOREM MoreIssuesNeverForward == Spec => AddingIssuesNeverForwards
<1> DEFINE ByReasons == \A gateMode \in GateModes :
               Forwards(gateMode) <=> ForwardsWith(gateMode, Reasons, totalImu, windowImu)
           Monotone == Worsens => \A mode \in GateModes : Forwards(mode)' => Forwards(mode)
<1>1. ObservationInv => ByReasons
  BY ForwardsByReasons
<1>2. ASSUME ObservationInv, ByReasons, ObservationInv', ByReasons'
      PROVE  Monotone
  <2> SUFFICES ASSUME Worsens, NEW gateMode \in GateModes, Forwards(gateMode)'
               PROVE  Forwards(gateMode)
    OBVIOUS
  <2>1. ForwardsWith(gateMode, Reasons', totalImu', windowImu')
    BY <1>2 DEF ForwardsWith, StatusOf
  <2>2. /\ Reasons \subseteq Reasons' /\ totalImu' <= totalImu /\ windowImu' <= windowImu
    BY DEF Worsens
  <2>3. /\ totalImu' >= MinTotalImuSamples => totalImu >= MinTotalImuSamples
        /\ windowImu' >= MinWindowImuSamples => windowImu >= MinWindowImuSamples
    BY <1>2, <2>2, EvidenceAssumption DEF ObservationInv
  <2>4. /\ StatusOf(Reasons') # "INVALID" => StatusOf(Reasons) # "INVALID"
        /\ StatusOf(Reasons') = "OK" => StatusOf(Reasons) = "OK"
    BY <2>2, StatusIsMonotone
  <2>5. ForwardsWith(gateMode, Reasons, totalImu, windowImu)
    BY <2>1, <2>2, <2>3, <2>4 DEF ForwardsWith
  <2> QED  BY <1>2, <2>5
<1> HIDE DEF ByReasons, Monotone
<1>3. Spec => [][Monotone]_vars
  BY <1>1, <1>2, ObservationInvHolds, PTL DEF Spec
<1> QED  BY <1>3 DEF AddingIssuesNeverForwards, Monotone
=============================================================================
