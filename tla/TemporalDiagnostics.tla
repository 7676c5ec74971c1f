------------------------ MODULE TemporalDiagnostics ------------------------
(***************************************************************************)
(* TemporalDiagnosticsBuilder::Build                                       *)
(* (domain/diagnostics/temporal_diagnostics.cc): from one observation of   *)
(* the pipeline to the ordered list of issues and the overall status.      *)
(*                                                                         *)
(* An observation is a record                                              *)
(*   imuTiming, lidarTiming  [health, reason] of the two trackers' windows *)
(*   coverage                NoCoverage, or the coverage analyzer's reason *)
(*   pointTime               NoPointTime, or the point-time diagnostics    *)
(*   confidence              NoWindow, "LOW", "MEDIUM" or "HIGH"           *)
(*   transforms              the statuses of the TF checks, in their order *)
(***************************************************************************)
EXTENDS TemporalHealth, Selections, Sequences

NoCoverage  == "no_coverage"
NoWindow    == "no_window"
NoPointTime == [candidate |-> FALSE, supported |-> FALSE,
                attempted |-> FALSE, used |-> FALSE]

\* summary.reason and the fault reason each stream turns it into.
ImuTimingFaultReason ==
    [jitter_high                 |-> "imu_stream_timing_jitter_high",
     jitter_suspicious           |-> "imu_stream_timing_jitter_suspicious",
     stream_gap                  |-> "imu_stream_timing_gap",
     message_reordering_detected |-> "imu_stream_timing_reordered"]

LidarTimingFaultReason ==
    [jitter_high                 |-> "lidar_stream_timing_jitter_high",
     jitter_suspicious           |-> "lidar_stream_timing_jitter_suspicious",
     stream_gap                  |-> "lidar_stream_timing_gap",
     message_reordering_detected |-> "lidar_stream_timing_reordered"]

TransformFaultReason ==
    [LOOKUP_FAILED          |-> "tf_lookup_failed",
     EXTRAPOLATION_REQUIRED |-> "tf_extrapolation_required",
     AGE_TOO_HIGH           |-> "tf_age_too_high",
     FROM_FUTURE            |-> "tf_transform_from_future"]

\* The health TransformAgeAnalyzer gives each status.
TransformHealth(status) == IF status = "LOOKUP_FAILED" THEN "INVALID" ELSE "DEGRADED"

IssueIf(condition, severity, reason) ==
    IF condition THEN <<[severity |-> severity, reason |-> reason]>> ELSE <<>>

TimingIssues(summary, faultReason) ==
    IF summary.health = "OK" THEN <<>>
    ELSE <<[severity |-> summary.health, reason |-> faultReason[summary.reason]]>>

CoverageIssues(coverage) ==
    IssueIf(coverage = NoCoverage, "INVALID", "no_lidar_scan_received_yet")
    \o IssueIf(coverage \notin {NoCoverage, "ok"}, "DEGRADED", "imu_window_incomplete")

PointTimeIssues(pt) ==
    IssueIf(pt.candidate /\ ~pt.supported, "WARNING", "lidar_point_time_unsupported")
    \o IssueIf(pt.attempted /\ ~pt.used, "WARNING", "lidar_point_time_extraction_failed")

WindowIssues(confidence) ==
    IssueIf(confidence = "LOW", "WARNING", "lidar_scan_window_low_confidence")

TransformIssue(status) ==
    [severity |-> TransformHealth(status), reason |-> TransformFaultReason[status]]

\* One issue for each check that fails, in the order of the checks.
TransformIssues(transforms) ==
    LET failing == {i \in DOMAIN transforms : transforms[i] # "OK"}
        issues  == [i \in failing |-> TransformIssue(transforms[i])]
    IN  Selected(issues, failing)

\* The issues of a snapshot in the order Build appends them.
Issues(obs) ==
    TimingIssues(obs.imuTiming, ImuTimingFaultReason)
    \o TimingIssues(obs.lidarTiming, LidarTimingFaultReason)
    \o CoverageIssues(obs.coverage)
    \o PointTimeIssues(obs.pointTime)
    \o WindowIssues(obs.confidence)
    \o TransformIssues(obs.transforms)

Build(obs) ==
    LET issues == Issues(obs)
    IN  [issues |-> issues,
         status |-> Worst({issues[i].severity : i \in DOMAIN issues})]
=============================================================================
