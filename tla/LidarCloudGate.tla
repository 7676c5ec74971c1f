--------------------------- MODULE LidarCloudGate ---------------------------
(***************************************************************************)
(* The fusion policy: the gate that decides whether a LiDAR cloud goes to  *)
(* the checked topic (domain/policy/lidar_cloud_gate.cc) and the decision  *)
(* whether a downstream mapper may update its map                          *)
(* (domain/policy/map_update_decision.h).  Both are pure.                  *)
(***************************************************************************)
EXTENDS TemporalHealth, Naturals

CONSTANTS MinTotalImuSamples,   \* min_total_imu_samples_before_forward
          MinWindowImuSamples   \* min_window_imu_samples_before_forward

ASSUME EvidenceAssumption ==
    /\ MinTotalImuSamples \in Nat
    /\ MinWindowImuSamples \in Nat

GateModes == {"observe", "drop_invalid", "drop_degraded", "strict"}

\* Any other text selects the mode that never blocks.
ParseLidarGateMode(value) == IF value \in GateModes THEN value ELSE "observe"

\* Slip: timing faults of a stream count as hard blockers.
HardFusionBlockingReasons_TakesTiming ==
    {"imu_window_incomplete", "lidar_point_time_unsupported",
     "lidar_point_time_extraction_failed", "imu_stream_timing_reordered",
     "lidar_stream_timing_reordered"}

\* The reasons the policy regards as making a scan unfit for fusion.
HardFusionBlockingReasons ==
    {"no_imu_sample_received_yet", "imu_window_incomplete", "imu_window_empty",
     "imu_window_missing_prefix", "imu_window_missing_suffix",
     "imu_window_internal_gap", "invalid_scan_window", "timestamp_invalid",
     "message_reordering_detected", "lidar_point_time_unsupported",
     "lidar_point_time_extraction_failed", "imu_stream_stale",
     "lidar_stream_stale"}

\* The name of a status inside a gate or a map-update reason.
HealthReason(health) ==
    [OK |-> "temporal_health_ok", WARNING |-> "temporal_health_warning",
     DEGRADED |-> "temporal_health_degraded",
     INVALID |-> "temporal_health_invalid"][health]

HasMinimumTimingEvidence(input) ==
    /\ input.totalImu >= MinTotalImuSamples
    /\ input.windowImu >= MinWindowImuSamples

\* Slip: strict lets warnings through.
ShouldForward_StrictTakesWarnings(mode, health, blocker) ==
    \/ mode = "observe"
    \/ mode = "drop_invalid" /\ health # "INVALID"
    \/ mode = "drop_degraded" /\ health # "INVALID" /\ ~blocker
    \/ mode = "strict" /\ health \in {"OK", "WARNING"}

\* Slip: drop_degraded forgets the hard blockers.
ShouldForward_NoBlockerTest(mode, health, blocker) ==
    \/ mode = "observe"
    \/ mode \in {"drop_invalid", "drop_degraded"} /\ health # "INVALID"
    \/ mode = "strict" /\ health = "OK"

\* Slip: drop_degraded drops whatever is DEGRADED.
ShouldForward_DropsAllDegraded(mode, health, blocker) ==
    \/ mode = "observe"
    \/ mode = "drop_invalid" /\ health # "INVALID"
    \/ mode = "drop_degraded" /\ health \in {"OK", "WARNING"} /\ ~blocker
    \/ mode = "strict" /\ health = "OK"

ShouldForwardLidarCloud(mode, health, blocker) ==
    \/ mode = "observe"
    \/ mode = "drop_invalid" /\ health # "INVALID"
    \/ mode = "drop_degraded" /\ health # "INVALID" /\ ~blocker
    \/ mode = "strict" /\ health = "OK"

EvaluateLidarCloudGate(mode, input) ==
    IF mode = "observe"
    THEN [forward |-> TRUE, reason |-> "observe_mode"]
    ELSE IF ~HasMinimumTimingEvidence(input)
    THEN [forward |-> FALSE, reason |-> "insufficient_timing_evidence"]
    ELSE [forward |-> ShouldForwardLidarCloud(mode, input.health, input.blocker),
          reason  |-> HealthReason(input.health)]

DecideMapUpdate(status, blocker) ==
    [allowed |-> \/ status \in {"OK", "WARNING"}
                 \/ status = "DEGRADED" /\ ~blocker,
     reason  |-> HealthReason(status)]
=============================================================================
