-------------------------- MODULE MCFusionDecision --------------------------
(* TLC instance of FusionDecision: every kind of verdict once. *)
EXTENDS FusionDecision

MCTimingReasons == {"ok", "jitter_suspicious", "stream_gap", "message_reordering_detected"}
MCCoverageReasons == {"ok", "imu_window_missing_suffix"}
MCTransformResults == {<<>>, <<"OK", "LOOKUP_FAILED">>}
=============================================================================
