---------------------------- MODULE TransformAge ----------------------------
(***************************************************************************)
(* One TF check of a cloud: what the lookup at the cloud's stamp returned  *)
(* (ros_adapters/transform_lookup_adapter.cc) and what the analyzer makes  *)
(* of it (domain/transform/transform_age_analyzer.cc).                     *)
(*                                                                         *)
(* The answer of the TF buffer is "extrapolation" or "failure" for the     *)
(* exceptions it throws (an empty frame name counts as one), or the stamp  *)
(* of the transform it found.                                              *)
(***************************************************************************)
EXTENDS Integers

CONSTANTS MaxTransformAge,      \* max_transform_age_ms, clamped at zero
          MaxFutureTolerance    \* max_future_tolerance_ms, clamped at zero

\* LookupTransform
LookupTransform(answer) ==
    [success       |-> answer.kind = "found",
     extrapolation |-> answer.kind = "extrapolation",
     stamp         |-> IF answer.kind = "found" THEN answer.stamp ELSE 0]

\* Analyze: the status of an observation made at the requested stamp.
AnalyzeTransform(requested, observation) ==
    LET age == requested - observation.stamp
    IN  IF ~observation.success THEN "LOOKUP_FAILED"
        ELSE IF observation.extrapolation THEN "EXTRAPOLATION_REQUIRED"
        ELSE IF age < -MaxFutureTolerance THEN "FROM_FUTURE"
        ELSE IF age > MaxTransformAge \/ -age > MaxTransformAge THEN "AGE_TOO_HIGH"
        ELSE "OK"

\* The statuses of the checks of one cloud, in their order.
StatusesOf(requested, answers) ==
    [i \in DOMAIN answers |-> AnalyzeTransform(requested, LookupTransform(answers[i]))]

\* What a check of a cloud can report.  The adapter flags an extrapolation as
\* a failed lookup, which the analyzer tests first, so the status of its own
\* that an extrapolation would get is not among them.
ReportedStatuses == {"OK", "LOOKUP_FAILED", "FROM_FUTURE", "AGE_TOO_HIGH"}
=============================================================================
