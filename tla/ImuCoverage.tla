---------------------------- MODULE ImuCoverage ----------------------------
(***************************************************************************)
(* domain/sensors/imu/imu_coverage_analyzer.cc: do the IMU samples cover a *)
(* LiDAR scan window?  A window is a record [start, end]; times are whole  *)
(* ticks.  The measured amounts are reporting only; the verdict is not.    *)
(***************************************************************************)
EXTENDS Integers

CONSTANTS MaxMissingPrefix, MaxMissingSuffix, MaxInternalGap

ASSUME CoverageAssumption ==
    /\ MaxMissingPrefix \in Nat
    /\ MaxMissingSuffix \in Nat
    /\ MaxInternalGap \in Nat

Contains(window, stamp) == window.start <= stamp /\ stamp <= window.end

\* The stamps the analyzer sorts and judges.
StampsInside(window, stamps) == {t \in stamps : Contains(window, t)}

\* Slip: the gap search runs over neighbours that have a sample between them.
HasInternalGap_AnyPair(inside) ==
    \E a, b \in inside : b - a > MaxInternalGap

\* Two samples with none between them are further apart than allowed.
HasInternalGap(inside) ==
    \E a, b \in inside :
        /\ b - a > MaxInternalGap
        /\ ~ \E t \in inside : a < t /\ t < b

\* Slip: the last sample is held against the start of the window.
MissingSuffix_FromStart(window, inside) ==
    \A t \in inside : t - window.start > MaxMissingSuffix

\* The first (last) sample is too far from the start (end) of the window
\* exactly when every sample is.
MissingPrefix(window, inside) == \A t \in inside : t - window.start > MaxMissingPrefix
MissingSuffix(window, inside) == \A t \in inside : window.end - t > MaxMissingSuffix

\* Analyze: the first test that fails names the verdict.
Analyze(window, stamps) ==
    LET inside == StampsInside(window, stamps)
    IN  IF window.end <= window.start THEN "invalid_scan_window"
        ELSE IF inside = {} THEN "imu_window_empty"
        ELSE IF MissingPrefix(window, inside) THEN "imu_window_missing_prefix"
        ELSE IF MissingSuffix(window, inside) THEN "imu_window_missing_suffix"
        ELSE IF HasInternalGap(inside) THEN "imu_window_internal_gap"
        ELSE "ok"
=============================================================================
