-------------------------- MODULE LidarScanWindow --------------------------
(***************************************************************************)
(* domain/sensors/lidar: which interval of time a cloud was scanned in,    *)
(* when only header stamps are known.  Durations are whole ticks.          *)
(***************************************************************************)
EXTENDS Integers

CONSTANTS StampPolicy,             \* what the header stamp of a cloud denotes
          PreferMeasuredPeriod,    \* prefer_measured_header_period
          FallbackScanDuration,    \* fallback_scan_duration_ms, made positive
          MinMeasuredDuration, MaxMeasuredDuration,
          NoStamp                  \* the value of an empty optional

StampPolicies == {"scan_start", "scan_middle", "scan_end"}

ASSUME ScanWindowAssumption ==
    /\ StampPolicy \in StampPolicies
    /\ PreferMeasuredPeriod \in BOOLEAN
    /\ FallbackScanDuration \in Nat \ {0}
    /\ MinMeasuredDuration \in Nat
    /\ MaxMeasuredDuration \in Nat
    /\ NoStamp \notin Int

\* scan_middle rounds both halves down: an odd duration loses one tick.
BuildLidarScanWindow(stamp, duration) ==
    CASE StampPolicy = "scan_start"  -> [start |-> stamp, end |-> stamp + duration]
      [] StampPolicy = "scan_middle" -> [start |-> stamp - (duration \div 2),
                                         end   |-> stamp + (duration \div 2)]
      [] StampPolicy = "scan_end"    -> [start |-> stamp - duration, end |-> stamp]

\* Slip: a repeated header stamp passes for a period.
UsablePeriod_AcceptsZero(previous, stamp) ==
    /\ PreferMeasuredPeriod
    /\ previous # NoStamp
    /\ stamp - previous >= 0
    /\ stamp - previous >= MinMeasuredDuration
    /\ stamp - previous <= MaxMeasuredDuration

\* A measured header period that may stand for the duration of a scan.
UsablePeriod(previous, stamp) ==
    /\ PreferMeasuredPeriod
    /\ previous # NoStamp
    /\ stamp - previous > 0
    /\ stamp - previous >= MinMeasuredDuration
    /\ stamp - previous <= MaxMeasuredDuration

\* Estimate(header) given the header of the call before; every call makes its
\* own header the previous one.
Estimate(previous, stamp) ==
    IF UsablePeriod(previous, stamp)
    THEN [window     |-> BuildLidarScanWindow(stamp, stamp - previous),
          source     |-> "measured_header_period",
          confidence |-> "MEDIUM"]
    ELSE [window     |-> BuildLidarScanWindow(stamp, FallbackScanDuration),
          source     |-> "assumed_fixed_duration",
          confidence |-> "LOW"]
=============================================================================
