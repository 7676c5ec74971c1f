--------------------------- MODULE TemporalHealth ---------------------------
(***************************************************************************)
(* The four-valued health every verdict of the monitor is expressed in     *)
(* (domain/telemetry/temporal_health.h) and the fold of MaxStatus over the *)
(* statuses of a snapshot (domain/diagnostics/temporal_diagnostics.cc).    *)
(***************************************************************************)
Statuses == {"OK", "WARNING", "DEGRADED", "INVALID"}

\* Slip: DEGRADED is tested before INVALID.
Worst_DegradedFirst(S) ==
    IF "DEGRADED" \in S THEN "DEGRADED"
    ELSE IF "INVALID" \in S THEN "INVALID"
    ELSE IF "WARNING" \in S THEN "WARNING"
    ELSE "OK"

\* MaxStatus folded over a set of statuses, starting from OK.
Worst(S) ==
    IF "INVALID" \in S THEN "INVALID"
    ELSE IF "DEGRADED" \in S THEN "DEGRADED"
    ELSE IF "WARNING" \in S THEN "WARNING"
    ELSE "OK"

MaxStatus(lhs, rhs) == Worst({lhs, rhs})

\* a is at least as bad as b.
AtLeastAsBad(a, b) == MaxStatus(a, b) = a
=============================================================================
