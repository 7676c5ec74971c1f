------------------------ MODULE StreamTimingTracker ------------------------
(***************************************************************************)
(* domain/telemetry/stream_timing_tracker.cc: one instance per stream,     *)
(* kept as a record.  Times are whole ticks.  The delay statistics and the *)
(* last_* fields are reporting only and left out; no verdict reads them.   *)
(***************************************************************************)
EXTENDS Integers

CONSTANTS GapThreshold,       \* a longer period between two messages is a gap
          SuspiciousJitter,   \* the 2 ms of EvaluateHealth
          HighJitter,         \* the 10 ms of EvaluateHealth
          NoStamp             \* the value of an empty optional

ASSUME TrackerAssumption ==
    /\ GapThreshold \in Nat \ {0}
    /\ SuspiciousJitter \in Nat /\ HighJitter \in Nat
    /\ SuspiciousJitter <= HighJitter
    /\ NoStamp \notin Int

Trackers ==
    [previousStamp : Int \cup {NoStamp}, previousPeriod : Nat \cup {NoStamp},
     count : Nat, reordered : Nat, gaps : Nat,
     windowCount : Nat, windowReordered : Nat, windowGaps : Nat,
     windowMaxJitter : Nat]

NewTracker ==
    [previousStamp |-> NoStamp, previousPeriod |-> NoStamp,
     count |-> 0, reordered |-> 0, gaps |-> 0,
     windowCount |-> 0, windowReordered |-> 0, windowGaps |-> 0,
     windowMaxJitter |-> 0]

Abs(n) == IF n < 0 THEN -n ELSE n
Larger(a, b) == IF a > b THEN a ELSE b

\* The message is older than the last one: counted, and no jitter baseline.
OnReordered(t) ==
    [t EXCEPT !.reordered = @ + 1, !.windowReordered = @ + 1, !.previousPeriod = NoStamp]

\* Slip: the period before a gap stays the jitter baseline after it.
OnGap_KeepsPeriod(t) == [t EXCEPT !.gaps = @ + 1, !.windowGaps = @ + 1]

OnGap(t) ==
    [t EXCEPT !.gaps = @ + 1, !.windowGaps = @ + 1, !.previousPeriod = NoStamp]

\* A regular period: it becomes the baseline the next one is compared with.
OnPeriod(t, period) ==
    [t EXCEPT !.previousPeriod = period,
              !.windowMaxJitter = IF t.previousPeriod = NoStamp THEN @
                                  ELSE Larger(@, Abs(period - t.previousPeriod))]

IsReordered(period) == period < 0

Observe(t, stamp) ==
    LET period == stamp - t.previousStamp
        judged == IF t.previousStamp = NoStamp THEN t
                  ELSE IF IsReordered(period) THEN OnReordered(t)
                  ELSE IF period > GapThreshold THEN OnGap(t)
                  ELSE OnPeriod(t, period)
    IN  [judged EXCEPT !.previousStamp = stamp, !.count = @ + 1, !.windowCount = @ + 1]

\* EvaluateHealth: the first test that applies names the window.
EvaluateHealth(t) ==
    IF t.windowReordered > 0
    THEN [health |-> "DEGRADED", reason |-> "message_reordering_detected"]
    ELSE IF t.windowGaps > 0
    THEN [health |-> "DEGRADED", reason |-> "stream_gap"]
    ELSE IF t.windowMaxJitter > HighJitter
    THEN [health |-> "DEGRADED", reason |-> "jitter_high"]
    ELSE IF t.windowMaxJitter > SuspiciousJitter
    THEN [health |-> "WARNING", reason |-> "jitter_suspicious"]
    ELSE [health |-> "OK", reason |-> "ok"]

\* ResetWindow keeps the last stamp and period: the first message of the next
\* window is still compared with the last one of this window.
ResetWindow(t) ==
    [t EXCEPT !.windowCount = 0, !.windowReordered = 0, !.windowGaps = 0,
              !.windowMaxJitter = 0]
=============================================================================
