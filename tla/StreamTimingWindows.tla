------------------------ MODULE StreamTimingWindows ------------------------
(***************************************************************************)
(* The life of one StreamTimingTracker: messages are observed one by one   *)
(* and the node's timer consumes the summary window now and then.  The log *)
(* of all observed stamps is a history variable, and the properties say    *)
(* what the counters of the record mean in terms of it.                    *)
(***************************************************************************)
EXTENDS StreamTimingTracker, Sequences

CONSTANTS Stamps,       \* the header stamps messages may carry, in any order
          MaxMessages   \* bound on the length of the log

ASSUME WindowsAssumption ==
    /\ Stamps \subseteq Int
    /\ MaxMessages \in Nat

VARIABLES tracker,    \* the record
          log,        \* history: every observed header stamp
          mark,       \* history: length of the log when the window was consumed
          consumed    \* history: what the consumed windows reported in total

vars == <<tracker, log, mark, consumed>>

Init ==
    /\ tracker = NewTracker
    /\ log = <<>>
    /\ mark = 0
    /\ consumed = [reordered |-> 0, gaps |-> 0]

ObserveMessage(stamp) ==
    /\ Len(log) < MaxMessages
    /\ tracker' = Observe(tracker, stamp)
    /\ log' = Append(log, stamp)
    /\ UNCHANGED <<mark, consumed>>

\* Slip: the summary is taken after the reset.
ConsumeWindowSummary_AfterReset ==
    /\ tracker' = ResetWindow(tracker)
    /\ mark' = Len(log)
    /\ consumed' = [reordered |-> consumed.reordered + tracker'.windowReordered,
                    gaps      |-> consumed.gaps + tracker'.windowGaps]
    /\ UNCHANGED log

ConsumeWindowSummary ==
    /\ tracker' = ResetWindow(tracker)
    /\ mark' = Len(log)
    /\ consumed' = [reordered |-> consumed.reordered + tracker.windowReordered,
                    gaps      |-> consumed.gaps + tracker.windowGaps]
    /\ UNCHANGED log

Next == (\E stamp \in Stamps : ObserveMessage(stamp)) \/ ConsumeWindowSummary

Spec == Init /\ [][Next]_vars
-----------------------------------------------------------------------------
TypeOK ==
    /\ tracker \in Trackers
    /\ log \in Seq(Stamps)
    /\ mark \in 0 .. Len(log)
    /\ consumed \in [reordered : Nat, gaps : Nat]

\* The messages of the current window.
Window == mark + 1 .. Len(log)

Period(i) == log[i] - log[i - 1]
IsRegular(i) == i > 1 /\ Period(i) >= 0 /\ Period(i) <= GapThreshold
HasJitter(i) == i > 2 /\ IsRegular(i) /\ IsRegular(i - 1)
Jitter(i) == Abs(Period(i) - Period(i - 1))

ReorderedInWindow == \E i \in Window : i > 1 /\ Period(i) < 0
GapInWindow == \E i \in Window : i > 1 /\ Period(i) > GapThreshold
JitterInWindow(bound) == \E i \in Window : HasJitter(i) /\ Jitter(i) > bound

\* The verdict of the window is the worst thing that happened to its messages,
\* judged against the whole history: a message is compared with the one before
\* it even when that one belongs to an already consumed window, jitter is only
\* measured between two adjacent regular periods, and a fault is reported in
\* the window of the later message and in no other.
VerdictMatchesHistory ==
    EvaluateHealth(tracker).reason =
        IF ReorderedInWindow THEN "message_reordering_detected"
        ELSE IF GapInWindow THEN "stream_gap"
        ELSE IF JitterInWindow(HighJitter) THEN "jitter_high"
        ELSE IF JitterInWindow(SuspiciousJitter) THEN "jitter_suspicious"
        ELSE "ok"

\* Consuming windows neither loses nor repeats a fault: the lifetime totals
\* are what the consumed windows reported plus what the open one holds.
LifetimeIsSumOfWindows ==
    /\ tracker.reordered = consumed.reordered + tracker.windowReordered
    /\ tracker.gaps = consumed.gaps + tracker.windowGaps
    /\ tracker.count = mark + tracker.windowCount
=============================================================================
