---------------------------- MODULE ScanEvidence ----------------------------
(***************************************************************************)
(* What an "ok" about a cloud rests on: the recent IMU samples             *)
(* (ImuSampleBuffer), the estimated scan window (LidarScanWindow) and the  *)
(* coverage verdict (ImuCoverage), facing a spinning sensor.  Scan k takes *)
(* place from k * Period to (k + 1) * Period and is stamped as StampPolicy *)
(* says; on the way clouds are lost, repeated and reordered, and IMU       *)
(* samples come in any order between them.                                 *)
(***************************************************************************)
EXTENDS ImuSampleBuffer, LidarScanWindow, ImuCoverage

CONSTANTS Period,      \* how long one scan takes
          NumScans,    \* bound on the scans the sensor makes
          Stamps,      \* header stamps the IMU samples may carry
          MaxSamples   \* bound on the samples received

ASSUME SensorAssumption ==
    /\ Period \in Nat \ {0}
    /\ StampPolicy = "scan_middle" => Period % 2 = 0
    /\ FallbackScanDuration >= Period
    /\ NumScans \in Nat
    /\ Stamps \subseteq Int
    /\ MaxSamples \in Nat

VARIABLES buffer,     \* the IMU samples kept
          accepted,   \* history: every sample the buffer took, in order
          previous,   \* previous_header_stamp_ns_ of the estimator
          judged      \* the last cloud and what was said of it, if any

sensorVars == <<buffer, accepted, previous, judged>>

TrueScan(k) == [start |-> k * Period, end |-> (k + 1) * Period]

HeaderOf(k) ==
    CASE StampPolicy = "scan_start"  -> k * Period
      [] StampPolicy = "scan_middle" -> k * Period + Period \div 2
      [] StampPolicy = "scan_end"    -> (k + 1) * Period

Verdict(window, samples) == Analyze(window, {samples[i] : i \in 1 .. Len(samples)})

SensorInit ==
    /\ buffer = NewBuffer
    /\ accepted = <<>>
    /\ previous = NoStamp
    /\ judged = <<>>

AddSample(stamp) ==
    /\ Len(accepted) + buffer.dropped < MaxSamples
    /\ buffer' = Add(buffer, stamp)
    /\ accepted' = IF buffer'.dropped = buffer.dropped
                   THEN Append(accepted, stamp) ELSE accepted
    /\ UNCHANGED <<previous, judged>>

ReceiveCloud(k) ==
    LET estimate == Estimate(previous, HeaderOf(k))
    IN  /\ previous' = HeaderOf(k)
        /\ judged' = <<[scan     |-> k,
                        before   |-> {j.scan : j \in {judged[i] : i \in DOMAIN judged}},
                        estimate |-> estimate,
                        verdict  |-> Verdict(estimate.window, buffer.samples)]>>
        /\ UNCHANGED <<buffer, accepted>>

SensorNext ==
    \/ \E stamp \in Stamps : AddSample(stamp)
    \/ \E k \in 0 .. NumScans - 1 : ReceiveCloud(k)

SensorSpec == SensorInit /\ [][SensorNext]_sensorVars
-----------------------------------------------------------------------------
Judged == {judged[i] : i \in DOMAIN judged}

Newest == accepted[Len(accepted)]

\* The buffer is exactly the accepted samples no older than Retention before
\* the newest one: whatever the order of arrival, pruning at the front leaves
\* no stale sample behind it and drops none that is still wanted, and an
\* accepted sample is always there to be found by the next scan.
BufferIsRecentAccepted ==
    /\ accepted = <<>> <=> buffer.samples = <<>>
    /\ \E n \in 0 .. Len(accepted) :
          /\ buffer.samples = SubSeq(accepted, n + 1, Len(accepted))
          /\ \A i \in 1 .. n : accepted[i] < Newest - Retention
          /\ \A i \in n + 1 .. Len(accepted) : accepted[i] >= Newest - Retention

\* Whatever clouds were lost, repeated or reordered on the way, the window
\* of a cloud contains the scan it was taken in: the coverage analyzer never
\* judges too little of it.
WindowCoversScan ==
    \A j \in Judged :
        /\ j.estimate.window.start <= TrueScan(j.scan).start
        /\ j.estimate.window.end >= TrueScan(j.scan).end

\* Two accepted samples allow the motion at instant t to be interpolated.
Interpolable(t) ==
    \E a, b \in {accepted[i] : i \in 1 .. Len(accepted)} :
        a <= t /\ t <= b /\ b - a <= MaxInternalGap

\* A cloud judged "ok" can be deskewed: every instant of the scan it was
\* really taken in, between the two tolerated margins, lies between two IMU
\* samples no further apart than the allowed gap.  No step of the chain
\* (dropped samples, pruning, a window guessed from headers) may break it.
OkScanIsInterpolable ==
    \A j \in Judged :
        j.verdict = "ok" =>
            \A t \in TrueScan(j.scan).start + MaxMissingPrefix
                     .. TrueScan(j.scan).end - MaxMissingSuffix :
                Interpolable(t)

\* Later samples never take a verdict of "ok" away while the scan is within
\* the retention, provided the margin at the end is not wider than the allowed
\* gap (the defaults are 2 and 5 IMU periods; the parameters are not checked
\* against each other): judging a cloud late, as the holdback does, never makes
\* its evidence worse.
CoveredScanStaysCovered ==
    [][\A j \in Judged :
          /\ MaxMissingSuffix <= MaxInternalGap
          /\ Verdict(j.estimate.window, buffer.samples) = "ok"
          /\ accepted' # accepted => j.estimate.window.start >= Newest' - Retention
          => Verdict(j.estimate.window, buffer'.samples) = "ok"]_sensorVars
=============================================================================
