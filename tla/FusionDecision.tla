--------------------------- MODULE FusionDecision ---------------------------
(***************************************************************************)
(* What the node concludes from one diagnostic snapshot: whether the map   *)
(* may be updated, whether the cloud is forwarded, and the reason it       *)
(* records.  The state is the observation the next snapshot is built from; *)
(* each step is one of the events that renew a part of it.  How the real   *)
(* trackers and analyzers produce those parts is the business of           *)
(* TemporalMonitorPipeline; here they take every value they can produce.   *)
(***************************************************************************)
EXTENDS TemporalDiagnostics, LidarCloudGate

CONSTANTS TimingReasons,     \* the verdicts of a tracker window that occur
          CoverageReasons,   \* the verdicts of the coverage analyzer that occur
          TransformResults   \* the results of the TF checks of one cloud

ASSUME ObservationAssumption ==
    /\ TimingReasons \subseteq {"ok"} \cup DOMAIN ImuTimingFaultReason
    /\ \A transforms \in TransformResults :
          /\ IsFiniteSet(DOMAIN transforms) /\ DOMAIN transforms \subseteq Int
          /\ \A i \in DOMAIN transforms :
                transforms[i] \in {"OK"} \cup DOMAIN TransformFaultReason

VARIABLES obs,        \* the observation a snapshot would be built from
          totalImu,   \* IMU samples observed, counted up to the gate's minimum
          windowImu   \* ... since the last timer, counted likewise

vars == <<obs, totalImu, windowImu>>

\* Which severity a window verdict has (EvaluateHealth of the tracker).
TimingSummary(reason) ==
    [reason |-> reason,
     health |-> CASE reason = "ok" -> "OK"
                  [] reason = "jitter_suspicious" -> "WARNING"
                  [] OTHER -> "DEGRADED"]

\* The point-time diagnostics a cloud can leave behind, with the confidence
\* of the scan window that goes with each: no time field, a rejected one, a
\* supported one read successfully or not.  A precomputed window is HIGH
\* whatever an earlier inspection or extraction reported.
PointTimeOutcomes ==
    [pt : {NoPointTime, [NoPointTime EXCEPT !.candidate = TRUE],
           [candidate |-> TRUE, supported |-> TRUE, attempted |-> TRUE, used |-> FALSE]},
     confidence : {"LOW", "MEDIUM", "HIGH"}]
    \cup [pt : {[candidate |-> TRUE, supported |-> TRUE,
                 attempted |-> a, used |-> a] : a \in BOOLEAN},
          confidence : {"HIGH"}]

HasHardFusionBlockingIssue(snapshot) ==
    \E i \in DOMAIN snapshot.issues :
        snapshot.issues[i].reason \in HardFusionBlockingReasons

GateInput(snapshot, total, window) ==
    [health |-> snapshot.status, blocker |-> HasHardFusionBlockingIssue(snapshot),
     totalImu |-> total, windowImu |-> window]

MapUpdateDecision(snapshot) ==
    DecideMapUpdate(snapshot.status, HasHardFusionBlockingIssue(snapshot))

\* MaybePublishCheckedLidar, with or without a checked topic.
ForwardingDecision(mode, hasCheckedTopic, snapshot, total, window) ==
    LET gate == EvaluateLidarCloudGate(mode, GateInput(snapshot, total, window))
    IN  IF ~hasCheckedTopic THEN "blocked_by_gate"
        ELSE IF gate.forward THEN "forwarded"
        ELSE IF gate.reason = "insufficient_timing_evidence" THEN "blocked_warmup"
        ELSE "blocked_by_gate"

PrimaryBlockReason(decision, snapshot) ==
    IF decision = "forwarded" THEN "forwarded"
    ELSE IF decision = "blocked_warmup" THEN "insufficient_imu_timing_evidence"
    ELSE IF snapshot.issues # <<>> THEN snapshot.issues[1].reason
    ELSE MapUpdateDecision(snapshot).reason
-----------------------------------------------------------------------------
Init ==
    /\ obs = [imuTiming |-> TimingSummary("ok"), lidarTiming |-> TimingSummary("ok"),
              coverage |-> NoCoverage, pointTime |-> NoPointTime,
              confidence |-> NoWindow, transforms |-> <<>>]
    /\ totalImu = 0
    /\ windowImu = 0

CountUpTo(n, bound) == IF n < bound THEN n + 1 ELSE n

TimingSummaries == {TimingSummary(reason) : reason \in TimingReasons}

\* An IMU message: its window verdict may change and the evidence grows.
ObserveImu ==
    /\ \E summary \in TimingSummaries : obs' = [obs EXCEPT !.imuTiming = summary]
    /\ totalImu' = CountUpTo(totalImu, MinTotalImuSamples)
    /\ windowImu' = CountUpTo(windowImu, MinWindowImuSamples)

\* A processed cloud renews everything that is measured per scan.
ObserveLidar ==
    /\ obs' \in [imuTiming   : {obs.imuTiming},
                lidarTiming : TimingSummaries,
                coverage    : CoverageReasons,
                pointTime   : {out.pt : out \in PointTimeOutcomes},
                confidence  : {"LOW", "MEDIUM", "HIGH"},
                transforms  : TransformResults]
    /\ [pt |-> obs'.pointTime, confidence |-> obs'.confidence] \in PointTimeOutcomes
    /\ UNCHANGED <<totalImu, windowImu>>

\* The timer consumes both windows.
ConsumeWindows ==
    /\ obs' = [obs EXCEPT !.imuTiming = TimingSummary("ok"),
                          !.lidarTiming = TimingSummary("ok")]
    /\ windowImu' = 0
    /\ UNCHANGED totalImu

Next == ObserveImu \/ ObserveLidar \/ ConsumeWindows

Spec == Init /\ [][Next]_vars
-----------------------------------------------------------------------------
Snapshot == Build(obs)
Reasons == {Snapshot.issues[i].reason : i \in DOMAIN Snapshot.issues}
Decision(mode) == ForwardingDecision(mode, TRUE, Snapshot, totalImu, windowImu)
Forwards(mode) == Decision(mode) = "forwarded"

\* The gate modes form a ladder: what a stricter mode lets through, every
\* laxer mode lets through too.  It rests on every hard blocker raising the
\* status above OK, which the policy itself does not enforce.
ModesAreNested ==
    /\ Forwards("strict") => Forwards("drop_degraded")
    /\ Forwards("drop_degraded") => Forwards("drop_invalid")
    /\ Forwards("drop_invalid") => Forwards("observe")

\* The two modes meant to protect a mapper never forward a cloud while the
\* same snapshot publishes map_update_allowed = false.
ForwardedIsMapUpdatable ==
    \A mode \in {"drop_degraded", "strict"} :
        Forwards(mode) => MapUpdateDecision(Snapshot).allowed

\* "Stream-level jitter is diagnostic-only for downstream LIO"
\* (ShouldForwardLidarCloud): when the scan is covered and its window was read
\* from the points, jitter and gaps of the streams, DEGRADED ones included,
\* neither forbid the map update nor make drop_degraded block the cloud, except
\* for the warmup.  Reordered messages are another matter: ReorderingBlocksFusion.
JitterAndGapsAreDiagnosticOnly ==
    (/\ obs.coverage = "ok"
     /\ obs.transforms = <<>>
     /\ obs.pointTime.used
     /\ "message_reordering_detected" \notin {obs.imuTiming.reason, obs.lidarTiming.reason})
    => /\ MapUpdateDecision(Snapshot).allowed
       /\ Decision("drop_degraded") # "blocked_by_gate"

\* The next snapshot has every issue of this one, and no more evidence.
Worsens ==
    /\ totalImu' <= totalImu
    /\ windowImu' <= windowImu
    /\ Reasons \subseteq Reasons'

\* A step that only adds issues, and takes evidence away if anything, never
\* turns a blocked cloud into a forwarded one.
AddingIssuesNeverForwards ==
    [][Worsens => \A mode \in GateModes : Forwards(mode)' => Forwards(mode)]_vars

\* config/temporal_gate.yaml, the table of gate modes: "drop_degraded - block
\* DEGRADED and INVALID clouds".
DropDegradedBlocksDegraded ==
    Snapshot.status = "DEGRADED" => ~Forwards("drop_degraded")

\* README, Gate modes: drop_degraded blocks "INVALID states and DEGRADED
\* states with a hard fusion blocker" - and nothing else once warm.
DropDegradedBlocksOnlyDegradedOrInvalid ==
    Decision("drop_degraded") = "blocked_by_gate"
    => Snapshot.status \in {"DEGRADED", "INVALID"}

\* The policy and its test list "message_reordering_detected", the verdict of a
\* tracker window that saw a reordered message, as a hard fusion blocker.  The
\* diagnostics give such a window another name, which the policy does not know.
ReorderingBlocksFusion ==
    "message_reordering_detected" \in {obs.imuTiming.reason, obs.lidarTiming.reason}
    => HasHardFusionBlockingIssue(Snapshot)

\* domain/policy/lidar_cloud_gate.cc: "Stream-level jitter is diagnostic-only
\* for downstream LIO": the map update is allowed or not as it would be were
\* the timing of both streams in order.
TimingDoesNotDecideMapUpdate ==
    MapUpdateDecision(Snapshot).allowed =
        MapUpdateDecision(Build([obs EXCEPT !.imuTiming = TimingSummary("ok"),
                                            !.lidarTiming = TimingSummary("ok")])).allowed

\* config/temporal_gate.yaml: "block LiDAR clouds until the monitor has seen
\* enough IMU timing samples" - a gate that is warm stays warm.
WarmupEndsForGood ==
    [][Decision("strict") # "blocked_warmup" => Decision("strict")' # "blocked_warmup"]_vars
=============================================================================
