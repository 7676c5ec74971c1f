# Verification of causal_slam

causal_slam watches the IMU and LiDAR streams that feed a LiDAR-inertial
odometry. For every cloud it estimates when the points were taken, checks that
IMU samples cover that interval, and says whether the cloud may be forwarded
and whether a mapper may update its map with it. This directory holds TLA+
models of that program, the TLC runs that check them on small instances, and
TLAPS proofs of the properties of its parts for every value of their parameters.

Paths below are relative to the repository root.

## The system

| Part | Code | State | Operations | Correct when |
|---|---|---|---|---|
| Stream timing tracker | `src/domain/telemetry/stream_timing_tracker.cc` | previous stamp and period, counters of the open window and of the lifetime | `Observe`, `ConsumeWindowSummary`, `EvaluateHealth` | each fault of the stream is in the verdict of exactly one window |
| IMU sample buffer | `src/domain/sensors/imu/imu_sample_buffer.cc` | the retained samples | `Add`, `PruneOlderThan` | it holds the accepted samples of the last retention period, in order |
| IMU coverage analyzer | `src/domain/sensors/imu/imu_coverage_analyzer.cc` | none | `AnalyzeStamps` | "ok" means the scan can be interpolated |
| Scan window estimator | `src/domain/sensors/lidar/lidar_scan_window_estimator.cc` | the previous header | `Estimate` | the window contains the scan |
| Point-time fields | `src/domain/sensors/pointcloud/` | none | `Inspect`, `Extract` | the window of a cloud's points is the scan |
| Transform age | `src/adapters/ros2/transform_lookup_adapter.cc`, `src/domain/sensors/transform/` | none (the TF buffer is external) | `LookupTransform`, `Analyze` | - |
| Diagnostics, gate, map update | `src/domain/diagnostics/`, `src/domain/policy/` | none | `Build`, `ShouldForwardLidarCloud`, `DecideMapUpdate` | modes are nested, verdicts are consistent and monotone |
| Pipeline | `src/application/temporal_monitor/temporal_monitor_pipeline.cc` | all of the above, joined | `ObserveImu`, `ObserveLidar`, `ObserveTransforms`, `BuildSnapshot` | the snapshot is about the last cloud |
| ROS 2 node | `src/apps/ros2/temporal_monitor_node.cc` | the pipeline, the holdback queue, an estimator of its own | IMU, LiDAR and timer callbacks | no cloud is blamed for late IMU samples, forwarded scans are covered |
| Statistics | `src/domain/statistics/` | samples, counters, recent blocked clouds | `ObserveSample`, `ObserveCloudDecision`, `BuildSnapshot` | windows and counters are those of the history |
| Status bridge | `src/apps/ros2/temporal_status_bridge_node.cc` | the last message of each topic | one callback per topic, a timer | /diagnostics says what the monitor said |
| ROS 1 monitor | `ros1/causal_slam_ros1/src/temporal_monitor_node.cpp` | a pipeline | IMU, LiDAR and timer callbacks | a latched verdict is about a covered scan |
| Offline analysis | `src/apps/ros2/analyze_bag_app.cc`, its artifact writer | streams of a bag, two report files | `AnalyzeBag`, the dataset verdict, the reports | a verdict rests on evidence for it, the evidence the node would have seen |
| Atomic file writer | `src/platform/atomic_file_writer.cc` | two files | `WriteTextFileAtomically` | a reader sees the old or the new content |
| Session tool | `src/apps/ros2/session_app.cc`, `session_cli.cc` | the session directory; the process groups of the script it writes | `init`, `discover`, `summarize`; start, wait, stop, summarize | a session that can be started is whole, its success means a summary of its own, the script ends and leaves no group it knows of running unstopped |

The exact files are in `PROJECT.json`. How the parts interact: an IMU message
goes into the pipeline (tracker and buffer) and moves the stamp the holdback
queue compares with; then the callback drains the queue. A cloud is decided at
once or queued. To decide it, the pipeline observes it (estimator, point
times, coverage, tracker) and its TF checks; the snapshot built from that goes
to the diagnostic topics, to the gate, which forwards the cloud or not, and to
the statistics. The timer publishes a snapshot of its own, which empties the
timing windows, adds a sample to the statistics and writes the report through
the atomic file writer. The bridge node gets the topics, field by field. The
ROS 1 node drives the same pipeline but judges at its timer only; the offline
tool uses the same domain classes on a recorded bag, but finds the point times by
a table of its own; the session tool writes the directory and the scripts that
start the programs, and is called back by its own script to summarize what was
recorded.

The node is single-threaded, so its callbacks do not interrupt each other. The
hard behaviours are the order of callbacks: clouds overtake pending ones,
queues overflow, IMU samples come late, and from the future; timers empty the
windows other verdicts are computed from; several estimators see different
clouds. Then messages are lost and overtaken between two nodes, processes are
killed halfway through a file or between two of nine files, and signals reach a
shell script between any two commands. `PROJECT.json` lists them under "hazards", each at its line and
with the properties that would notice, or the reason why none does.

## Modules

| Module | Models | How state and actions correspond to the code |
|---|---|---|
| `TemporalHealth` | `temporal_health.h`, the fold of `temporal_diagnostics.cc` | statuses as strings, `Worst` the fold over issues |
| `StreamTimingTracker` | the tracker, as a record and operators | `Observe`, `ResetWindow` and `EvaluateHealth` of one record |
| `StreamTimingWindows` | one tracker with its history | actions `ObserveMessage` and `ConsumeWindowSummary` |
| `ImuSampleBuffer`, `ImuCoverage`, `LidarScanWindow` | buffer, analyzer, estimator, as operators | `Add`, `Analyze`, `Estimate` |
| `ScanEvidence` | the three together under one IMU stream and one LiDAR | a sample is added, a scan of known extent is estimated |
| `PointTimeField` | inspector, override configuration and extractor | `Inspect` chooses the field, `Extract` takes the window of its values |
| `Selections` | a loop over a vector that collects what passes a test | `Selected` at the places of a set, in their order; the aggregator's `SamplesSince`, the issues of the transforms, the windows of a bag's clouds |
| `TransformAge` | TF lookup adapter and analyzer | an answer of the TF buffer becomes a status |
| `TemporalDiagnostics` | the issues and status of an observation | `Build` |
| `LidarCloudGate` | gate modes, hard blockers, warmup, map update decision | operators with the names of the functions |
| `FusionDecision` | abstract monitor: observations change as clouds, IMU messages and timers allow; the policy decides | its variables are the observation and two IMU counters |
| `TemporalMonitorPipeline` | the pipeline as one record | one operator per method |
| `CloudLedger` | abstract specification of the clouds in the node | held, decided, lost |
| `LidarHoldback` | the holdback queue and its drain loop | one action per callback and per iteration of the loop |
| `TemporalMonitorNode` | the node: queue, pipeline, policy, publishing | one action per callback and per iteration, each the whole handler |
| `NodeParameters` | the parameter loader, what the constructor makes of it, and the parameters a generated session gives | `LoadTemporalMonitorNodeParameters` maps what a launch gives to what the node runs with |
| `NumericStatistics`, `TemporalStatistics` | numeric summary, aggregator | `ObserveSample`, `ObserveCloudDecision`, snapshots as operators |
| `StatusBridge` | topics and bridge | publishing field by field, loss, delivery, timer, death of the monitor; `held` is the last message of each writer (QoS{1}, `temporal_monitor_node.cc:189`), `underWay` what was published and the bridge has not got yet, in a queue per topic |
| `Ros1TemporalMonitor` | the ROS 1 node on the pipeline model | one action per callback |
| `AtomicFileWriter` | the writer step by step | open, write, close, rename, failures, `Crash` |
| `MonitorOutputs` | bridge and writer under one monitor: the callbacks of a cloud and of the timer, topics first, report last | one action per callback and per step of it, `Die` at any point |
| `OfflineAnalysis` | reading a bag, the verdict, the two report files, the exit code | one action per kind of message, `FailToRead`, `Finish`, `WriteJson`, `WriteHtml` |
| `SessionDirectory` | the commands of `causal_slam_session` and the thirteen files they write in place | argument checks, discovery, one step per file opened or written, `Kill` |
| `SessionRunner` | `run_all_observe.sh` command by command | a step is a shell command, a process of a group, or a signal; the leader of a group, which the script waits for, may end before the processes it started, which a look at the group finds |
| `Session` | the two together: the user's calls, the script started in the directory, the script's call of the tool | actions of both, tied where a script runs another or the tool |
| `Algorithms_proof`, `StreamTimingWindows_proof`, `FusionDecision_proof`, `LidarHoldback_proof`, `EvidenceAndSession_proof`, `TemporalMonitorNode_proof`, `Ros1TemporalMonitor_proof`, `Reports_proof` | theorems | |

`TemporalMonitorNode` composes `LidarHoldback`, `TemporalMonitorPipeline` (and
through it the domain modules) and `FusionDecision`; `MonitorOutputs` composes
`StatusBridge` and `AtomicFileWriter`; `Session` composes `SessionDirectory` and
`SessionRunner`. Refinements tie the levels together: `LidarHoldback` implements
`CloudLedger` (the held clouds are the numbers in the queue);
`TemporalMonitorNode` implements `LidarHoldback` (`NodeDrivesQueue`, the queue's
variables are the node's) and `FusionDecision` (the observation is the one the
pipeline builds, the counters are cut off at the warmup minima, above which the
gate cannot tell them apart); `Session` implements `SessionRunner`, whose one step
of summarizing stands for the whole call; `MonitorOutputs` implements its two
parts (`PartsAreImplemented`). Hence what is proved of the policy over all
observations holds of each snapshot the node takes.

History variables record what the code does not: the stamps received, which
clouds were decided and lost. No guard reads them, except for the bound on
their length. Definitions headed "Slip" are plausible mistakes; nothing uses
them, and `PROJECT.json` says which property refutes which.

Times are whole ticks. The content of a generated file is the number of the call
that wrote it, and whether all of it is there. Text, logging, colours, units of durations and the means
and deviations that only show up in reports are left out, as are the bytes of
clouds: a cloud carries the set of numbers found at each offset.

## Runs

| Run | Question | Bounds |
|---|---|---|
| `fusion_decision` | do the policies agree with each other on every observation: are modes nested, may what is forwarded update the map, does another issue ever open the gate, do jitter and gaps alone block anything | every kind of timing, coverage and point-time verdict once, TF checks absent or one of two failing, warmup minima 2 and 1 |
| `reordering` | does a reordered message block fusion, as the list of hard blockers says (it does not) | as above |
| `stream_timing` | does a window verdict say what happened to its messages, are faults lost or repeated by windows | 5 messages with stamps 0..4, gap above 2, jitter thresholds 0 and 1, timer anywhere |
| `scan_evidence` | what the buffer keeps; does the window contain the scan; can an ok scan be interpolated | 4 samples with stamps 0..8 in any order, retention 4, 4 scans of 2 ticks lost, repeated or reordered |
| `lidar_holdback` | order, limit, loss and readiness in the queue; is it the ledger; does every cloud get settled | 4 clouds, queue of 2, IMU stamps 0..3, ready stamps 1..3 |
| `temporal_monitor_node` | is a forwarded scan covered; does holdback serve its purpose; does the node implement the policy model | 3 IMU messages (stamps 0, 2, 4, 6, any order), 2 of 5 kinds of cloud, queue of 2, `drop_degraded`, TF found or extrapolated |
| `stale_extraction` | is an extraction failure reported of the cloud it happened to (it is not) | as above |
| `temporal_statistics` | are windows, counts and the recent list those of the history | 3 samples, 3 decisions, clock 0..3 going back and forth, windows of 1 and 2, list of 1 |
| `monitor_outputs` | does the bridge make up reassurance, does it catch up, what does a reader of the report find, and can it be ahead of the topics | verdicts OK and INVALID (the proofs are for any), two topics that lose messages and queue up to 2 each, 2 reports, any step of them failing, the monitor killed at any point |
| `ros1_monitor` | is a latched verdict about a covered scan, are faults published once | 4 IMU messages, 2 clouds |
| `offline_analysis` | what does a verdict rest on, and is it what the node would have extracted | 5 messages of 11 kinds, among them clouds with absolute times, offsets, unreadable times, a field called "time" and none; files that cannot be opened or are cut short; the 5 % of faults is scaled to 50 % so that bags of a few clouds reach both sides |
| `session` | which session can be started, what stands beside a summary, what does the script's success mean, does it end, does it leave processes behind | 2 calls of the tool, 11 command lines (one per kind of refusal), the unseen failures of a script and a log, no call of the user once the script runs |

What the runs show:

- `fusion_decision`: `ModesAreNested`, what a stricter mode forwards a laxer one
  does too. `ForwardedIsMapUpdatable`: a protective gate forwards nothing the
  map update decision rejects. `AddingIssuesNeverForwards`: an observation that
  is worse in every respect is not forwarded by a mode that blocked the better
  one. `JitterAndGapsAreDiagnosticOnly`: with a covered scan and point times
  from the cloud, jitter and gaps of the streams neither forbid the map update nor
  make `drop_degraded` block, warm or not. Reordering is excepted, since it is listed
  as a hard blocker; that it does not act as one is the run `reordering`.
- `stream_timing`: `VerdictMatchesHistory` defines the verdict from the stamps
  alone, which takes reordering between windows and the periods next to a gap.
- `scan_evidence`: `OkScanIsInterpolable` defines deskewability without the
  analyzer: every instant between the margins lies between two received
  samples at most a gap apart. `CoveredScanStaysCovered`: more samples do not
  undo an ok verdict (if the margin at the end is no wider than the gap).
- `lidar_holdback`: the safety properties and the refinement, also proved; and
  `EveryCloudIsSettled`, liveness: see fairness below.
- `temporal_monitor_node`: `ForwardedScanIsCovered` compares a forwarded scan
  with the IMU messages really received; `HoldbackWaitsForScan` that the two
  estimators agree whenever they saw the same clouds, and a held cloud is
  judged after the IMU stream passed the end of its window;
  `HeldBackScanIsCovered` that late samples are never blamed;
  `PointTimesGiveTheScan` that both paths read the same scan;
  `MapUpdateVerdictNeedsACloud` that timers do not change a verdict about a
  scan, but for blockers that raise only a WARNING.
- `temporal_statistics`: `WindowsAreComplete` says each window holds exactly
  the samples of its span as long as the clock does not go back, and none from
  outside it ever; `RecordsMatchDecisions` that counters, reasons and the list of recent events
  agree with all decisions.
- `monitor_outputs`: an OK or WARN of the bridge rests on two verdicts that both
  allowed the update; once the monitor keeps saying the same the bridge ends up
  saying it, however often the monitor was killed before. A reader of the report
  finds old or new content unless a buffer is lost at close (see Divergences);
  and when a report becomes visible the writers of all topics hold its verdict
  (`ReportFollowsTopics`), though an earlier callback may have died between topics
  and report. The bridge may still have older messages to get at that moment. That
  the messages of a topic come in the order they were published in, the last ones
  of a killed monitor before those of the next, is an assumption.
- `ros1_monitor`: `TimingFaultsArePublishedOnce` counts faults in the stamps
  received since the last timer.
- `offline_analysis`: a dataset is recommended or OK only with scans that are
  deskewable in the sense of `scan_evidence`, up to the tolerated share, as far as
  their windows could be extracted.
  `WindowsAreTheNodes`: where both programs choose the same field, and it is not
  called "time", the tool judges the windows the node extracts from the same clouds.
- `session`: `StartableSessionIsWhole`: where one call of `init` alone has written,
  even one that failed or was killed, nothing can be started that is not complete.
  It does not extend to a call killed over an earlier session, which may leave the
  old `run_all_observe.sh` startable among new files. `InitializedSessionIsUniform`:
  a successful call replaces all of an earlier session. `SummaryFollowsItsLogs`: a
  summary is never newer than the logs beside it, unless a log failed silently.
  `SuccessMeansItsOwnSummary`: an exit code gets from the tool through two scripts.
  `NoKnownGroupIsLeftRunning`: whichever way the script ends, the leaders it has
  numbers of are gone, and it has sent SIGKILL to what may be left of recorder and
  monitor, and of the player when it had to stop that. Left alone are the rest of a
  player that ended by itself, since the script waits for its leader and does not look
  at the group (`session_app.cc:613`, `:619`), and a group that was not one yet when a
  signal made the script look for it. `LaunchedScriptEnds`: the script does end, if no
  signal comes in that instant; if one does, it waits without having sent a signal.

The bounds are the smallest at which each threshold can be met, missed and just
met, each queue can be full with one more coming, and each actor can act before,
between and after two steps of another. Every mutation of the code listed in
`PROJECT.json` is refuted within them. The gate mode of the node's instance is
`drop_degraded`, the mode of the shipped configuration's purpose; all modes are
compared in `fusion_decision`. Its constants are what `NodeParameters` makes of a
launch that gives some values, some of them below their limits, and leaves
others out (`LaunchAssumption`); limits and defaults are scaled to the few ticks
of the instance.

Deadlock is checked except where the modelled system stops by itself: the
script ends, a bag ends, and the run of `temporal_statistics` is bounded by the
number of samples.

## Fairness

- `LidarHoldback`: weak fairness of the loop's iterations, that is, a callback
  that started runs to its end. Nothing is assumed of messages by `FairSpec`;
  `EveryCloudIsSettled` has the premise `ImuStreamGoesOn`, since the code has no
  timeout: when the IMU falls silent, held clouds stay (README of the
  repository: they are released by IMU messages).
- `MonitorOutputs`: weak fairness of the monitor's timer and of the rest of a
  callback that runs (ROS executors call a ready timer, and a callback is
  sequential code), of the bridge's timer; strong fairness of each topic's
  delivery, that is, not every message of a topic is lost. Nothing keeps the
  monitor from being killed: the property's premise is that one verdict is
  published again and again, not that the process survives.
- `Session`: weak fairness of the script's next command, of the tool's next step,
  of `setsid`, of the death of a leader that got SIGKILL, and of the player, whose
  bag ends. No other group is assumed to end, nor to react to SIGINT or SIGTERM.

## Proofs

TLAPS checks these for every value of the constants that the ASSUMEs admit.

- `LidarHoldback_proof`: from one inductive invariant `IInv`, preserved by each
  action in a lemma of its own, follow `TypeCorrect`, `QueueIsBoundedFifo`,
  `HoldbackHoldsBack`, `OverflowTakesOldest`, `MonotoneReadyKeepsOrder`,
  `MonotoneReadyNeedsNoWait`. The properties are not inductive: that no ready
  cloud waits between callbacks needs that a cloud behind an unready head is
  unready (monotone ready stamps), and the order of decisions needs that
  decided clouds are older than pending ones. Then `Refinement`: the queue
  implements `CloudLedger`; `LedgerIsComplete`, of the ledger alone (that its numbers
  do not exceed `arrived` is what makes a new number new); and from both
  `NodeLedgerIsComplete`.
- `TemporalMonitorNode_proof`: `NodeDrivesQueue`, the composed node implements
  `LidarHoldback` for whatever ready stamps its estimator gives, so the queue's
  theorems hold in it (`NodeAccountsForEveryCloud`). `OnlyCoveredScansAreForwarded`
  states `ForwardedScanIsCovered` for every number of clouds and messages, all
  parameters and any order of callbacks. Its invariant `NodeInv` says that each
  pending cloud is one of the clouds and its window one the node may have
  computed, and that the pipeline's buffer holds received stamps only; together
  with `Queue!IInv` of the queue. The argument of the decision: a window that the
  buffer does not cover has a coverage verdict other than ok, which raises a
  DEGRADED issue whose reason is a hard blocker, which neither protective mode
  forwards; and an ok verdict means what `OkWindowIsInterpolable` says.
  Three theorems are about the two paths to a window, the one at arrival and the
  one at the decision: `PointTimeWindowsAreTheScans`; `HeldBackCloudsWaitForTheirScan`,
  whose invariant compares the holdback estimator with the pipeline's as long as
  the two have seen the same clouds; and `HeldBackCloudsAreCovered`, which adds that
  the buffer keeps what is needed of a regular IMU stream (`EvidenceInv`).
  `MapUpdateVerdictIsAboutACloud`: between two clouds only the reasons of the streams'
  timing change, and these decide the map update with the help of a WARNING blocker
  only.
  `NodeImplementsFusionDecision` ties the node to the policy's abstract
  environment: its invariant `PolicyInv` says that the point-time diagnostics are
  those of the field the pipeline has chosen, which is why used point times come
  with a supported field and, if the window is taken from them, high confidence.
  Each step of the node is then one of the environment or leaves it alone.
- `FusionDecision_proof`: `GateModesAreNested`, `ForwardingImpliesMapUpdate`,
  `JitterAloneBlocksNothing`, `MoreIssuesNeverForward`, `AllowedScansAreCovered` and
  `TimingDecidesOnlyByWarningBlockers`, for every observation and
  any demand of evidence. All rest on `SnapshotIsItsReasons`: a reason is raised with
  one severity only and never with OK, so what the policy decides on is a function of
  the set of reasons, and one that only gets worse as the set grows.
- `Ros1TemporalMonitor_proof`: `AllowedScansAreDeskewable` and `FaultsArePublishedOnce`,
  both properties of its run, for every configuration. Nothing is proved again of the
  parts: each tracker of the pipeline is an instance of `StreamTimingWindows`, whose
  window the timer consumes, so the invariant of `StreamTimingWindows_proof` holds of
  both; the snapshot is one of `FusionDecision_proof`, without transforms. The node's
  own invariant (`JudgedInv`, `PublishedInv`) says that the buffer holds nothing that
  did not arrive, that a verdict of ok is about the estimate kept with it, and that an
  allowed message is about samples received before its timer. The second is needed
  because the timer publishes the estimate of a cloud judged earlier, the third
  because the message stays latched while the log grows.
- `EvidenceAndSession_proof`, its first part: `BufferIsRecent`, `WindowsCoverScans`,
  `OkScansAreInterpolable` and `LaterIsNotWorse`, from `ScanInv`: the buffer is sorted,
  within its retention and the accepted samples of that span (`BufferInv`), the
  window of the last scan contains it (`EstimateInv`), and a recorded verdict is the
  analyzer's on a buffer whose samples were all received (`EvidenceInv`). For
  `LaterIsNotWorse`, what is inserted in a covered window only narrows its gaps, and
  what comes after its end at most moves the last sample by a gap.
- `Algorithms_proof`: `OkWindowIsInterpolable`, what "ok" of `AnalyzeStamps` means
  for any set of stamps with any margins; `P95IndexIsNearestRank`, in real
  arithmetic; and the lemmas the other proofs use: about `PruneOlderThan` and the
  order of the buffer, about regular streams, and about the n-th element of a set of
  places, which is what a filter over a vector collects.
- `StreamTimingWindows_proof`: `TypeCorrect`, `NoFaultIsLost` and
  `VerdictIsHistory`. The invariant says what the previous stamp and period of
  the record are in the log (`Baselines`), and that each window counter tells
  whether the fault it counts happened to a message of the window
  (`WindowIsCounted`, for the jitter: every bound is exceeded by the counter if
  and only if it is by some message). That the property alone is not inductive
  is the point of the code: what a message is compared with must survive the
  reset of the window, a gap and a step back.
- `Reports_proof`, about what the programs tell. The bridge and the report: each
  part is proved alone, and `PartsAreImplemented`
  carries its properties over: `ReassuranceIsTrue` and `AlarmIsTrue`, the bridge
  never makes up an announcement of fields of two verdicts (from type correctness
  and from what any verdict says: OK and WARNING allow the map update);
  `OldOrNew`, `FailureIsHarmless` and `OnlyThisCallShows` for every number of calls,
  failures and deaths (the invariant says of each place in a call what the two
  files hold). `TopicsComeFirst` is about both, for queues of any length: its
  invariant ties the places of a call to the writers served before it.
  The statistics: `StatisticsKeepRecords`, where one more decision is one more
  element of the blocked ones, and what is taken off the front of the recent list
  is what would not have been among the last anyway; and
  `StatisticsWindowsAreComplete`, whose invariant says that the rolling samples are
  the end of the session's and that those before it are older than the wider
  window (`RollingIsComplete`): the property alone speaks of the last timer only,
  and would not survive the next.
  The offline analysis: `OfflineWindowsAreTheNodes`, `RecommendedDatasetsAreDeskewable`
  and `OkDatasetsAreDeskewable`, for recordings of any length and every limit. The
  invariant `EvidenceSound` says that every IMU stamp the tool counts with is one of
  the bag's, that a cloud with readable point times was there if one was counted, and
  that the windows are the node's; each kind of message preserves it. The judgement:
  the edge tolerance is a number, since some period of the recording is its nearest
  rank (`MarginIsANumber`); with any tolerance a window of verdict ok can be deskewed
  (`OkIsCovered`, by the two samples next to an instant); so what cannot be deskewed
  is among what the report counts as degraded or invalid (`FaultsAreCounted`), and
  the cases of the verdict bound that count.
- `EvidenceAndSession_proof`, its second part: `SessionInv` joins what is on disk at each place of a call
  (`DirectoryInv`), what the script has started, noted and stopped at each command
  (`ScriptInv`; its part `Leaving` says what was sent to a group at each stage of
  `stop_process_group`, without which nothing is known of what a leader leaves
  behind), and which call the script is waiting for (`Calling`). From it follow
  `StartableIsWhole`, `InitializedIsUniform`, `SummaryFollowsLogs`,
  `NoKnownGroupIsLeft`, `SuccessIsItsOwnSummary`, and `Refinement`.
  The parameters of the node are in the same module, since `init` writes them:
  `LoadedParametersAreUsable`, that the ASSUMEs of the
  other modules about thresholds, margins and limits hold of every launch, and
  `NominalScanIsCovered`: the loader and the coverage analyzer together never
  blame an IMU stream that runs at its expected rate, as long as the two edge
  margins are left to their defaults. The former rests on the second maximum of
  the constructor: cutting the queue limit to an int undoes the maximum of the loader.
  `GeneratedSessionIsTaken` and `GeneratedSessionTakesNominalScans`: the values
  `init` writes pass the loader unchanged, and do not blame a 100 Hz IMU. Numbers
  are finite there; a NaN given for a limit passes every `std::max`.

The theorems assume what the ASSUMEs of the modules say of the constants. In
`TemporalMonitorNode` these are that stamps are integers, that a cloud's times
have a least and a greatest one, that the TF buffer gives finitely many answers,
that point times are true (`PointTimesAreTrue`: of the fields of a cloud, those
either path may read span the interval it was taken in), and the assumptions of
its parts (`PartsAssumption`); in `FusionDecision`, that the timing reasons and TF
statuses are those the policy has names for; in `OfflineAnalysis`, that messages
are of one of the three kinds and a cloud holds finitely many numbers
(`MessagesAssumption`). `Ros1TemporalMonitor` assumes the same of stamps, clouds
and its parts, and nothing else. TLC evaluates all of them.

Only model-checked: all liveness (`EveryCloudIsSettled`, `BridgeCatchesUp`,
`LaunchedScriptEnds`), since no prover here handles fairness. Every invariant
and every other action property of the passing runs is stated by a theorem.

## Divergences

Two are runs with findings. `stale_extraction`: a cloud that was held back
brings its window along, and `temporal_monitor_pipeline.cc:106` leaves the
extraction flags of an earlier cloud in place, so a failed extraction is
reported of clouds whose points gave their window. `reordering`:
`lidar_cloud_gate.cc:86` and its test (`tests/policy/lidar_cloud_gate_test.cc:148`)
list "message_reordering_detected" among the hard blockers, but the diagnostics raise
`imu_stream_timing_reordered` or `lidar_stream_timing_reordered`, so a reordered
message does not block fusion.

The others are definitions of the modules that no run lists; adding the line
named to the module's cfg (and leaving out the other properties) makes TLC show
the behaviour.

| Definition | The code | A document says |
|---|---|---|
| `FusionDecision`: `DropDegradedBlocksDegraded` | `lidar_cloud_gate.cc:109`: `drop_degraded` forwards DEGRADED without a hard blocker | `config/temporal_gate.yaml:39` "drop_degraded  - block DEGRADED and INVALID clouds" |
| `FusionDecision`: `DropDegradedBlocksOnlyDegradedOrInvalid` | it also blocks a WARNING with a hard blocker | `README.md:160-162` "INVALID states and DEGRADED states with a hard fusion blocker" |
| `FusionDecision`: `TimingDoesNotDecideMapUpdate` | `map_update_decision.h:43`: a DEGRADED status, jitter's too, makes WARNING blockers count | `lidar_cloud_gate.cc:107` "Stream-level jitter is diagnostic-only for downstream LIO." |
| `FusionDecision`: `WarmupEndsForGood` | `temporal_monitor_pipeline.cc:164`: each timer empties the window whose samples the warmup counts | `config/temporal_gate.yaml:45-46` "block LiDAR clouds until the monitor has seen enough IMU timing samples" |
| `TemporalMonitorNode`: `ObserveForwardsEveryCloud` (with `GateMode = "observe"`, `MaxPending = 1`, 3 clouds) | `temporal_monitor_node.cc:452`: a full queue drops its oldest cloud in every mode | `README.md:154-155` "observe - diagnostics only; LiDAR is forwarded" |
| `StatusBridge`: `BlockedIsSaidOfABlockingVerdict` (a PROPERTY, in `MCMonitorOutputs` with a DEGRADED health among the judgements) | `temporal_status_bridge_node.cc:102`: an allowed DEGRADED is announced as "map_update_blocked" | `README.md:204-205` |
| `OfflineAnalysis`: `WarningIsNotCritical` (with `Messages <- MCWarningMessages`) | `analyze_bag_app.cc:545` | `README.md:200-201` |
| `OfflineAnalysis`: `OkMeansEveryCloudWasChecked` | `analyze_bag_app.cc:587` | `README.md:197-198` |
| `AtomicFileWriter`: `OutputIsWhole` (in `MCMonitorOutputs`) | `atomic_file_writer.cc:42`: the flush at close is not checked, and the file renamed all the same | `docs/ARCHITECTURE.md:112` "atomic file writing" |
| `OfflineAnalysis`: `SuccessLeavesTheReport` | `offline_temporal_report_artifact_writer.cc:46`: the report is written in place and only its opening is checked, so the call may return 0 with half of it | `README.md:182` "JSON is the primary machine-readable artifact." |
| `OfflineAnalysis`: `EveryCloudIsReadAlike` | `analyze_bag_app.cc:87` takes "time" for offsets, `point_cloud2_field_inspector.cc` for absolute times; here the first time field is read whatever its datatype, there the first supported one | the runtime's inspector |
| `SessionRunner`: `NoGroupOutlivesScript` (in `MCSession`) | `session_app.cc:598`: a signal between a start and the assignment of its number; `:613`, `:619`: what a player's leader leaves behind; `:548`: a group that dies later than the script waits after SIGKILL | the message at `:582` "stopping child processes..." |
| `SessionRunner`: `SummaryIsOfThisRun` (in `MCSession`) | `session_app.cc:635`: the latest recording may be an older one | the message at `:638` |

Also met while reading, without a property: `tf_extrapolation_required` is never
reported, since the adapter reports an extrapolation as a failed lookup, which
the analyzer tests first (`README.md:224` lists it); `imu_stream_stale` and
`no_imu_sample_received_yet` are hard blockers nothing raises; the unit
configured for the point-time field is used to guess its role only, not to
scale its values; the offline tool compares field names with their case, the
runtime without; a play rate of NaN passes the test of `session_cli.cc:193`; the
bridge has no timeout, so after the monitor died it goes on repeating the last
verdict (`temporal_status_bridge_node.cc:91` reports STALE only before the first).

## Not modelled

- Of the parameters, topic names, the report path and the reliability of the
  queues, which pass through unchanged. In the modules other than
  `NodeParameters` parameters are CONSTANTS.
- The staleness analyzer, which no program uses; report builders and renderers;
  topic classifiers and command lines; simulators, probes and scripts for tests.
- Of the session tool, the interactive wizard and the contents of a recording; of
  the offline tool, the counters of its report and `--list-topics`, which changes
  nothing.
- The TF buffer, ROS transport inside the node, file systems and shells are
  external: modelled by what they may answer.

## Plan

Done: the timing, evidence and policy modules; the queue with its abstract
ledger; the composed node, its refinements and its parameters; statistics; the
outputs of the monitor put together; ROS 1; offline analysis with its reports; the
session directory and script put together; and proofs of the safety of all of these.
