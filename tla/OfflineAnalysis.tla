--------------------------- MODULE OfflineAnalysis ---------------------------
(***************************************************************************)
(* apps/ros2/analyze_bag_app.cc: the offline analysis of a recorded bag.   *)
(* AnalyzeBag reads the messages in the order of the recording, collects   *)
(* the IMU stamps and the scan windows, judges the dataset when it has     *)
(* read them all, and writes its reports, in place.  Whatever it keeps of  *)
(* a stream other than the verdict's evidence is reporting and left out.   *)
(* Times are whole ticks, the two topics are different ones.               *)
(*                                                                         *)
(* A message is a record; kind tells the IMU messages from the clouds and  *)
(* both from those that cannot be deserialized.  A cloud has a header,     *)
(* fields and values, as in PointTimeField.                                *)
(***************************************************************************)
EXTENDS Integers, Sequences, FiniteSets, Folds, Selections

CONSTANTS
    Messages,            \* the messages of a bag
    MaxMessages,         \* bound on their number
    MinEdgeTolerance,    \* kConfiguredMinEdgeToleranceMs
    MaxInternalGap,      \* max_internal_gap_ms
    FallbackScanDuration, MinMeasuredDuration, MaxMeasuredDuration,
    OutlierDuration,     \* duration_outlier_threshold_ms
    JitterThreshold,     \* lidar_period_jitter_threshold_ms
    FaultPercent,        \* the 5 % of faults from which a dataset is DEGRADED
    NoStamp, NoScan, NoField, NoReport,
    Old, Cut             \* a report file as it was before the call, and an incomplete one

ASSUME AnalysisAssumption ==
    /\ MaxMessages \in Nat
    /\ MinEdgeTolerance \in Nat /\ MaxInternalGap \in Nat
    /\ FaultPercent \in 1 .. 100
    /\ OutlierDuration \in Nat /\ JitterThreshold \in Nat

ASSUME MessagesAssumption ==
    \A message \in Messages :
        /\ message.kind \in {"imu", "cloud", "corrupt"}
        /\ message.kind = "imu" => message.stamp \in Int
        /\ message.kind = "cloud" =>
              /\ message.header \in Int
              /\ message.fields \in Seq([name : STRING, datatype : STRING, offset : Nat])
              /\ \A offset \in DOMAIN message.values :
                    IsFiniteSet(message.values[offset]) /\ message.values[offset] \subseteq Int

VARIABLES
    bag,           \* history: the messages read
    imuSamples,    \* imu_samples
    periods,       \* periods_ms_ of the LiDAR's TimingAccumulator
    lastHeader,    \* its previous_stamp_ns_
    lastEstimated, \* the previous header of the fallback estimator
    windows,       \* scan_windows_for_coverage
    tally,         \* the counts of LidarScanWindowAccumulator
    report,        \* the verdict and the coverage it rests on
    files,         \* the JSON and the HTML report on disk
    exit           \* what the call returned, "none" while it runs

evidence == <<imuSamples, periods, lastHeader, lastEstimated, windows, tally>>
outputs == <<report, files, exit>>
analysisVars == <<bag, evidence, outputs>>

\* The node reads the points of the same clouds, without an override.
PointTime == INSTANCE PointTimeField WITH PointTimeConfig <- [mode |-> "auto"]

Scan == INSTANCE LidarScanWindow WITH StampPolicy <- "scan_end", PreferMeasuredPeriod <- TRUE
Coverage(edge) == INSTANCE ImuCoverage
                      WITH MaxMissingPrefix <- edge, MaxMissingSuffix <- edge

ASSUME PartsAssumption == Scan!ScanWindowAssumption

AnalysisInit ==
    /\ bag = <<>>
    /\ imuSamples = <<>>
    /\ periods = <<>>
    /\ lastHeader = NoStamp
    /\ lastEstimated = NoStamp
    /\ windows = <<>>
    /\ tally = [total |-> 0, estimated |-> 0, withPointTime |-> 0, outliers |-> 0]
    /\ report = NoReport
    /\ files = [json |-> Old, html |-> Old]
    /\ exit = "none"

Duration(window) == window.end - window.start

\* The next message of the bag.
Read(message) ==
    /\ report = NoReport /\ exit = "none"
    /\ Len(bag) < MaxMessages
    /\ bag' = Append(bag, message)
    /\ UNCHANGED outputs

\* The storage throws: the call returns 2 and has written nothing.
FailToRead ==
    /\ report = NoReport /\ exit = "none"
    /\ exit' = "unreadable_bag"
    /\ UNCHANGED <<bag, evidence, report, files>>

\* A message that fails to be deserialized is counted and skipped.
SkipCorrupt(message) ==
    /\ message.kind = "corrupt"
    /\ Read(message)
    /\ UNCHANGED evidence

ReadImu(message) ==
    /\ message.kind = "imu"
    /\ Read(message)
    /\ imuSamples' = Append(imuSamples, message.stamp)
    /\ UNCHANGED <<periods, lastHeader, lastEstimated, windows, tally>>

\* TimingAccumulator::Observe: a step back is no period.
ObserveHeader(header) ==
    /\ periods' = IF lastHeader # NoStamp /\ header >= lastHeader
                  THEN Append(periods, header - lastHeader) ELSE periods
    /\ lastHeader' = header

\* Slip: every time field is taken for absolute times.
TimeRoleForFieldName_AllAbsolute(name) ==
    IF name \in {"timestamp", "t", "offset_time", "time"} THEN "point_time" ELSE "none"

\* The roles this program gives to names, by a table of its own.
TimeRoleForFieldName(name) ==
    CASE name = "timestamp"                  -> "point_time"
      [] name \in {"t", "offset_time", "time"} -> "point_offset_time"
      [] OTHER                               -> "none"

TimeFields(cloud) ==
    {i \in DOMAIN cloud.fields : TimeRoleForFieldName(cloud.fields[i].name) # "none"}

FirstTimeField(cloud) == cloud.fields[Nth(TimeFields(cloud), 1)]

\* The window of the points by the first time field, whatever its datatype.
PointScan(cloud) ==
    LET field == FirstTimeField(cloud)
    IN  PointTime!WindowOf(PointTime!TimesByRole(cloud, field, TimeRoleForFieldName(field.name)))

\* A cloud with a time field: its points give the window, or it has none.
ReadTimedCloud(message) ==
    LET scan == PointScan(message)
    IN
    /\ message.kind = "cloud" /\ TimeFields(message) # {}
    /\ Read(message)
    /\ ObserveHeader(message.header)
    /\ IF scan = NoScan
       THEN /\ tally' = [tally EXCEPT !.total = @ + 1]
            /\ UNCHANGED windows
       ELSE /\ windows' = Append(windows, scan)
            /\ tally' = [tally EXCEPT
                  !.total = @ + 1, !.estimated = @ + 1, !.withPointTime = @ + 1,
                  !.outliers = IF Duration(scan) > OutlierDuration THEN @ + 1 ELSE @]
    /\ UNCHANGED <<imuSamples, lastEstimated>>

\* A cloud without: the window is estimated, and always a valid one.
ReadPlainCloud(message) ==
    /\ message.kind = "cloud" /\ TimeFields(message) = {}
    /\ Read(message)
    /\ ObserveHeader(message.header)
    /\ windows' = Append(windows, Scan!Estimate(lastEstimated, message.header).window)
    /\ lastEstimated' = message.header
    /\ tally' = [tally EXCEPT !.total = @ + 1, !.estimated = @ + 1]
    /\ UNCHANGED imuSamples
-----------------------------------------------------------------------------
(* The judgement over the whole bag. *)

\* ObservedImuPeriodP95Ms: the nearest rank among the positive periods, which is
\* the least one that 95 % of them do not exceed.
ObservedImuPeriodP95 ==
    LET period(i) == imuSamples[i + 1] - imuSamples[i]
        positive == {i \in 1 .. Len(imuSamples) - 1 : period(i) > 0}
        IsEnough(p) == 100 * Cardinality({i \in positive : period(i) <= p})
                           >= 95 * Cardinality(positive)
    IN  IF positive = {} THEN 0
        ELSE CHOOSE p \in {period(i) : i \in positive} :
                 /\ IsEnough(p)
                 /\ \A i \in positive : IsEnough(period(i)) => p <= period(i)

\* ResolveImuCoverageEdgeTolerance with a multiplier of 1.5; the part of a tick
\* that is cut off makes no difference to a whole number compared with it.
EdgeTolerance ==
    LET adaptive == (3 * ObservedImuPeriodP95) \div 2
    IN  IF adaptive > MinEdgeTolerance THEN adaptive ELSE MinEdgeTolerance

WindowVerdict(window, edge) ==
    Coverage(edge)!Analyze(window, {imuSamples[i] : i \in DOMAIN imuSamples})

\* BuildOfflineImuCoverageReport: how many windows have which verdict.
ImuCoverageReport ==
    LET edge == EdgeTolerance
        CountOf(verdict) ==
            Cardinality({i \in DOMAIN windows : WindowVerdict(windows[i], edge) = verdict})
        ok == CountOf("ok")
        invalid == CountOf("invalid_scan_window")
    IN  [total |-> Len(windows), ok |-> ok, invalid |-> invalid,
         degraded |-> Len(windows) - ok - invalid]

SumOf(s) == MapThenFoldSet(LAMBDA a, b : a + b, 0, LAMBDA i : s[i],
                           LAMBDA places : CHOOSE i \in places : TRUE, DOMAIN s)

\* BuildStreamTimingFaultReport: mean and deviation without fractions.
HasStreamTimingFaults ==
    LET n   == Len(periods)
        sum == SumOf(periods)
        squares == SumOf([i \in DOMAIN periods |-> periods[i] * periods[i]])
    IN  /\ sum > 0
        /\ \/ n * squares - sum * sum >= JitterThreshold * JitterThreshold * n * n
           \/ \E i \in DOMAIN periods : 10 * n * periods[i] < 8 * sum
           \/ \E i \in DOMAIN periods : 10 * n * periods[i] > 12 * sum

\* Slip: the limit itself passes.
TooMany_StrictlyMore(count, total) == 100 * count > FaultPercent * total

TooMany(count, total) == 100 * count >= FaultPercent * total

\* Slip: isolated coverage faults are overlooked.
DatasetVerdict_TakesIsolated(topicsFound, coverage) ==
    LET faults == coverage.degraded + coverage.invalid
        verdict(health, recommended) == [health |-> health, recommended |-> recommended]
    IN  IF ~topicsFound \/ coverage.total = 0 THEN verdict("INVALID", FALSE)
        ELSE IF TooMany(tally.outliers, tally.total) THEN verdict("DEGRADED", FALSE)
        ELSE IF tally.outliers > 0 THEN verdict("WARNING", TRUE)
        ELSE IF coverage.invalid > 0 THEN verdict("INVALID", FALSE)
        ELSE IF TooMany(faults, coverage.total) THEN verdict("DEGRADED", FALSE)
        ELSE IF HasStreamTimingFaults \/ tally.withPointTime = 0
        THEN verdict("WARNING", TRUE)
        ELSE verdict("OK", TRUE)

\* BuildDatasetVerdict: the first case that applies.
DatasetVerdict(topicsFound, coverage) ==
    LET faults == coverage.degraded + coverage.invalid
        verdict(health, recommended) == [health |-> health, recommended |-> recommended]
    IN  IF ~topicsFound \/ coverage.total = 0 THEN verdict("INVALID", FALSE)
        ELSE IF TooMany(tally.outliers, tally.total) THEN verdict("DEGRADED", FALSE)
        ELSE IF tally.outliers > 0 THEN verdict("WARNING", TRUE)
        ELSE IF coverage.invalid > 0 THEN verdict("INVALID", FALSE)
        ELSE IF TooMany(faults, coverage.total) THEN verdict("DEGRADED", FALSE)
        ELSE IF faults > 0 \/ HasStreamTimingFaults \/ tally.withPointTime = 0
        THEN verdict("WARNING", TRUE)
        ELSE verdict("OK", TRUE)

\* The bag has been read; its metadata tell whether it has both topics.
Finish ==
    /\ report = NoReport /\ exit = "none"
    /\ LET coverage == ImuCoverageReport
       IN  \E topicsFound \in BOOLEAN :
              /\ imuSamples # <<>> /\ tally.total > 0 => topicsFound
              /\ report' = [coverage |-> coverage,
                            verdict  |-> DatasetVerdict(topicsFound, coverage)]
    /\ UNCHANGED <<bag, evidence, files, exit>>
-----------------------------------------------------------------------------
(* OfflineTemporalReportArtifactWriter::Write: each file is opened, which    *)
(* empties it, and written; only the opening is checked.                     *)

\* A report that could not be opened ends the call.
FailToOpen ==
    /\ exit' = "report_not_written"
    /\ UNCHANGED <<bag, evidence, report, files>>

\* What is written may get lost on the way, unseen.
FillFile(file, last) ==
    /\ \E content \in {report, Cut} : files' = [files EXCEPT ![file] = content]
    /\ exit' = IF last THEN "success" ELSE "none"
    /\ UNCHANGED <<bag, evidence, report>>

WriteJson ==
    /\ report # NoReport /\ exit = "none" /\ files.json = Old
    /\ FailToOpen \/ \E htmlWanted \in BOOLEAN : FillFile("json", ~htmlWanted)

WriteHtml ==
    /\ exit = "none" /\ files.json # Old
    /\ FailToOpen \/ FillFile("html", TRUE)

AnalysisNext ==
    \/ \E message \in Messages :
          \/ SkipCorrupt(message)
          \/ ReadImu(message)
          \/ ReadTimedCloud(message)
          \/ ReadPlainCloud(message)
    \/ FailToRead
    \/ Finish
    \/ WriteJson
    \/ WriteHtml

AnalysisSpec == AnalysisInit /\ [][AnalysisNext]_analysisVars
-----------------------------------------------------------------------------
ImuOfBag == {bag[i].stamp : i \in {j \in DOMAIN bag : bag[j].kind = "imu"}}
CloudsOfBag == {i \in DOMAIN bag : bag[i].kind = "cloud"}
Judged == report # NoReport

\* Between its margins, every instant of the window lies between two recorded
\* IMU samples no further apart than the allowed gap.
IsDeskewable(window) ==
    LET edge == EdgeTolerance
        imu == ImuOfBag
    IN  /\ window.start < window.end
        /\ \A t \in window.start + edge .. window.end - edge :
              \E a, b \in imu : a <= t /\ t <= b /\ b - a <= MaxInternalGap

\* Without an outlier among its scans, a dataset recommended for a map update
\* has scans a mapper can deskew, but for a share below the limit - wherever in
\* the recording the IMU messages stand.
RecommendedScansAreDeskewable ==
    Judged /\ report.verdict.recommended /\ tally.outliers = 0 =>
        100 * Cardinality({i \in DOMAIN windows : ~IsDeskewable(windows[i])})
            < FaultPercent * Len(windows)

\* Each window extracted for an OK dataset is that of a scan a mapper can deskew,
\* and one was read from its points at least.  Clouds whose extraction failed are
\* not judged: OkMeansEveryCloudWasChecked.
OkScansAreDeskewable ==
    Judged /\ report.verdict.health = "OK" =>
        /\ \A i \in DOMAIN windows : IsDeskewable(windows[i])
        /\ \E i \in CloudsOfBag : TimeFields(bag[i]) # {} /\ PointScan(bag[i]) # NoScan

\* The field the node would read this cloud by, if it sees no other.
NodeField(cloud) == PointTime!Inspect(cloud.fields).primary

\* Where the two programs choose the same field, and it is not called "time",
\* which the node takes for absolute times and this tool for offsets, ...
IsReadAlike(cloud) ==
    /\ TimeFields(cloud) # {}
    /\ NodeField(cloud) = FirstTimeField(cloud)
    /\ NodeField(cloud).name # "time"

\* ... the evidence is what the node extracts from the same clouds: the verdict
\* on a recording is about the windows the monitor judged live, though roles
\* and datatypes are told from names by two functions.
WindowsAreTheNodes ==
    LET extracted == [i \in CloudsOfBag |-> PointTime!Extract(bag[i], NodeField(bag[i]))]
    IN  (\A i \in CloudsOfBag : IsReadAlike(bag[i])) =>
            windows = Selected(extracted, {i \in CloudsOfBag : extracted[i] # NoScan})

\* The same of every cloud with a time field both programs support.
EveryCloudIsReadAlike ==
    \A i \in CloudsOfBag :
        TimeFields(bag[i]) # {} /\ NodeField(bag[i]) # NoField =>
            PointScan(bag[i]) = PointTime!Extract(bag[i], NodeField(bag[i]))

\* README: "JSON is the primary machine-readable artifact.": a call that
\* succeeded left all of it.
SuccessLeavesTheReport == exit = "success" => files.json = report

\* README, Result interpretation: "WARNING - suspicious but non-critical
\* evidence was detected": some scan of the dataset can be deskewed.
WarningIsNotCritical ==
    Judged /\ report.verdict.health = "WARNING" => report.coverage.ok > 0

\* README, Result interpretation: "OK - temporal checks passed": for a cloud
\* whose point times could not be read no check was made.
OkMeansEveryCloudWasChecked ==
    Judged /\ report.verdict.health = "OK" => tally.estimated = tally.total
=============================================================================
