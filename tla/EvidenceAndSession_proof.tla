----------------------- MODULE EvidenceAndSession_proof -----------------------
(***************************************************************************)
(* Proofs about ScanEvidence for every sensor, retention, margin and       *)
(* stream of samples.  The samples the buffer takes come in order, so      *)
(* pruning its front keeps exactly the recent ones; a window is never      *)
(* shorter than one period of the sensor, so it contains the true scan.    *)
(* Then what the directory of a session guarantees, for any number of      *)
(* calls, any command lines, and any files of which a failure may go       *)
(* unseen; and what the configuration of the node satisfies, that of a     *)
(* generated session too.                                                  *)
(***************************************************************************)
EXTENDS ScanEvidence, Session, NodeParameters, Algorithms_proof

BufferType ==
    /\ buffer \in [samples : Seq(Int), dropped : Nat]
    /\ accepted \in Seq(Int)

\* Headers are those of scans, and windows are no shorter than a scan.
EstimateInv ==
    /\ previous \in {NoStamp} \cup {HeaderOf(k) : k \in 0 .. NumScans - 1}
    /\ \A j \in Judged :
          /\ j.scan \in 0 .. NumScans - 1
          /\ j.estimate.window \in [start : Int, end : Int]
    /\ WindowCoversScan

\* What was found ok stays interpolable: accepted samples are never forgotten.
EvidenceInv ==
    \A j \in Judged :
        j.verdict = "ok" =>
            \A t \in j.estimate.window.start + MaxMissingPrefix
                     .. j.estimate.window.end - MaxMissingSuffix :
                Interpolable(t)

BufferInv == BufferType /\ Ordered(accepted) /\ IsRecent(buffer.samples, accepted)
ScanInv == BufferInv /\ EstimateInv /\ EvidenceInv

-----------------------------------------------------------------------------
(* The buffer *)

LEMMA BufferTypeHolds == ASSUME BufferInv, [SensorNext]_sensorVars PROVE BufferInv'
<1>1. /\ buffer \in [samples : Seq(Int), dropped : Nat]
      /\ accepted \in Seq(Int)
      /\ Ordered(accepted)
      /\ IsRecent(buffer.samples, accepted)
  BY DEF BufferInv, BufferType
<1>2. CASE UNCHANGED <<buffer, accepted>>
  BY <1>1, <1>2 DEF BufferInv, BufferType
<1>3. ASSUME NEW stamp \in Stamps, AddSample(stamp) PROVE BufferInv'
  <2>1. stamp \in Int
    BY SensorAssumption
  <2>2. buffer' = Add(buffer, stamp)
    BY <1>3 DEF AddSample
  <2>3. CASE buffer.samples # <<>> /\ stamp < Back(buffer)
    <3>1. buffer' = [buffer EXCEPT !.dropped = @ + 1]
      BY <2>2, <2>3 DEF Add
    <3>2. buffer'.samples = buffer.samples /\ buffer'.dropped = buffer.dropped + 1
      BY <1>1, <3>1
    <3>3. accepted' = accepted /\ buffer' \in [samples : Seq(Int), dropped : Nat]
      BY <1>1, <1>3, <3>1, <3>2, SMTT(30) DEF AddSample
    <3> QED  BY <1>1, <3>2, <3>3 DEF BufferInv, BufferType
  <2>4. CASE ~ (buffer.samples # <<>> /\ stamp < Back(buffer))
    <3> DEFINE new == PruneOlderThan(Append(buffer.samples, stamp), stamp - Retention)
    <3>1. buffer' = [buffer EXCEPT !.samples = new]
      BY <2>2, <2>4 DEF Add
    <3>2. buffer'.samples = new /\ buffer'.dropped = buffer.dropped
      <4> HIDE DEF new
      <4> QED  BY <1>1, <3>1
    <3>3. accepted' = Append(accepted, stamp)
      BY <1>3, <3>2 DEF AddSample
    <3>4. accepted # <<>> => accepted[Len(accepted)] <= stamp
      BY <1>1, <2>1, <2>4, LastIsBack DEF Back
    <3>5. Ordered(accepted') /\ new \in Seq(Int) /\ IsRecent(new, accepted')
      BY <1>1, <2>1, <3>3, <3>4, AddKeepsRecent
    <3>6. accepted' \in Seq(Int) /\ buffer' \in [samples : Seq(Int), dropped : Nat]
      <4>1. accepted' \in Seq(Int)
        BY <1>1, <2>1, <3>3
      <4> HIDE DEF new
      <4>2. buffer' \in [samples : Seq(Int), dropped : Nat]
        BY <1>1, <3>1, <3>5
      <4> QED  BY <4>1, <4>2
    <3> HIDE DEF new
    <3> QED  BY <3>2, <3>5, <3>6 DEF BufferInv, BufferType
  <2> QED  BY <2>3, <2>4
<1>4. ASSUME NEW k \in 0 .. NumScans - 1, ReceiveCloud(k) PROVE UNCHANGED <<buffer, accepted>>
  BY <1>4 DEF ReceiveCloud
<1> QED  BY <1>2, <1>3, <1>4 DEF SensorNext, sensorVars

-----------------------------------------------------------------------------
(* The window *)

\* A window about the header of a scan that is long enough contains the scan.
LEMMA LongWindowCoversScan ==
    ASSUME NEW k \in 0 .. NumScans - 1, NEW duration \in Nat, duration >= Period
    PROVE  LET window == BuildLidarScanWindow(HeaderOf(k), duration)
           IN  /\ window \in [start : Int, end : Int]
               /\ window.start <= TrueScan(k).start
               /\ window.end >= TrueScan(k).end
<1> DEFINE begin == k * Period
<1>1. /\ Period \in Nat \ {0} /\ begin \in Int /\ (k + 1) * Period = begin + Period
      /\ StampPolicy = "scan_middle" => Period % 2 = 0
  BY SensorAssumption
<1>2. StampPolicy \in {"scan_start", "scan_middle", "scan_end"}
  BY ScanWindowAssumption DEF StampPolicies
<1>3. TrueScan(k) = [start |-> begin, end |-> begin + Period]
  BY <1>1 DEF TrueScan
<1> HIDE DEF begin
<1>4. CASE StampPolicy = "scan_start"
  <2>1. HeaderOf(k) = begin
    BY <1>4 DEF HeaderOf, begin
  <2>2. BuildLidarScanWindow(HeaderOf(k), duration) = [start |-> begin, end |-> begin + duration]
    BY <1>4, <2>1 DEF BuildLidarScanWindow
  <2> QED  BY <1>1, <1>3, <2>2
<1>5. CASE StampPolicy = "scan_middle"
  <2>1. HeaderOf(k) = begin + Period \div 2
    BY <1>5 DEF HeaderOf, begin
  <2>2. BuildLidarScanWindow(HeaderOf(k), duration)
          = [start |-> (begin + Period \div 2) - (duration \div 2),
             end   |-> (begin + Period \div 2) + (duration \div 2)]
    BY <1>5, <2>1 DEF BuildLidarScanWindow
  <2>3. /\ Period \div 2 \in Int /\ duration \div 2 \in Int
        /\ 2 * (Period \div 2) = Period /\ duration \div 2 >= Period \div 2
    BY <1>1, <1>5
  <2> QED  BY <1>1, <1>3, <2>2, <2>3
<1>6. CASE StampPolicy = "scan_end"
  <2>1. HeaderOf(k) = begin + Period
    BY <1>1, <1>6 DEF HeaderOf, begin
  <2>2. BuildLidarScanWindow(HeaderOf(k), duration)
          = [start |-> (begin + Period) - duration, end |-> begin + Period]
    BY <1>6, <2>1 DEF BuildLidarScanWindow
  <2> QED  BY <1>1, <1>3, <2>2
<1> QED  BY <1>2, <1>4, <1>5, <1>6

LEMMA HeadersAreSpaced ==
    ASSUME NEW k \in 0 .. NumScans - 1, NEW m \in 0 .. NumScans - 1,
           HeaderOf(k) > HeaderOf(m)
    PROVE  HeaderOf(k) - HeaderOf(m) \in Nat /\ HeaderOf(k) - HeaderOf(m) >= Period
<1>1. Period \in Nat \ {0} /\ k \in Nat /\ m \in Nat
  BY SensorAssumption
<1>2. StampPolicy \in {"scan_start", "scan_middle", "scan_end"}
  BY ScanWindowAssumption DEF StampPolicies
<1>3. /\ k * Period \in Int /\ m * Period \in Int
      /\ (k + 1) * Period = k * Period + Period /\ (m + 1) * Period = m * Period + Period
  BY <1>1
<1>4. HeaderOf(k) - HeaderOf(m) = k * Period - m * Period
  <2>1. CASE StampPolicy = "scan_start"
    BY <2>1 DEF HeaderOf
  <2>2. CASE StampPolicy = "scan_middle"
    <3>1. /\ HeaderOf(k) = k * Period + Period \div 2
          /\ HeaderOf(m) = m * Period + Period \div 2
      BY <2>2 DEF HeaderOf
    <3>2. Period \div 2 \in Int
      BY <1>1
    <3> QED  BY <1>3, <3>1, <3>2
  <2>3. CASE StampPolicy = "scan_end"
    <3>1. HeaderOf(k) = (k + 1) * Period /\ HeaderOf(m) = (m + 1) * Period
      BY <2>3 DEF HeaderOf
    <3> QED  BY <1>1, <1>3, <3>1
  <2> QED  BY <1>2, <2>1, <2>2, <2>3
<1>5. HeaderOf(k) \in Int /\ HeaderOf(m) \in Int
  BY <1>1, <1>2 DEF HeaderOf
<1>6. k > m
  <2> SUFFICES ASSUME k <= m PROVE FALSE
    BY <1>1
  <2>1. k * Period <= m * Period
    BY <1>1
  <2> QED  BY <1>3, <1>4, <1>5, <2>1
<1>7. k * Period - m * Period >= Period
  <2>1. k >= m + 1
    BY <1>1, <1>6
  <2>2. k * Period >= (m + 1) * Period
    BY <1>1, <2>1
  <2> QED  BY <1>1, <1>3, <2>2
<1> QED  BY <1>1, <1>3, <1>4, <1>7

LEMMA EstimateCoversScan ==
    ASSUME NEW k \in 0 .. NumScans - 1,
           NEW before \in {NoStamp} \cup {HeaderOf(m) : m \in 0 .. NumScans - 1}
    PROVE  LET window == Estimate(before, HeaderOf(k)).window
           IN  /\ window \in [start : Int, end : Int]
               /\ window.start <= TrueScan(k).start
               /\ window.end >= TrueScan(k).end
<1>1. CASE UsablePeriod(before, HeaderOf(k))
  <2> DEFINE duration == HeaderOf(k) - before
  <2>1. PICK m \in 0 .. NumScans - 1 : before = HeaderOf(m)
    BY <1>1 DEF UsablePeriod
  <2>2. HeaderOf(m) \in Int /\ HeaderOf(k) \in Int
    <3>1. \A n \in 0 .. NumScans - 1 : HeaderOf(n) \in Int
      BY SensorAssumption, ScanWindowAssumption DEF HeaderOf, StampPolicies
    <3> QED  BY <3>1
  <2>3. HeaderOf(k) > HeaderOf(m)
    BY <1>1, <2>1, <2>2 DEF UsablePeriod
  <2>4. duration \in Nat /\ duration >= Period
    BY <2>1, <2>3, HeadersAreSpaced
  <2>5. Estimate(before, HeaderOf(k)).window = BuildLidarScanWindow(HeaderOf(k), duration)
    BY <1>1 DEF Estimate
  <2> HIDE DEF duration
  <2> QED  BY <2>4, <2>5, LongWindowCoversScan
<1>2. CASE ~ UsablePeriod(before, HeaderOf(k))
  <2>1. FallbackScanDuration \in Nat /\ FallbackScanDuration >= Period
    BY SensorAssumption, ScanWindowAssumption
  <2>2. Estimate(before, HeaderOf(k)).window = BuildLidarScanWindow(HeaderOf(k), FallbackScanDuration)
    BY <1>2 DEF Estimate
  <2> QED  BY <2>1, <2>2, LongWindowCoversScan
<1> QED  BY <1>1, <1>2

-----------------------------------------------------------------------------
(* The invariant *)

\* What a step that receives a cloud leaves in judged.
LEMMA NewlyJudged ==
    ASSUME NEW k \in 0 .. NumScans - 1, ReceiveCloud(k)
    PROVE  /\ Judged' # {}
           /\ \A j \in Judged' :
                /\ j.scan = k
                /\ j.estimate = Estimate(previous, HeaderOf(k))
                /\ j.verdict = Verdict(Estimate(previous, HeaderOf(k)).window, buffer.samples)
<1> DEFINE estimate == Estimate(previous, HeaderOf(k))
           result == [scan     |-> k,
                      before   |-> {j.scan : j \in {judged[i] : i \in DOMAIN judged}},
                      estimate |-> estimate,
                      verdict  |-> Verdict(estimate.window, buffer.samples)]
<1>1. judged' = <<result>>
  BY DEF ReceiveCloud
<1>2. /\ result.scan = k /\ result.estimate = estimate
      /\ result.verdict = Verdict(estimate.window, buffer.samples)
  OBVIOUS
<1> HIDE DEF result, estimate
<1>3. Judged' = {result}
  BY <1>1 DEF Judged
<1> QED  BY <1>2, <1>3 DEF estimate

LEMMA EstimateHolds == ASSUME EstimateInv, [SensorNext]_sensorVars PROVE EstimateInv'
<1>1. CASE UNCHANGED <<previous, judged>>
  BY <1>1 DEF EstimateInv, WindowCoversScan, Judged
<1>2. ASSUME NEW k \in 0 .. NumScans - 1, ReceiveCloud(k) PROVE EstimateInv'
  <2>1. previous' = HeaderOf(k)
    BY <1>2 DEF ReceiveCloud
  <2>2. previous \in {NoStamp} \cup {HeaderOf(m) : m \in 0 .. NumScans - 1}
    BY DEF EstimateInv
  <2>3. \A j \in Judged' : j.scan = k /\ j.estimate = Estimate(previous, HeaderOf(k))
    BY <1>2, NewlyJudged
  <2>4. LET window == Estimate(previous, HeaderOf(k)).window
        IN  /\ window \in [start : Int, end : Int]
            /\ window.start <= TrueScan(k).start
            /\ window.end >= TrueScan(k).end
    BY <2>2, EstimateCoversScan
  <2> QED  BY <2>1, <2>3, <2>4 DEF EstimateInv, WindowCoversScan
<1>3. ASSUME NEW stamp \in Stamps, AddSample(stamp) PROVE UNCHANGED <<previous, judged>>
  BY <1>3 DEF AddSample
<1> QED  BY <1>1, <1>2, <1>3 DEF SensorNext, sensorVars

\* No step forgets an accepted sample.
LEMMA AcceptedGrows ==
    ASSUME BufferInv, [SensorNext]_sensorVars, NEW t, Interpolable(t)
    PROVE  Interpolable(t)'
<1>1. CASE accepted' = accepted
  BY <1>1 DEF Interpolable
<1>2. ASSUME NEW stamp \in Stamps, AddSample(stamp), accepted' # accepted
      PROVE  Interpolable(t)'
  <2>1. accepted' = Append(accepted, stamp) /\ accepted \in Seq(Int)
    BY <1>2 DEF AddSample, BufferInv, BufferType
  <2>2. stamp \in Int
    BY SensorAssumption
  <2>3. {accepted[i] : i \in 1 .. Len(accepted)} \subseteq {accepted'[i] : i \in 1 .. Len(accepted')}
    BY <2>1, <2>2
  <2> QED  BY <2>3 DEF Interpolable
<1> QED  BY <1>1, <1>2 DEF SensorNext, ReceiveCloud, sensorVars

\* A buffer holds accepted samples only.
LEMMA KeptWereAccepted ==
    ASSUME NEW all \in Seq(Int), NEW samples \in Seq(Int), IsRecent(samples, all)
    PROVE  {samples[i] : i \in 1 .. Len(samples)} \subseteq {all[i] : i \in 1 .. Len(all)}
<1>1. PICK n \in 0 .. Len(all) : samples = SubSeq(all, n + 1, Len(all))
  BY DEF IsRecent
<1>2. ASSUME NEW i \in 1 .. Len(samples)
      PROVE  n + i \in 1 .. Len(all) /\ samples[i] = all[n + i]
  <2>1. Len(samples) = Len(all) - n /\ Len(all) \in Nat
    BY <1>1
  <2>2. /\ n + 1 \in Int /\ i \in 1 .. Len(all) - (n + 1) + 1
        /\ (n + 1) + i - 1 = n + i /\ n + i \in 1 .. Len(all)
    BY <2>1
  <2>3. \A m \in n + 1 .. Len(all) : all[m] \in Int
    BY <2>1
  <2>4. SubSeq(all, n + 1, Len(all))[i] = all[(n + 1) + i - 1]
    BY <2>1, <2>2, <2>3, SubSeqProperties
  <2> QED  BY <1>1, <2>2, <2>4
<1> QED  BY <1>2

LEMMA EvidenceHolds ==
    ASSUME BufferInv, EstimateInv, EvidenceInv, [SensorNext]_sensorVars
    PROVE  EvidenceInv'
<1>1. CASE judged' = judged
  BY <1>1, AcceptedGrows DEF EvidenceInv, Judged
<1>2. ASSUME NEW k \in 0 .. NumScans - 1, ReceiveCloud(k) PROVE EvidenceInv'
  <2> DEFINE window == Estimate(previous, HeaderOf(k)).window
             stamps == {buffer.samples[i] : i \in 1 .. Len(buffer.samples)}
             all == {accepted[i] : i \in 1 .. Len(accepted)}
  <2>1. \A j \in Judged' : j.estimate.window = window /\ j.verdict = Analyze(window, stamps)
    BY <1>2, NewlyJudged DEF Verdict
  <2>2. accepted' = accepted
    BY <1>2 DEF ReceiveCloud
  <2>3. buffer.samples \in Seq(Int) /\ accepted \in Seq(Int) /\ IsRecent(buffer.samples, accepted)
    BY DEF BufferInv, BufferType
  <2>4. stamps \in SUBSET Int /\ stamps \subseteq all
    <3>1. stamps \subseteq all
      BY <2>3, KeptWereAccepted
    <3>2. \A i \in 1 .. Len(buffer.samples) : buffer.samples[i] \in Int
      BY <2>3
    <3> QED  BY <3>1, <3>2
  <2>5. window \in [start : Int, end : Int]
    BY EstimateCoversScan DEF EstimateInv
  <2> HIDE DEF window, stamps, all
  <2>6. ASSUME Analyze(window, stamps) = "ok",
               NEW t \in window.start + MaxMissingPrefix .. window.end - MaxMissingSuffix
        PROVE  \E a, b \in all : a <= t /\ t <= b /\ b - a <= MaxInternalGap
    BY <2>4, <2>5, <2>6, OkWindowIsInterpolable
  <2>7. \A t : Interpolable(t)' <=> \E a, b \in all : a <= t /\ t <= b /\ b - a <= MaxInternalGap
    BY <2>2 DEF Interpolable, all
  <2> QED  BY <2>1, <2>6, <2>7 DEF EvidenceInv
<1>3. ASSUME NEW stamp \in Stamps, AddSample(stamp) PROVE judged' = judged
  BY <1>3 DEF AddSample
<1> QED  BY <1>1, <1>2, <1>3 DEF SensorNext, sensorVars

LEMMA ScanInvHolds == SensorSpec => []ScanInv
<1>1. SensorInit => ScanInv
  <2> SUFFICES ASSUME SensorInit PROVE ScanInv
    OBVIOUS
  <2>1. BufferInv
    BY DEF SensorInit, NewBuffer, BufferInv, BufferType, Ordered, IsRecent
  <2>2. Judged = {}
    BY DEF SensorInit, Judged
  <2>3. EstimateInv /\ EvidenceInv
    BY <2>2 DEF SensorInit, EstimateInv, EvidenceInv, WindowCoversScan
  <2> QED  BY <2>1, <2>3 DEF ScanInv
<1>2. ScanInv /\ [SensorNext]_sensorVars => ScanInv'
  BY BufferTypeHolds, EstimateHolds, EvidenceHolds DEF ScanInv
<1> QED  BY <1>1, <1>2, PTL DEF SensorSpec

\* For any retention and any stream of samples, late ones included, the buffer
\* is exactly the accepted samples of the last Retention (ImuSampleBuffer).
THEOREM BufferIsRecent == SensorSpec => []BufferIsRecentAccepted
<1>1. ScanInv => BufferIsRecentAccepted
  BY DEF ScanInv, BufferInv, IsRecent, BufferIsRecentAccepted, Newest
<1> QED  BY <1>1, ScanInvHolds, PTL

\* For any scan period, stamp policy and bounds on the measured period, the
\* window of a cloud contains its scan, whatever clouds went before it
\* (LidarScanWindowEstimator::Estimate).
THEOREM WindowsCoverScans == SensorSpec => []WindowCoversScan
<1>1. ScanInv => WindowCoversScan
  BY DEF ScanInv, EstimateInv
<1> QED  BY <1>1, ScanInvHolds, PTL

\* Whatever the margins and the retention, a cloud judged "ok" has the samples
\* that its true scan needs (Analyze on the pruned buffer).
THEOREM OkScansAreInterpolable == SensorSpec => []OkScanIsInterpolable
<1>1. ASSUME ScanInv PROVE OkScanIsInterpolable
  <2> SUFFICES ASSUME NEW j \in Judged, j.verdict = "ok",
                      NEW t \in TrueScan(j.scan).start + MaxMissingPrefix
                                .. TrueScan(j.scan).end - MaxMissingSuffix
               PROVE  Interpolable(t)
    BY DEF OkScanIsInterpolable
  <2> DEFINE window == j.estimate.window
             scan == TrueScan(j.scan)
  <2>1. /\ window \in [start : Int, end : Int]
        /\ window.start <= scan.start /\ scan.end <= window.end
    BY <1>1 DEF ScanInv, EstimateInv, WindowCoversScan
  <2>2. scan \in [start : Int, end : Int]
    <3>1. j.scan \in Int /\ Period \in Int
      BY <1>1, SensorAssumption DEF ScanInv, EstimateInv
    <3> QED  BY <3>1 DEF TrueScan
  <2> HIDE DEF window, scan
  <2>3. t \in scan.start + MaxMissingPrefix .. scan.end - MaxMissingSuffix
    BY DEF scan
  <2>4. t \in window.start + MaxMissingPrefix .. window.end - MaxMissingSuffix
    BY <2>1, <2>2, <2>3, CoverageAssumption
  <2> QED  BY <1>1, <2>4 DEF ScanInv, EvidenceInv, window
<1> QED  BY <1>1, ScanInvHolds, PTL

-----------------------------------------------------------------------------
(* Later samples *)

\* A sample after all others, within a window judged "ok" or not, leaves the
\* verdict as it is when the margin at the end hides no gap.
LEMMA LaterSampleKeepsOk ==
    ASSUME NEW window \in [start : Int, end : Int], NEW stamps \in SUBSET Int,
           NEW more \in SUBSET Int, NEW stamp \in Int,
           MaxMissingSuffix <= MaxInternalGap,
           Analyze(window, stamps) = "ok",
           \A t \in stamps : t <= stamp,
           StampsInside(window, more) \subseteq StampsInside(window, stamps) \cup {stamp},
           StampsInside(window, stamps) \subseteq more
    PROVE  Analyze(window, more) = "ok"
<1> DEFINE old == StampsInside(window, stamps)
           new == StampsInside(window, more)
<1>1. /\ ~ (window.end <= window.start) /\ old # {}
      /\ ~ MissingPrefix(window, old)
      /\ ~ MissingSuffix(window, old)
      /\ ~ HasInternalGap(old)
  BY DEF Analyze
<1>2. /\ old \in SUBSET Int /\ new \in SUBSET Int
      /\ old \subseteq new /\ new \subseteq old \cup {stamp}
      /\ \A t \in old : t <= stamp
      /\ \A t \in new : t <= window.end
  BY DEF StampsInside, Contains
<1>3. window.end \in Int
  OBVIOUS
<1> HIDE DEF old, new
<1>4. new # {} /\ ~ MissingPrefix(window, new) /\ ~ MissingSuffix(window, new)
  BY <1>1, <1>2 DEF MissingPrefix, MissingSuffix
<1>5. ~ HasInternalGap(new)
  <2> SUFFICES ASSUME NEW a \in new, NEW b \in new, b - a > MaxInternalGap,
                      ~ \E t \in new : a < t /\ t < b
               PROVE  FALSE
    BY DEF HasInternalGap
  <2>1. a \in Int /\ b \in Int /\ stamp \in Int /\ MaxInternalGap \in Nat /\ MaxMissingSuffix \in Nat
    BY <1>2, CoverageAssumption
  <2>2. a < b
    BY <2>1
  <2>3. ~ (a \in old /\ b \in old)
    BY <1>1, <1>2 DEF HasInternalGap
  <2>4. a \in old /\ b = stamp
    BY <1>2, <2>1, <2>2, <2>3
  <2>5. PICK late \in old : window.end - late <= MaxMissingSuffix
    BY <1>1, <1>2, <1>3, CoverageAssumption DEF MissingSuffix
  <2>6. late \in Int /\ late \in new /\ late <= stamp /\ late # stamp /\ b <= window.end
    BY <1>2, <2>3, <2>4, <2>5
  <2>7. late <= a
    BY <2>1, <2>4, <2>6
  <2> QED  BY <1>3, <2>1, <2>5, <2>6, <2>7
<1> QED  BY <1>1, <1>4, <1>5 DEF Analyze, new

\* What AddSample does with a sample that is not late.
LEMMA AddInOrder ==
    ASSUME BufferInv, NEW stamp \in Stamps, AddSample(stamp),
           ~ (buffer.samples # <<>> /\ stamp < Back(buffer))
    PROVE  /\ buffer'.samples = PruneOlderThan(Append(buffer.samples, stamp), stamp - Retention)
           /\ accepted' = Append(accepted, stamp)
<1> DEFINE new == PruneOlderThan(Append(buffer.samples, stamp), stamp - Retention)
<1>1. buffer \in [samples : Seq(Int), dropped : Nat]
  BY DEF BufferInv, BufferType
<1>2. buffer' = [buffer EXCEPT !.samples = new]
  BY DEF AddSample, Add
<1>3. buffer'.samples = new /\ buffer'.dropped = buffer.dropped
  <2> HIDE DEF new
  <2> QED  BY <1>1, <1>2
<1> QED  BY <1>3 DEF AddSample

LEMMA EarlierSamples ==
    ASSUME BufferInv, NEW stamp \in Int,
           ~ (buffer.samples # <<>> /\ stamp < Back(buffer)),
           NEW t \in {buffer.samples[i] : i \in 1 .. Len(buffer.samples)}
    PROVE  t <= stamp
<1>1. /\ buffer.samples \in Seq(Int) /\ accepted \in Seq(Int)
      /\ Ordered(accepted) /\ IsRecent(buffer.samples, accepted)
  BY DEF BufferInv, BufferType
<1>2. PICK i \in 1 .. Len(accepted) : t = accepted[i]
  BY <1>1, KeptWereAccepted
<1>3. accepted # <<>> /\ Len(accepted) \in 1 .. Len(accepted)
  BY <1>1
<1>4. buffer.samples # <<>> /\ Back(buffer) = accepted[Len(accepted)]
  BY <1>1, <1>3, LastIsBack DEF Back
<1>5. accepted[i] <= accepted[Len(accepted)]
  BY <1>1, <1>3 DEF Ordered
<1>6. t \in Int /\ accepted[Len(accepted)] \in Int
  BY <1>1, <1>2, <1>3
<1> QED  BY <1>2, <1>4, <1>5, <1>6

\* Judging later is never worse: a window judged "ok" by the buffer is judged
\* "ok" by every later one that still reaches back to its start, unless the
\* margin at its end is wider than the allowed gap (AnalyzeStamps, Add).
THEOREM LaterIsNotWorse == SensorSpec => CoveredScanStaysCovered
<1> DEFINE StaysCovered ==
        \A j \in Judged :
          /\ MaxMissingSuffix <= MaxInternalGap
          /\ Verdict(j.estimate.window, buffer.samples) = "ok"
          /\ accepted' # accepted => j.estimate.window.start >= Newest' - Retention
          => Verdict(j.estimate.window, buffer'.samples) = "ok"
<1>1. ASSUME ScanInv, [SensorNext]_sensorVars PROVE StaysCovered
  <2>1. CASE buffer'.samples = buffer.samples
    BY <2>1
  <2>2. ASSUME NEW stamp \in Stamps, AddSample(stamp), buffer'.samples # buffer.samples
        PROVE  StaysCovered
    <3> SUFFICES ASSUME NEW j \in Judged,
                        MaxMissingSuffix <= MaxInternalGap,
                        Verdict(j.estimate.window, buffer.samples) = "ok",
                        accepted' # accepted => j.estimate.window.start >= Newest' - Retention
                 PROVE  Verdict(j.estimate.window, buffer'.samples) = "ok"
      OBVIOUS
    <3> DEFINE window == j.estimate.window
               grown == Append(buffer.samples, stamp)
               stamps == {buffer.samples[i] : i \in 1 .. Len(buffer.samples)}
               more == {buffer'.samples[i] : i \in 1 .. Len(buffer'.samples)}
    <3>1. /\ buffer \in [samples : Seq(Int), dropped : Nat]
          /\ accepted \in Seq(Int) /\ BufferInv
      BY <1>1 DEF ScanInv, BufferInv, BufferType
    <3>2. stamp \in Int /\ Retention \in Nat
      BY SensorAssumption, RetentionAssumption
    <3>3. ~ (buffer.samples # <<>> /\ stamp < Back(buffer))
      <4> SUFFICES ASSUME buffer.samples # <<>>, stamp < Back(buffer) PROVE FALSE
        OBVIOUS
      <4>1. buffer' = [buffer EXCEPT !.dropped = @ + 1]
        BY <2>2 DEF AddSample, Add
      <4> QED  BY <2>2, <3>1, <4>1
    <3>4. /\ buffer'.samples = PruneOlderThan(grown, stamp - Retention)
          /\ accepted' = Append(accepted, stamp)
      BY <2>2, <3>1, <3>3, AddInOrder
    <3>5. window.start >= stamp - Retention
      <4>1. Len(accepted') = Len(accepted) + 1 /\ accepted'[Len(accepted')] = stamp
        BY <3>1, <3>2, <3>4
      <4>2. accepted' # accepted
        BY <3>1, <4>1
      <4> QED  BY <4>1, <4>2 DEF Newest
    <3>6. window \in [start : Int, end : Int]
      BY <1>1 DEF ScanInv, EstimateInv
    <3>7. /\ grown \in Seq(Int) /\ stamps \in SUBSET Int
          /\ {grown[i] : i \in 1 .. Len(grown)} = stamps \cup {stamp}
      <4>1. buffer.samples \in Seq(Int)
        BY <3>1
      <4>2. /\ grown \in Seq(Int) /\ Len(grown) = Len(buffer.samples) + 1
            /\ grown[Len(buffer.samples) + 1] = stamp
            /\ \A i \in 1 .. Len(buffer.samples) : grown[i] = buffer.samples[i]
            /\ Len(buffer.samples) \in Nat
        BY <3>2, <4>1
      <4> HIDE DEF grown
      <4>3. 1 .. Len(grown) = (1 .. Len(buffer.samples)) \cup {Len(buffer.samples) + 1}
        BY <4>2
      <4>4. {grown[i] : i \in 1 .. Len(grown)} = stamps \cup {stamp}
        <5>1. \A i \in 1 .. Len(grown) : grown[i] \in stamps \cup {stamp}
          BY <4>2, <4>3
        <5>2. \A t \in stamps : \E i \in 1 .. Len(grown) : t = grown[i]
          BY <4>2, <4>3
        <5>3. \E i \in 1 .. Len(grown) : stamp = grown[i]
          BY <4>2, <4>3
        <5> HIDE DEF stamps
        <5> QED BY <5>1, <5>2, <5>3
      <4>5. \A i \in 1 .. Len(buffer.samples) : buffer.samples[i] \in Int
        BY <4>1
      <4> QED  BY <4>2, <4>4, <4>5
    <3>8. /\ more \subseteq stamps \cup {stamp}
          /\ \A t \in stamps : t >= stamp - Retention => t \in more
      <4>1. stamp - Retention \in Int
        BY <3>2
      <4> HIDE DEF grown
      <4>2. /\ more \subseteq {grown[i] : i \in 1 .. Len(grown)}
            /\ \A i \in 1 .. Len(grown) : grown[i] >= stamp - Retention => grown[i] \in more
        <5> DEFINE pruned == PruneOlderThan(grown, stamp - Retention)
        <5>1. /\ {pruned[i] : i \in 1 .. Len(pruned)} \subseteq {grown[i] : i \in 1 .. Len(grown)}
              /\ \A i \in 1 .. Len(grown) :
                   grown[i] >= stamp - Retention => grown[i] \in {pruned[m] : m \in 1 .. Len(pruned)}
          BY <3>7, <4>1, PrunedSamples
        <5>2. buffer'.samples = pruned
          BY <3>4
        <5> HIDE DEF pruned
        <5> QED  BY <5>1, <5>2
      <4>3. \A t \in stamps : \E i \in 1 .. Len(grown) : t = grown[i]
        <5> HIDE DEF stamps
        <5> QED  BY <3>7
      <4> HIDE DEF stamps, more
      <4> QED  BY <3>7, <4>2, <4>3
    <3>9. \A t \in stamps : t <= stamp
      BY <3>1, <3>2, <3>3, EarlierSamples
    <3>10. Analyze(window, stamps) = "ok"
      BY DEF Verdict
    <3> HIDE DEF window, stamps, more
    <3>11. more \in SUBSET Int
      BY <3>2, <3>7, <3>8
    <3>12. /\ StampsInside(window, more) \subseteq StampsInside(window, stamps) \cup {stamp}
           /\ StampsInside(window, stamps) \subseteq more
      <4>1. ASSUME NEW t \in stamps, Contains(window, t) PROVE t \in more
        BY <3>2, <3>5, <3>6, <3>7, <3>8, <4>1 DEF Contains
      <4> QED  BY <3>8, <4>1 DEF StampsInside
    <3>13. Analyze(window, more) = "ok"
      BY <3>2, <3>6, <3>7, <3>9, <3>10, <3>11, <3>12, LaterSampleKeepsOk
    <3> QED  BY <3>13 DEF Verdict, window, more
  <2>3. ASSUME NEW k \in 0 .. NumScans - 1, ReceiveCloud(k)
        PROVE  buffer'.samples = buffer.samples
    BY <2>3 DEF ReceiveCloud
  <2>4. CASE UNCHANGED sensorVars
    BY <2>1, <2>4 DEF sensorVars
  <2> QED  BY <1>1, <2>1, <2>2, <2>3, <2>4 DEF SensorNext
<1>2. ScanInv /\ [SensorNext]_sensorVars => [StaysCovered]_sensorVars
  BY <1>1
<1>3. SensorSpec => [][StaysCovered]_sensorVars
  BY <1>2, ScanInvHolds, PTL DEF SensorSpec
<1> QED  BY <1>3 DEF CoveredScanStaysCovered
-----------------------------------------------------------------------------
(* The directory of a session *)

\* The command is where its kind of command can be.
Place ==
    /\ command = NoCommand => file = SessionYaml /\ phase = "open" /\ unopened = {}
    /\ command # NoCommand => status = Busy
    /\ command = "init" => /\ file \in Generated
                           /\ phase \in {"open", "write", "permit"}
                           /\ phase = "permit" => file \in Scripts
    /\ command = "summarize" => /\ file \in Artifacts
                                /\ phase = "read" <=> file \in Logs
                                /\ phase \in {"open", "write", "read"}

\* The generated files were written in their order, each after the one before
\* was complete, unless a failure went unseen, and executable.
Kept ==
    /\ \A f \in whole : writer[f] # Absent
    /\ \A f, g \in Generated : f < g => writer[g] <= writer[f]
    /\ \A f, g \in Generated :
          f < g /\ writer[f] = writer[g] /\ writer[f] # Absent =>
              /\ f \in whole \cup silent
              /\ f \in Scripts => f \in executable
    /\ status = 0 /\ writer[Readme] = calls => Readme \in whole \cup silent
    /\ writer[SummaryJson] <= writer[SummaryText]
    /\ \A log \in Logs \ silent : writer[SummaryText] <= writer[log]

\* What init has done so far.
InitProgress ==
    command = "init" =>
        /\ \A f \in Generated :
              f < file => /\ writer[f] = calls
                          /\ f \in whole \cup silent
                          /\ f \in Scripts => f \in executable
        /\ \A f \in Generated : f > file => writer[f] < calls
        /\ phase = "open" => writer[file] < calls
        /\ phase # "open" => writer[file] = calls
        /\ phase = "permit" => file \in whole \cup silent

\* What summarize has done so far.
SummaryProgress ==
    command = "summarize" =>
        /\ \A f \in Generated : writer[f] < calls
        /\ file # Timeline => \A log \in Logs \ silent : writer[log] = calls
        /\ file = Decisions => /\ \A log \in Logs \ unopened : writer[log] = calls
                               /\ unopened \subseteq silent
        /\ phase = "write" => writer[file] = calls
        /\ file \in {SummaryText, SummaryJson} => Logs \subseteq whole \cup silent
        /\ file = SummaryJson => /\ writer[SummaryText] = calls
                                /\ SummaryText \in whole \cup silent

DirectoryInv == DirectoryTypeOK /\ Place /\ Kept /\ InitProgress /\ SummaryProgress
-----------------------------------------------------------------------------
(* Every operation on the directory keeps the invariant. *)

USE DEF Files, Generated, Scripts, Logs, Artifacts, SessionYaml, RunTemporalMonitor,
        RunAllObserve, RunFoxgloveBridge, Readme, Timeline, Decisions, SummaryText,
        SummaryJson, Absent, Older, NoCommand, Busy, Killed, DirectoryTypeOK

LEMMA InvInit == ASSUME DirectoryInit PROVE DirectoryInv
<1> USE DEF DirectoryInit
<1>1. DirectoryTypeOK OBVIOUS
<1>2. Place BY DEF Place
<1>3. Kept BY DEF Kept
<1>4. InitProgress /\ SummaryProgress BY DEF InitProgress, SummaryProgress
<1> QED BY <1>1, <1>2, <1>3, <1>4 DEF DirectoryInv

\* A call begins, or is refused.
LEMMA CallKeepsInv ==
    ASSUME DirectoryInv, NEW o, RunSessionCli(o)
    PROVE  DirectoryInv'
<1> USE DEF DirectoryInv, RunSessionCli, RunDiscover, RunInit, RunSummarize, Begin, Return,
            directory
<1>1. calls' = calls + 1 /\ UNCHANGED <<writer, whole, executable, silent>>
  OBVIOUS
<1>2. /\ command' \in {NoCommand, "init", "summarize"}
      /\ command' = NoCommand =>
            file' = SessionYaml /\ phase' = "open" /\ unopened' = {} /\ status' \in {0, 2}
      /\ command' = "init" =>
            file' = SessionYaml /\ phase' = "open" /\ unopened' = {} /\ status' = Busy
      /\ command' = "summarize" =>
            file' = Timeline /\ phase' = "read" /\ unopened' = {} /\ status' = Busy
  OBVIOUS
<1>3. \A f \in Files : writer'[f] = writer[f] /\ writer'[f] < calls'
  BY <1>1
<1>4. DirectoryTypeOK' BY <1>1, <1>2
<1>5. Place' BY <1>2 DEF Place
<1>6. Kept' BY <1>1, <1>3 DEF Kept
<1>7. InitProgress' BY <1>1, <1>2, <1>3 DEF InitProgress
<1>8. SummaryProgress' BY <1>1, <1>2, <1>3 DEF SummaryProgress
<1> QED BY <1>4, <1>5, <1>6, <1>7, <1>8

\* A call ends in between, by a failure or by a signal; or run_all_observe.sh
\* is started.
LEMMA EndKeepsInv ==
    ASSUME DirectoryInv,
           UNCHANGED <<directory, calls, silent>>,
           command' = NoCommand, file' = SessionYaml, phase' = "open", unopened' = {},
           status' \in {2, 3, Killed, Busy}
    PROVE  DirectoryInv'
<1> USE DEF DirectoryInv, directory
<1>1. DirectoryTypeOK' OBVIOUS
<1>2. Place' BY DEF Place
<1>3. Kept' BY DEF Kept
<1>4. InitProgress' /\ SummaryProgress' BY DEF InitProgress, SummaryProgress
<1> QED BY <1>1, <1>2, <1>3, <1>4

LEMMA OpenFileKeepsInv ==
    ASSUME DirectoryInv, OpenFile PROVE DirectoryInv'
<1>1. CASE Return(3) /\ UNCHANGED directory
  BY <1>1, EndKeepsInv DEF OpenFile, Return
<1>2. CASE Truncated({file}) /\ phase' = "write" /\ UNCHANGED <<command, status, file, unopened>>
  <2> USE <1>2 DEF OpenFile, DirectoryInv
  <2>1. /\ phase = "open" /\ phase' = "write"
        /\ UNCHANGED <<command, status, file, unopened, calls, silent, executable>>
    BY DEF Truncated
  <2>2. /\ whole' = whole \ {file}
        /\ writer'[file] = calls
        /\ \A f \in Files \ {file} : writer'[f] = writer[f]
        /\ \A f \in Files : writer[f] <= calls
    BY DEF Truncated
  <2>3. DirectoryTypeOK' BY <2>1, <2>2 DEF Truncated
  <2>4. Place' BY <2>1 DEF Place
  <2>5. InitProgress' BY <2>1, <2>2 DEF InitProgress, Place
  <2>6. SummaryProgress' BY <2>1, <2>2 DEF SummaryProgress, Place
  <2>7. Kept' BY <2>1, <2>2 DEF Kept, Place, InitProgress, SummaryProgress
  <2> QED BY <2>3, <2>4, <2>5, <2>6, <2>7
<1> QED BY <1>1, <1>2 DEF OpenFile

\* The next file, or the end of the call.
LEMMA AdvanceKeepsPlace ==
    ASSUME DirectoryInv, Advance, command # NoCommand, phase # "read"
    PROVE  /\ Place'
           /\ \/ /\ file \notin {Readme, SummaryJson}
                 /\ file' = file + 1 /\ phase' = "open"
                 /\ UNCHANGED <<command, status, unopened>>
              \/ /\ file \in {Readme, SummaryJson}
                 /\ command' = NoCommand /\ status' = 0
                 /\ file' = SessionYaml /\ phase' = "open" /\ unopened' = {}
BY DEF DirectoryInv, Advance, IsLast, Return, Place

LEMMA WriteFileKeepsInv ==
    ASSUME DirectoryInv, WriteFile PROVE DirectoryInv'
<1> USE DEF DirectoryInv
<1>1. /\ UNCHANGED <<writer, executable, calls>>
      /\ command # NoCommand /\ phase = "write"
  BY DEF WriteFile
<1>2. /\ whole \subseteq whole' /\ whole' \subseteq whole \cup {file}
      /\ file \in whole' \cup silent'
      /\ silent' \subseteq silent \cup {file} /\ silent \ {file} \subseteq silent'
  BY DEF WriteFile, Flushed, Unseen
<1>3. file \notin Logs /\ writer[file] = calls
  BY <1>1 DEF Place, InitProgress, SummaryProgress
<1>4. CASE file \in Scripts /\ phase' = "permit" /\ UNCHANGED <<command, status, file, unopened>>
  <2>1. DirectoryTypeOK' BY <1>1, <1>2, <1>4
  <2>2. Place' BY <1>1, <1>4 DEF Place
  <2>3. Kept' BY <1>1, <1>2, <1>3, <1>4 DEF Kept, Place
  <2>4. InitProgress' BY <1>1, <1>2, <1>3, <1>4 DEF InitProgress
  <2>5. SummaryProgress' BY <1>1, <1>4 DEF SummaryProgress, Place
  <2> QED BY <2>1, <2>2, <2>3, <2>4, <2>5
<1>5. CASE file \notin Scripts /\ Advance
  <2>1. Place' BY <1>1, <1>5, AdvanceKeepsPlace
  <2>2. CASE /\ file \notin {Readme, SummaryJson}
             /\ file' = file + 1 /\ phase' = "open"
             /\ UNCHANGED <<command, status, unopened>>
    <3>1. DirectoryTypeOK' BY <1>1, <1>2, <2>2
    <3>2. Kept' BY <1>1, <1>2, <1>3, <2>2 DEF Kept, Place
    <3>3. InitProgress' BY <1>1, <1>2, <1>3, <1>5, <2>2 DEF InitProgress, Place
    <3>4. SummaryProgress' BY <1>1, <1>2, <1>3, <2>2 DEF SummaryProgress, Place
    <3> QED BY <2>1, <3>1, <3>2, <3>3, <3>4
  <2>3. CASE /\ file \in {Readme, SummaryJson}
             /\ command' = NoCommand /\ status' = 0
             /\ file' = SessionYaml /\ phase' = "open" /\ unopened' = {}
    <3>1. DirectoryTypeOK' BY <1>1, <1>2, <2>3
    <3>2. Kept' BY <1>1, <1>2, <1>3, <2>3 DEF Kept, Place, SummaryProgress
    <3>3. InitProgress' /\ SummaryProgress' BY <2>3 DEF InitProgress, SummaryProgress
    <3> QED BY <2>1, <3>1, <3>2, <3>3
  <2> QED BY <1>1, <1>5, <2>2, <2>3, AdvanceKeepsPlace
<1> QED BY <1>4, <1>5 DEF WriteFile

LEMMA PermitScriptKeepsInv ==
    ASSUME DirectoryInv, PermitScript PROVE DirectoryInv'
<1> USE DEF DirectoryInv
<1>1. CASE Return(2) /\ UNCHANGED executable
  BY <1>1, EndKeepsInv DEF PermitScript, Return, directory
<1>2. CASE executable' = executable \cup {file} /\ Advance
  <2>1. /\ UNCHANGED <<writer, whole, calls, silent>>
        /\ command = "init" /\ phase = "permit" /\ file \in Scripts
    BY DEF PermitScript, Place
  <2>2. /\ Place' /\ file' = file + 1 /\ phase' = "open"
        /\ UNCHANGED <<command, status, unopened>>
    BY <1>2, <2>1, AdvanceKeepsPlace
  <2>3. DirectoryTypeOK' BY <1>2, <2>1, <2>2
  <2>4. Kept' BY <1>2, <2>1, <2>2 DEF Kept
  <2>5. InitProgress' BY <1>2, <2>1, <2>2 DEF InitProgress
  <2>6. SummaryProgress' BY <2>1, <2>2 DEF SummaryProgress
  <2> QED BY <2>2, <2>3, <2>4, <2>5, <2>6
<1> QED BY <1>1, <1>2 DEF PermitScript

LEMMA OpenRecordingKeepsInv ==
    ASSUME DirectoryInv, OpenRecording PROVE DirectoryInv'
<1> USE DEF DirectoryInv
<1>1. CASE Return(2) /\ UNCHANGED <<directory, silent>>
  BY <1>1, EndKeepsInv DEF OpenRecording, Return, directory
<1>2. ASSUME NEW refused \in SUBSET (Logs \cap Lossy),
             Truncated(Logs \ refused), unopened' = refused, Unseen(refused, {}),
             file' = Decisions, UNCHANGED <<command, status, phase>>
      PROVE  DirectoryInv'
  <2>1. /\ command = "summarize" /\ phase = "read" /\ file = Timeline
        /\ UNCHANGED <<calls, executable>>
    BY <1>2 DEF OpenRecording, Truncated, Place
  <2>2. /\ whole' = whole \ (Logs \ refused)
        /\ silent' = silent \cup refused
        /\ \A f \in Files \ (Logs \ refused) : writer'[f] = writer[f]
        /\ \A f \in Logs \ refused : writer'[f] = calls
    BY <1>2 DEF Truncated, Unseen
  <2>3. DirectoryTypeOK' BY <1>2, <2>1, <2>2 DEF Truncated
  <2>4. Place' BY <1>2, <2>1 DEF Place
  <2>5. Kept' BY <1>2, <2>1, <2>2 DEF Kept
  <2>6. InitProgress' BY <1>2, <2>1 DEF InitProgress
  <2>7. SummaryProgress' BY <1>2, <2>1, <2>2 DEF SummaryProgress
  <2> QED BY <2>3, <2>4, <2>5, <2>6, <2>7
<1> QED BY <1>1, <1>2 DEF OpenRecording

LEMMA ReadRecordingKeepsInv ==
    ASSUME DirectoryInv, ReadRecording PROVE DirectoryInv'
<1> USE DEF DirectoryInv
<1>1. CASE Return(2) /\ UNCHANGED <<whole, silent>>
  BY <1>1, EndKeepsInv DEF ReadRecording, Return, directory
<1>2. CASE /\ Flushed(Logs \ unopened)
           /\ file' = SummaryText /\ phase' = "open"
           /\ UNCHANGED <<command, status, unopened>>
  <2>1. /\ command = "summarize" /\ phase = "read" /\ file = Decisions
        /\ UNCHANGED <<writer, calls, executable>>
    BY DEF ReadRecording, Place
  <2>2. /\ whole \subseteq whole' /\ whole' \subseteq whole \cup (Logs \ unopened)
        /\ silent \ (Logs \ unopened) \subseteq silent'
        /\ silent' \subseteq silent \cup (Logs \ unopened)
    BY <1>2 DEF Flushed, Unseen
  <2>3. /\ \A log \in Logs \ silent' : writer[log] = calls
        /\ Logs \subseteq whole' \cup silent'
    BY <1>2, <2>1, <2>2 DEF SummaryProgress, Flushed, Unseen
  <2>4. DirectoryTypeOK' BY <1>2, <2>1, <2>2
  <2>5. Place' BY <1>2, <2>1 DEF Place
  <2>6. Kept' BY <1>2, <2>1, <2>2, <2>3 DEF Kept, SummaryProgress
  <2>7. InitProgress' BY <1>2, <2>1 DEF InitProgress
  <2>8. SummaryProgress' BY <1>2, <2>1, <2>3 DEF SummaryProgress
  <2> QED BY <2>4, <2>5, <2>6, <2>7, <2>8
<1> QED BY <1>1, <1>2 DEF ReadRecording

LEMMA ToolStepKeepsInv ==
    ASSUME DirectoryInv, ToolStep PROVE DirectoryInv'
BY OpenFileKeepsInv, WriteFileKeepsInv, PermitScriptKeepsInv, OpenRecordingKeepsInv,
   ReadRecordingKeepsInv
   DEF ToolStep, WriteSessionYaml, WriteTemporalMonitorYaml, WriteRunScripts,
       WriteExecutableScript, WriteGeneratedReadme, WriteDiagnosticSummaryText,
       WriteDiagnosticSummaryJson, WritePlainFile, ReadRuntimeDiagnostics
-----------------------------------------------------------------------------
(* So does every step of a session: it is an operation on the directory, or  *)
(* leaves it alone.                                                          *)

LEMMA SessionKeepsInv ==
    ASSUME DirectoryInv, [SessionNext]_sessionVars PROVE DirectoryInv'
<1> USE DEF DirectoryInv
<1>1. CASE UNCHANGED directoryVars
  BY <1>1 DEF directoryVars, directory, tool, Place, Kept, InitProgress, SummaryProgress
<1>2. CASE \E o \in Options : UserCalls(o)
  BY <1>2, CallKeepsInv DEF UserCalls
<1>3. CASE Launch
  BY <1>3, EndKeepsInv DEF Launch, Place, directory
<1>4. CASE CallSummarize
  BY <1>4, CallKeepsInv DEF CallSummarize
<1>5. CASE ToolAlone
  <2>1. CASE ToolStep BY <2>1, ToolStepKeepsInv
  <2>2. CASE Kill
    BY <2>2, EndKeepsInv DEF Kill, Return, directory
  <2> QED BY <1>5, <2>1, <2>2 DEF ToolAlone
<1>6. CASE \/ ScriptRunsGroups \/ NoSummary \/ SummarizeReturns
           \/ ScriptSignalled \/ Record
           \/ \E g \in Groups : GroupDetaches(g) \/ GroupEnds(g) \/ RestOfGroupEnds(g)
  BY <1>1, <1>6 DEF ScriptRunsGroups, NoSummary, SummarizeReturns, ScriptSignalled,
                    Record, GroupDetaches, GroupEnds, RestOfGroupEnds
<1>7. CASE UNCHANGED sessionVars
  BY <1>1, <1>7 DEF sessionVars
<1> QED BY <1>2, <1>3, <1>4, <1>5, <1>6, <1>7 DEF SessionNext

-----------------------------------------------------------------------------
(* The script. *)

Before(g) ==
    CASE g = "monitor"  -> {}
      [] g = "recorder" -> {"monitor"}
      [] g = "player"   -> {"monitor", "recorder"}

\* Which groups the script knows when it comes to a command.
Position ==
    /\ pc \in {"check", "start", "note", "sleep", "wait", "stop", "cleanup", "untrap",
              "summarize"} \X Groups
    /\ pid \subseteq known /\ known \subseteq Groups
    /\ pc[1] = "check" => pc[2] = "monitor"
    /\ pc[1] \in {"check", "start", "note"} => known = Before(pc[2])
    /\ pc[1] = "sleep" => pc[2] # "player" /\ known = Before(pc[2]) \cup {pc[2]}
    /\ pc[1] \in {"wait", "stop", "untrap", "summarize"} => known = Groups
    /\ pc[1] = "stop" => pc[2] # "player"
    /\ pc[1] \in {"untrap", "summarize"} => pid = {}

\* What is stopped before what.
Stopping ==
    /\ stage \in {"begin", "INT", "TERM", "KILL", "wait"}
    /\ trap \in {"set", "ignored", "default"}
    /\ pc[1] \in {"stop", "cleanup"} /\ pc[2] # "player" => "player" \notin pid
    /\ pc[1] \in {"stop", "cleanup"} /\ pc[2] = "monitor" => "recorder" \notin pid
    /\ trap = "default" => pc[1] = "summarize"
    /\ pc[1] = "summarize" => trap = "default" /\ ~pending

\* What stop_process_group has achieved at each stage.
Signalled(g) ==
    /\ stage \in {"INT", "TERM", "KILL"} => sent[g] = stage \/ group[g] = "ended"
    /\ stage = "wait" => sent[g] \in {"KILL", "missed"} \/ group[g] = "ended"

\* What the script has made of the groups, and leaves of them.
Leaving ==
    /\ group \in [Groups -> {"not_started", "started", "detached", "leaderless", "ended"}]
    /\ sent \in [Groups -> {None, "INT", "TERM", "KILL", "missed"}]
    /\ \A g \in Groups : sent[g] # None => g \in known
    /\ \A g \in Groups : sent[g] \in {"INT", "TERM", "KILL"} => IsLive(g)
    /\ \A g \in Groups : group[g] = "not_started" => g \notin known /\ pc # <<"note", g>>
    /\ sent["player"] # None => pc[1] = "cleanup"
    /\ pc[1] \in {"stop", "cleanup"} /\ pc[2] \in pid => Signalled(pc[2])
    /\ \A g \in known \ pid : IsDone(g)
    /\ exitCode # Running => \A g \in known : IsDone(g)

ScriptInv == Position /\ Stopping /\ Leaving

\* stop_process_group is done with a group of which nothing is left that it
\* should still have to stop.
LEMMA StoppedKeepsScriptInv ==
    ASSUME ScriptInv, NEW g \in Groups, At("stop", g) \/ At("cleanup", g), Stopped(g),
           g \notin pid \/ IsDone(g), UNCHANGED <<trap, pending, known, group, sent>>
    PROVE  ScriptInv'
<1> USE DEF ScriptInv, Groups, Running
<1>1. /\ exitCode = Running /\ pc \in {<<"stop", g>>, <<"cleanup", g>>}
      /\ pid' = pid \ {g}
  BY DEF At, Stopped
<1>2. \A h \in Groups : IsDone(h)' = IsDone(h) /\ IsLive(h)' = IsLive(h)
  BY DEF IsDone, LeaderEnded, IsLive
<1>3. \A h \in known \ pid' : IsDone(h)'
  BY <1>1, <1>2 DEF Leaving, Position
<1>4. CASE pc = <<"stop", g>>
  <2>1. g # "player" BY <1>4 DEF Position
  <2>2. /\ exitCode' = Running /\ stage' = "begin"
        /\ pc' = IF g = "recorder" THEN <<"stop", "monitor">> ELSE <<"untrap", g>>
    BY <1>1, <1>4 DEF Stopped, Goto
  <2>3. Position' BY <1>1, <1>4, <2>1, <2>2 DEF Position, Stopping
  <2>4. Stopping' BY <1>1, <1>4, <2>1, <2>2 DEF Position, Stopping
  <2>5. Leaving'
    <3>1. \A h \in Groups : Signalled(h)' BY <2>2 DEF Signalled
    <3>2. sent'["player"] # None => pc'[1] = "cleanup" BY <1>4 DEF Leaving
    <3>3. \A h \in Groups : pc' # <<"note", h>> BY <2>2
    <3> QED BY <1>2, <1>3, <2>2, <3>1, <3>2, <3>3 DEF Leaving, Position
  <2> QED BY <2>3, <2>4, <2>5
<1>5. CASE pc = <<"cleanup", g>> /\ g = "monitor"
  <2>1. exitCode' = 130 /\ pc' = pc /\ stage' = stage
    BY <1>1, <1>5 DEF Stopped, Exit
  <2>2. pid' = {} BY <1>1, <1>5 DEF Position, Stopping
  <2>3. Position' BY <1>1, <1>5, <2>1 DEF Position
  <2>4. Stopping' BY <1>1, <1>5, <2>1 DEF Position, Stopping
  <2>5. Leaving' BY <1>2, <1>3, <1>5, <2>1, <2>2 DEF Leaving
  <2> QED BY <2>3, <2>4, <2>5
<1>6. CASE pc = <<"cleanup", g>> /\ g # "monitor"
  <2>1. /\ exitCode' = Running /\ stage' = "begin"
        /\ pc' = <<"cleanup", IF g = "player" THEN "recorder" ELSE "monitor">>
    BY <1>1, <1>6 DEF Stopped, Goto
  <2>2. Position' BY <1>1, <1>6, <2>1 DEF Position
  <2>3. Stopping' BY <1>1, <1>6, <2>1 DEF Position, Stopping
  <2>4. Leaving' BY <1>2, <1>3, <1>6, <2>1 DEF Leaving, Signalled
  <2> QED BY <2>2, <2>3, <2>4
<1> QED BY <1>1, <1>4, <1>5, <1>6

LEMMA StopKeepsScriptInv ==
    ASSUME ScriptInv, NEW g \in Groups, StopProcessGroup(g) PROVE ScriptInv'
<1> USE DEF ScriptInv, Groups, Running
<1>1. /\ At("stop", g) \/ At("cleanup", g)
      /\ exitCode = Running /\ pc \in {<<"stop", g>>, <<"cleanup", g>>}
      /\ UNCHANGED <<trap, pending, known, group>>
  BY DEF StopProcessGroup, At
<1>2. CASE g \notin pid /\ Stopped(g) /\ UNCHANGED sent
  BY <1>1, <1>2, StoppedKeepsScriptInv
<1>3. CASE g \in pid /\ stage = "wait" /\ LeaderEnded(g) /\ Stopped(g) /\ UNCHANGED sent
  <2>1. IsDone(g) BY <1>1, <1>3 DEF Leaving, Signalled, IsDone, IsLive
  <2> QED BY <1>1, <1>3, <2>1, StoppedKeepsScriptInv
<1>4. ASSUME g \in pid, stage # "wait", UNCHANGED <<pc, pid, exitCode>>,
             stage' \in {"INT", "TERM", "KILL", "wait"},
             sent' \in [Groups -> {None, "INT", "TERM", "KILL", "missed"}],
             \A h \in Groups \ {g} : sent'[h] = sent[h],
             sent'[g] \in {"INT", "TERM", "KILL"} => IsLive(g),
             Signalled(g)'
      PROVE  ScriptInv'
  <2>1. \A h \in Groups : h # g => IsDone(h)' = IsDone(h)
    BY <1>1, <1>4 DEF IsDone, LeaderEnded, IsLive
  <2>2. \A h \in Groups : IsLive(h)' = IsLive(h) BY <1>1 DEF IsLive
  <2>3. Position' BY <1>1, <1>4 DEF Position
  <2>4. Stopping' BY <1>1, <1>4 DEF Stopping
  <2>5. sent'["player"] # None => pc'[1] = "cleanup"
    BY <1>1, <1>4 DEF Leaving, Position
  <2>6. pc'[2] = g /\ exitCode' = Running BY <1>1, <1>4
  <2>7. \A h \in known' \ pid' : IsDone(h)' BY <1>1, <1>4, <2>1 DEF Leaving, Position
  <2>8. \A h \in Groups : sent'[h] # None => h \in known'
    BY <1>1, <1>4 DEF Leaving, Position
  <2>9. \A h \in Groups : sent'[h] \in {"INT", "TERM", "KILL"} => IsLive(h)'
    BY <1>4, <2>2 DEF Leaving
  <2>10. Leaving' BY <1>1, <1>4, <2>5, <2>6, <2>7, <2>8, <2>9 DEF Leaving
  <2> QED BY <2>3, <2>4, <2>10
<1>5. CASE g \in pid /\ stage # "wait" /\ IsLive(g) /\ SendNext(g) /\ UNCHANGED <<pc, pid, exitCode>>
  <2>1. stage \in {"begin", "INT", "TERM", "KILL"} BY <1>5 DEF Stopping
  <2>2. stage' \in {"INT", "TERM", "KILL", "wait"} /\ (stage' = "wait" <=> stage = "KILL")
    BY <1>5, <2>1 DEF SendNext, Escalated
  <2>3. IsLive(g)' BY <1>1, <1>5 DEF IsLive
  <2>4. CASE stage = "KILL"
    <3>1. sent' = sent /\ stage' = "wait" BY <1>5, <2>2, <2>4 DEF SendNext
    <3>2. sent[g] = "KILL" BY <1>1, <1>5, <2>4 DEF Leaving, Signalled, IsLive
    <3>3. Signalled(g)' BY <3>1, <3>2 DEF Signalled
    <3> QED BY <1>4, <1>5, <3>1, <3>3 DEF Leaving
  <2>5. CASE stage # "KILL"
    <3>1. sent' = [sent EXCEPT ![g] = stage'] /\ stage' # "wait"
      BY <1>5, <2>2, <2>5 DEF SendNext
    <3>2. sent'[g] = stage' BY <3>1 DEF Leaving
    <3>3. Signalled(g)' BY <2>2, <3>1, <3>2 DEF Signalled
    <3>4. /\ sent' \in [Groups -> {None, "INT", "TERM", "KILL", "missed"}]
          /\ \A h \in Groups \ {g} : sent'[h] = sent[h]
      BY <2>2, <3>1 DEF Leaving
    <3> QED BY <1>4, <1>5, <2>2, <3>1, <3>3, <3>4
  <2> QED BY <2>4, <2>5
<1>6. CASE g \in pid /\ stage # "wait" /\ ~IsLive(g) /\ FindNone(g) /\ UNCHANGED <<pc, pid, exitCode>>
  <2>1. stage' = "wait" /\ group[g] \in {"started", "ended"}
    BY <1>6 DEF FindNone, IsLive, Leaving, Position
  <2>2. CASE group[g] = "started"
    <3>1. sent' = [sent EXCEPT ![g] = "missed"] BY <1>6, <2>2 DEF FindNone
    <3>2. /\ sent' \in [Groups -> {None, "INT", "TERM", "KILL", "missed"}]
          /\ sent'[g] = "missed" /\ \A h \in Groups \ {g} : sent'[h] = sent[h]
      BY <3>1 DEF Leaving
    <3>3. Signalled(g)' BY <2>1, <3>2 DEF Signalled
    <3> QED BY <1>4, <1>6, <2>1, <3>2, <3>3
  <2>3. CASE group[g] = "ended"
    <3>1. sent' = sent BY <1>6, <2>3 DEF FindNone
    <3>2. Signalled(g)' BY <1>1, <2>1, <2>3 DEF Signalled
    <3> QED BY <1>4, <1>6, <2>1, <3>1, <3>2 DEF Leaving
  <2> QED BY <2>1, <2>2, <2>3
<1> QED BY <1>2, <1>3, <1>5, <1>6 DEF StopProcessGroup

LEMMA ScriptKeepsInv == ASSUME ScriptInv, [Next]_vars PROVE ScriptInv'
<1> USE DEF ScriptInv, Groups, Running
<1>0. ASSUME UNCHANGED <<group, sent>>
      PROVE  \A g \in Groups : IsDone(g)' = IsDone(g) /\ IsLive(g)' = IsLive(g)
  BY <1>0 DEF IsDone, LeaderEnded, IsLive
<1>1. CASE CheckSetsid
  <2>1. UNCHANGED <<group, sent>> BY <1>1 DEF CheckSetsid, groups
  <2> QED BY <1>0, <1>1, <2>1 DEF CheckSetsid, At, Goto, Exit, Position, Stopping, Leaving, Before
<1>2. ASSUME NEW g \in Groups, Start(g) PROVE ScriptInv'
  <2>1. /\ pc = <<"start", g>> /\ pc' = <<"note", g>> /\ stage' = "begin"
        /\ UNCHANGED <<pid, trap, pending, exitCode, known, sent>> /\ exitCode = Running
        /\ group' = [group EXCEPT ![g] = "started"]
    BY <1>2 DEF Start, At, Goto
  <2>2. g \notin known BY <2>1 DEF Position, Before
  <2>3. Position' BY <2>1 DEF Position
  <2>4. Stopping' BY <2>1, <2>2 DEF Stopping, Position
  <2>5. \A h \in Groups \ {g} : IsDone(h)' = IsDone(h) /\ IsLive(h)' = IsLive(h)
    BY <2>1 DEF IsDone, LeaderEnded, IsLive, Leaving
  <2>6. /\ \A h \in Groups : sent'[h] \in {"INT", "TERM", "KILL"} => IsLive(h)'
        /\ \A h \in Groups : group'[h] = "not_started" =>
               h \notin known' /\ pc' # <<"note", h>>
    BY <2>1, <2>2, <2>5 DEF Leaving, None
  <2>7. Leaving' BY <2>1, <2>2, <2>5, <2>6 DEF Leaving, Position
  <2> QED BY <2>3, <2>4, <2>7
<1>3. ASSUME NEW g \in Groups, NotePid(g) PROVE ScriptInv'
  <2>1. /\ pc = <<"note", g>> /\ exitCode = Running /\ stage' = "begin"
        /\ pc' = IF g = "player" THEN <<"wait", g>> ELSE <<"sleep", g>>
        /\ pid' = pid \cup {g} /\ known' = known \cup {g}
        /\ UNCHANGED <<trap, pending, exitCode, group, sent>>
    BY <1>3 DEF NotePid, At, Goto, groups
  <2>2. Position' BY <2>1 DEF Position, Before
  <2>3. Stopping' BY <2>1 DEF Stopping
  <2>4. Leaving' BY <1>0, <2>1 DEF Leaving, Position
  <2> QED BY <2>2, <2>3, <2>4
<1>4. ASSUME NEW g \in Groups, Sleep(g) PROVE ScriptInv'
  <2>1. /\ pc = <<"sleep", g>> /\ exitCode = Running /\ stage' = "begin" /\ group[g] # "started"
        /\ pc' = <<"start", IF g = "monitor" THEN "recorder" ELSE "player">>
        /\ UNCHANGED <<pid, known, trap, pending, exitCode, group, sent>>
    BY <1>4 DEF Sleep, At, Goto, groups
  <2>2. Position' BY <2>1 DEF Position, Before
  <2>3. Stopping' BY <2>1 DEF Stopping
  <2>4. Leaving' BY <1>0, <2>1 DEF Leaving, Position
  <2> QED BY <2>2, <2>3, <2>4
<1>5. ASSUME NEW g \in Groups, StopProcessGroup(g) PROVE ScriptInv'
  BY <1>5, StopKeepsScriptInv
<1>6. CASE WaitForPlayer
  <2>1. /\ pc = <<"wait", "player">> /\ exitCode = Running /\ stage' = "begin"
        /\ LeaderEnded("player") /\ pid' = pid \ {"player"} /\ pc' = <<"stop", "recorder">>
        /\ UNCHANGED <<known, trap, pending, exitCode, group, sent>>
    BY <1>6 DEF WaitForPlayer, At, Goto, groups
  <2>2. IsDone("player") BY <2>1 DEF IsDone, Leaving
  <2>3. Position' BY <2>1 DEF Position
  <2>4. Stopping' BY <2>1 DEF Stopping
  <2>5. Signalled("recorder")' BY <2>1 DEF Signalled
  <2>6. Leaving' BY <1>0, <2>1, <2>2, <2>5 DEF Leaving, Position
  <2> QED BY <2>3, <2>4, <2>6
<1>7. CASE Untrap
  <2>1. UNCHANGED <<group, sent>> BY <1>7 DEF Untrap, groups
  <2> QED BY <1>0, <1>7, <2>1 DEF Untrap, At, Goto, Position, Stopping, Leaving
<1>8. CASE Summarize
  <2>1. /\ pc = <<"summarize", "recorder">>
        /\ UNCHANGED <<pc, stage, pid, known, trap, pending, group, sent>>
    BY <1>8 DEF Summarize, At, Exit, groups
  <2> QED BY <1>0, <2>1 DEF Position, Stopping, Leaving
<1>9. CASE HandleSignal
  <2>1. /\ exitCode = Running /\ pending /\ ~pending' /\ stage' = "begin"
        /\ trap' = "ignored" /\ pc' = <<"cleanup", "player">>
        /\ UNCHANGED <<pid, known, exitCode, group, sent>>
    BY <1>9 DEF HandleSignal, Goto, groups
  <2>2. Position' BY <2>1 DEF Position
  <2>3. Stopping' BY <2>1 DEF Stopping
  <2>4. Signalled("player")' BY <2>1 DEF Signalled
  <2>5. Leaving' BY <1>0, <2>1, <2>4 DEF Leaving, Position
  <2> QED BY <2>2, <2>3, <2>5
<1>10. CASE Signal
  <2>1. UNCHANGED <<pc, stage, pid, known, trap, group, sent>> BY <1>10 DEF Signal, groups
  <2> QED BY <1>0, <1>10, <2>1 DEF Signal, Position, Stopping, Leaving, Signalled
<1>11. ASSUME NEW g \in Groups, Detach(g) PROVE ScriptInv'
  <2>1. /\ group[g] = "started" /\ group' = [group EXCEPT ![g] = "detached"]
        /\ UNCHANGED <<pc, stage, pid, known, trap, pending, exitCode, sent>>
    BY <1>11 DEF Detach, script
  <2>2. \A h \in Groups \ {g} : IsDone(h)' = IsDone(h) /\ IsLive(h)' = IsLive(h)
    BY <2>1 DEF IsDone, LeaderEnded, IsLive, Leaving
  <2>3. ~IsDone(g) /\ IsLive(g)' BY <2>1 DEF IsDone, LeaderEnded, IsLive, Leaving
  <2>4. Position' /\ Stopping' BY <2>1 DEF Position, Stopping
  <2>5. \A h \in Groups : Signalled(h) => Signalled(h)'
    BY <2>1 DEF Signalled, Leaving
  <2>6. Leaving' BY <2>1, <2>2, <2>3, <2>5 DEF Leaving, Position
  <2> QED BY <2>4, <2>6
<1>12. ASSUME NEW g \in Groups, EndLeader(g) \/ EndRest(g) PROVE ScriptInv'
  <2>1. /\ \/ group' = [group EXCEPT ![g] = "ended"] /\ sent' = [sent EXCEPT ![g] = None]
           \/ /\ group[g] = "detached"
              /\ group' = [group EXCEPT ![g] = "leaderless"] /\ sent' = sent
        /\ UNCHANGED <<pc, stage, pid, known, trap, pending, exitCode>>
    BY <1>12 DEF EndLeader, EndRest, AllEnded, script
  <2>2. \A h \in Groups \ {g} : IsDone(h)' = IsDone(h) /\ IsLive(h)' = IsLive(h)
    BY <2>1 DEF IsDone, LeaderEnded, IsLive, Leaving
  <2>3. Position' /\ Stopping' BY <2>1 DEF Position, Stopping
  <2>4. CASE group' = [group EXCEPT ![g] = "ended"] /\ sent' = [sent EXCEPT ![g] = None]
    <3>1. IsDone(g)' BY <2>4 DEF IsDone, LeaderEnded, IsLive, Leaving
    <3>2. \A h \in Groups : Signalled(h) => Signalled(h)'
      BY <2>1, <2>4 DEF Signalled, Leaving
    <3>3. \A h \in Groups : sent'[h] \in {"INT", "TERM", "KILL"} => IsLive(h)'
      BY <2>2, <2>4 DEF Leaving, None
    <3>4. \A h \in Groups : sent'[h] # None => sent[h] # None
      BY <2>4 DEF Leaving
    <3> QED BY <2>1, <2>2, <2>3, <2>4, <3>1, <3>2, <3>3, <3>4 DEF Leaving, Position
  <2>5. CASE /\ group[g] = "detached"
             /\ group' = [group EXCEPT ![g] = "leaderless"] /\ sent' = sent
    <3>1. ~IsDone(g) /\ IsLive(g) /\ IsLive(g)'
      BY <2>5 DEF IsDone, LeaderEnded, IsLive, Leaving
    <3> QED BY <2>1, <2>2, <2>3, <2>5, <3>1 DEF Leaving, Position, Signalled
  <2> QED BY <2>1, <2>4, <2>5
<1>13. CASE CreateBag \/ UNCHANGED vars
  <2>1. UNCHANGED <<pc, stage, pid, known, trap, pending, exitCode, group, sent>>
    BY <1>13 DEF CreateBag, vars, script, groups
  <2> QED BY <1>0, <2>1 DEF Position, Stopping, Leaving, Signalled
<1> QED BY <1>1, <1>2, <1>3, <1>4, <1>5, <1>6, <1>7, <1>8, <1>9, <1>10, <1>11, <1>12, <1>13
        DEF Next, ScriptStep
-----------------------------------------------------------------------------
(* The script in its directory. *)

\* What holds between the script and the call it makes.
Calling ==
    /\ ~launched => own = 0 /\ pc[1] = "check"
    /\ launched => /\ command # "init" /\ CanBeStarted(RunAllObserve)
                   /\ own = 0 => command = NoCommand
    /\ own # 0 => /\ own = calls /\ pc[1] = "summarize" /\ ~playFailed /\ bags # {}
                  /\ command = NoCommand => status # Busy
                  /\ command = NoCommand /\ status = 0 =>
                        \A a \in Artifacts \ silent : writer[a] = own /\ a \in whole

SessionInv == DirectoryInv /\ ScriptInv /\ Calling

LEMMA RunAllStays ==
    ASSUME DirectoryInv, command = "summarize", CanBeStarted(RunAllObserve), ToolStep
    PROVE  CanBeStarted(RunAllObserve)' /\ command' # "init" /\ calls' = calls
<1> USE DEF CanBeStarted, DirectoryInv, Place
<1>1. CASE OpenFile
  BY <1>1 DEF OpenFile, Truncated, Return, directory
<1>2. CASE WriteFile
  BY <1>2 DEF WriteFile, Flushed, Advance, Return
<1>3. CASE PermitScript
  BY <1>3 DEF PermitScript
<1>4. CASE OpenRecording
  BY <1>4 DEF OpenRecording, Truncated, Return, directory
<1>5. CASE ReadRecording
  BY <1>5 DEF ReadRecording, Flushed, Return
<1> QED
  BY <1>1, <1>2, <1>3, <1>4, <1>5
     DEF ToolStep, WriteSessionYaml, WriteTemporalMonitorYaml, WriteRunScripts,
         WriteExecutableScript, WriteGeneratedReadme, WriteDiagnosticSummaryText,
         WriteDiagnosticSummaryJson, WritePlainFile, ReadRuntimeDiagnostics

\* A summary that ends well has written everything.
LEMMA SummaryIsDone ==
    ASSUME DirectoryInv, command = "summarize", ToolStep, command' = NoCommand
    PROVE  /\ status' # Busy
           /\ status' = 0 => \A a \in Artifacts \ silent' : writer'[a] = calls /\ a \in whole'
<1> USE DEF DirectoryInv
<1>1. CASE OpenFile
  BY <1>1 DEF OpenFile, Return
<1>2. CASE WriteFile
  <2>1. /\ file = SummaryJson /\ phase = "write" /\ status' = 0
        /\ UNCHANGED <<writer, calls>>
    BY <1>2 DEF WriteFile, Advance, IsLast, Return, Place
  <2>2. /\ whole \subseteq whole' /\ SummaryJson \in whole' \cup silent'
        /\ silent \ {SummaryJson} \subseteq silent'
    BY <1>2, <2>1 DEF WriteFile, Flushed, Unseen
  <2> QED BY <2>1, <2>2 DEF SummaryProgress
<1>3. CASE PermitScript
  BY <1>3 DEF PermitScript, Place
<1>4. CASE OpenRecording
  BY <1>4 DEF OpenRecording, Return
<1>5. CASE ReadRecording
  BY <1>5 DEF ReadRecording, Return
<1> QED
  BY <1>1, <1>2, <1>3, <1>4, <1>5
     DEF ToolStep, WriteSessionYaml, WriteTemporalMonitorYaml, WriteRunScripts,
         WriteExecutableScript, WriteGeneratedReadme, WriteDiagnosticSummaryText,
         WriteDiagnosticSummaryJson, WritePlainFile, ReadRuntimeDiagnostics

\* Each step of a session is a step of the script that SessionRunner describes,
\* or none of it.
LEMMA SessionStepIsRunnerStep ==
    ASSUME SessionInv, SessionNext PROVE [Next]_vars
<1>1. CASE ScriptRunsGroups
  BY <1>1 DEF ScriptRunsGroups, Next, ScriptStep
<1>2. CASE NoSummary
  <2>1. Summarize BY <1>2 DEF NoSummary, Summarize, Summarized, FailureCodes, Exit
  <2> QED BY <2>1 DEF Next, ScriptStep
<1>3. CASE SummarizeReturns
  <2>1. /\ ~playFailed /\ bags # {} /\ status \in {0} \cup FailureCodes
    BY <1>3 DEF SummarizeReturns, SessionInv, Calling, DirectoryInv, FailureCodes
  <2>2. Summarize
    BY <1>3, <2>1 DEF SummarizeReturns, Summarize, Summarized, FailureCodes, Exit
  <2> QED BY <2>2 DEF Next, ScriptStep
<1>4. CASE \/ ScriptSignalled \/ Record
           \/ \E g \in Groups : GroupDetaches(g) \/ GroupEnds(g) \/ RestOfGroupEnds(g)
  BY <1>4 DEF ScriptSignalled, Record, GroupDetaches, GroupEnds, RestOfGroupEnds, Next
<1>5. CASE Launch \/ CallSummarize \/ ToolAlone \/ \E o \in Options : UserCalls(o)
  BY <1>5 DEF Launch, CallSummarize, ToolAlone, UserCalls
<1> QED BY <1>1, <1>2, <1>3, <1>4, <1>5 DEF SessionNext

\* The runner's steps but the summary's leave what the call rests on alone.
LEMMA RunnerKeepsCalling ==
    ASSUME SessionInv, launched, UNCHANGED <<directoryVars, launched, own>>,
           own # 0 => UNCHANGED <<pc, playFailed>> /\ bags \subseteq bags'
    PROVE  Calling'
BY DEF SessionInv, Calling, directoryVars, directory, tool, CanBeStarted

LEMMA SessionKeepsCalling ==
    ASSUME SessionInv, [SessionNext]_sessionVars PROVE Calling'
<1> USE DEF SessionInv
<1>1. ASSUME NEW o \in Options, UserCalls(o) PROVE Calling'
  BY <1>1 DEF UserCalls, vars, script, Calling
<1>2. CASE Launch
  BY <1>2 DEF Launch, vars, script, groups, directory, Calling, CanBeStarted
<1>3. CASE CallSummarize
  <2>1. launched BY <1>3 DEF CallSummarize, At, Calling
  <2>2. /\ own' = calls' /\ calls' = calls + 1 /\ UNCHANGED <<vars, directory, launched>>
        /\ ~playFailed /\ bags # {} /\ pc[1] = "summarize"
    BY <1>3 DEF CallSummarize, RunSessionCli, At
  <2>3. \/ command' = NoCommand /\ status' = 2
        \/ command' = "summarize"
    BY <1>3, SessionAssumption DEF CallSummarize, RunSessionCli, RunSummarize, Return, Begin
  <2>4. calls' # 0 BY <2>2 DEF DirectoryInv
  <2> QED
    BY <2>1, <2>2, <2>3, <2>4 DEF Calling, CanBeStarted, vars, script, groups, directory
<1>4. CASE ToolAlone
  <2>1. UNCHANGED <<vars, launched, own>> BY <1>4 DEF ToolAlone
  <2>2. CASE ~launched BY <2>1, <2>2 DEF Calling, vars, script
  <2>3. CASE launched
    <3>1. command = "summarize" /\ own # 0
      BY <1>4, <2>3 DEF ToolAlone, ToolStep, Kill, Calling, DirectoryInv, WriteSessionYaml,
         WriteTemporalMonitorYaml, WriteRunScripts, WriteExecutableScript,
         WriteGeneratedReadme, WriteDiagnosticSummaryText, WriteDiagnosticSummaryJson,
         WritePlainFile, ReadRuntimeDiagnostics, OpenFile, WriteFile, PermitScript,
         OpenRecording, ReadRecording
    <3>2. CASE Kill
      BY <2>1, <2>3, <3>1, <3>2 DEF Kill, Return, directory, vars, script, groups,
                                    Calling, CanBeStarted
    <3>3. CASE ToolStep
      BY <2>1, <2>3, <3>1, <3>3, RunAllStays, SummaryIsDone DEF vars, script, groups, Calling
    <3> QED BY <1>4, <3>2, <3>3 DEF ToolAlone
  <2> QED BY <2>2, <2>3
<1>5. CASE ScriptRunsGroups
  <2>1. own # 0 => FALSE
    BY <1>5 DEF ScriptRunsGroups, CheckSetsid, Start, NotePid, Sleep, StopProcessGroup,
                WaitForPlayer, Untrap, HandleSignal, At, Calling, ScriptInv, Stopping
  <2> QED BY <1>5, <2>1, RunnerKeepsCalling DEF ScriptRunsGroups
<1>6. CASE NoSummary \/ SummarizeReturns
  <2>1. launched BY <1>6 DEF NoSummary, SummarizeReturns, At, Calling
  <2> QED BY <1>6, <2>1, RunnerKeepsCalling DEF NoSummary, SummarizeReturns, Summarize,
             Summarized, Exit, groups
<1>7. CASE ScriptSignalled
  BY <1>7, RunnerKeepsCalling DEF ScriptSignalled, Signal, groups
<1>8. CASE Record
  <2>1. UNCHANGED <<directoryVars, launched, own, pc, playFailed>> /\ bags \subseteq bags'
    BY <1>8 DEF Record, CreateBag, script
  <2> QED BY <2>1 DEF Calling, directoryVars, directory, tool, CanBeStarted
<1>9. ASSUME NEW g \in Groups, GroupDetaches(g) PROVE Calling'
  <2>1. UNCHANGED <<directoryVars, launched, own, pc, playFailed, bags>>
    BY <1>9 DEF GroupDetaches, Detach, script
  <2> QED BY <2>1 DEF Calling, directoryVars, directory, tool, CanBeStarted
<1>10. ASSUME NEW g \in Groups, GroupEnds(g) PROVE Calling'
  <2>1. own # 0 => IsDone("player")
    BY DEF Calling, ScriptInv, Position, Leaving, Groups
  <2>2. UNCHANGED <<pc, bags>> /\ (own # 0 => playFailed' = playFailed)
    BY <1>10, <2>1 DEF GroupEnds, EndLeader, script, IsDone, LeaderEnded
  <2> QED BY <1>10, <2>2, RunnerKeepsCalling DEF GroupEnds
<1>11. ASSUME NEW g \in Groups, RestOfGroupEnds(g) PROVE Calling'
  <2>1. UNCHANGED <<directoryVars, launched, own, pc, playFailed, bags>>
    BY <1>11 DEF RestOfGroupEnds, EndRest, script
  <2> QED BY <2>1 DEF Calling, directoryVars, directory, tool, CanBeStarted
<1>12. CASE UNCHANGED sessionVars
  BY <1>12 DEF sessionVars, vars, script, groups, directoryVars, directory, tool, Calling,
               CanBeStarted
<1> QED BY <1>1, <1>2, <1>3, <1>4, <1>5, <1>6, <1>7, <1>8, <1>9, <1>10, <1>11, <1>12
        DEF SessionNext
-----------------------------------------------------------------------------
LEMMA SessionInvariant == SessionSpec => []SessionInv
<1>1. SessionInit => SessionInv
  <2>1. SessionInit => DirectoryInv BY InvInit DEF SessionInit
  <2>2. SessionInit => ScriptInv
    BY DEF SessionInit, Init, ScriptInv, Position, Stopping, Leaving, Before, Groups, Running,
           None, IsLive
  <2>3. SessionInit => Calling BY DEF SessionInit, Init, Calling
  <2> QED BY <2>1, <2>2, <2>3 DEF SessionInv
<1>2. SessionInv /\ [SessionNext]_sessionVars => SessionInv'
  <2> SUFFICES ASSUME SessionInv, [SessionNext]_sessionVars PROVE SessionInv'
    OBVIOUS
  <2>1. [Next]_vars BY SessionStepIsRunnerStep DEF sessionVars
  <2>2. DirectoryInv' /\ ScriptInv' /\ Calling'
    BY <2>1, SessionKeepsInv, ScriptKeepsInv, SessionKeepsCalling DEF SessionInv
  <2> QED BY <2>2 DEF SessionInv
<1> QED BY <1>1, <1>2, PTL DEF SessionSpec

\* Type correctness of the directory and of the tool that writes it.
THEOREM DirectoryTypeCorrect == SessionSpec => []DirectoryTypeOK
<1>1. SessionInv => DirectoryTypeOK BY DEF SessionInv, DirectoryInv
<1> QED BY <1>1, SessionInvariant, PTL

\* However many calls of init fail or are killed halfway, run_all_observe.sh can
\* be started only when what it relies on is complete and of the same call, as
\* long as one call alone has written and no failure went unseen.
THEOREM StartableIsWhole == SessionSpec => []StartableSessionIsWhole
<1>1. SessionInv => StartableSessionIsWhole
  BY DEF SessionInv, DirectoryInv, Kept, StartableSessionIsWhole, CanBeStarted, OfOneCall, StartedScripts,
         TemporalMonitorYaml, RunBagPlay, RecordDiagnostics, SummarizeDiagnostics
<1> QED BY <1>1, SessionInvariant, PTL

\* A call of init that succeeds leaves a session that is all its own, whatever
\* earlier calls had left in the directory.
THEOREM InitializedIsUniform == SessionSpec => []InitializedSessionIsUniform
<1>1. SessionInv => InitializedSessionIsUniform
  <2> SUFFICES ASSUME SessionInv, status = 0, writer[Readme] = calls
               PROVE  /\ \A f \in Generated : writer[f] = calls
                      /\ Generated \ silent \subseteq whole
                      /\ Scripts \subseteq executable
    BY DEF InitializedSessionIsUniform
  <2>1. \A f \in Generated : writer[f] = calls
    BY DEF SessionInv, DirectoryInv, Kept
  <2>2. \A f \in Generated \ {Readme} :
            f \in whole \cup silent /\ (f \in Scripts => f \in executable)
    BY <2>1 DEF SessionInv, DirectoryInv, Kept
  <2>3. Readme \in whole \cup silent
    BY DEF SessionInv, DirectoryInv, Kept
  <2> QED BY <2>1, <2>2, <2>3
<1> QED BY <1>1, SessionInvariant, PTL

\* Whatever fails, the summaries are never newer than the logs beside them.
THEOREM SummaryFollowsLogs == SessionSpec => []SummaryFollowsItsLogs
<1>1. SessionInv => SummaryFollowsItsLogs
  BY DEF SessionInv, DirectoryInv, Kept, SummaryFollowsItsLogs
<1> QED BY <1>1, SessionInvariant, PTL

\* Whichever way the script ends, the leaders whose numbers it noted are gone,
\* and what is left of their groups was sent SIGKILL, unless it is the rest of a
\* player that the script sent no signal, or no group yet when it looked for it.
THEOREM NoKnownGroupIsLeft == SessionSpec => []NoKnownGroupIsLeftRunning
<1>1. SessionInv => NoKnownGroupIsLeftRunning
  BY DEF SessionInv, ScriptInv, Leaving, NoKnownGroupIsLeftRunning
<1> QED BY <1>1, SessionInvariant, PTL

\* The composition refines the script on its own: the call of the tool is the
\* one step that summarizes.
THEOREM Refinement == SessionSpec => ImplementsSessionRunner
<1>1. SessionInit => Init BY DEF SessionInit
<1>2. SessionInv /\ [SessionNext]_sessionVars => [Next]_vars
  BY SessionStepIsRunnerStep DEF sessionVars
<1> QED BY <1>1, <1>2, SessionInvariant, PTL DEF SessionSpec, ImplementsSessionRunner, Spec

\* From the first file init writes to the last check of the script: in a session
\* that one call has written, success means an own and complete summary.
THEOREM SuccessIsItsOwnSummary == SessionSpec => SuccessMeansItsOwnSummary
<1> DEFINE Success == exitCode = Running /\ exitCode' = 0 /\ OfOneCall /\ silent \cap Generated = {}
           Summary == /\ own # 0
                      /\ \A a \in Artifacts \ silent : writer[a] = own /\ a \in whole
                      /\ ~playFailed /\ \A g \in Groups : IsDone(g)
<1>1. ASSUME SessionInv, SessionNext, Success PROVE Summary
  <2> USE DEF Running
  <2>1. CASE SummarizeReturns
    <3>1. \A g \in Groups : IsDone(g)
      BY <1>1, <2>1 DEF SummarizeReturns, At, SessionInv, ScriptInv, Position, Leaving
    <3>2. own # 0 /\ command = NoCommand /\ status = 0
      BY <1>1, <2>1 DEF SummarizeReturns, Summarized, Exit
    <3> QED BY <1>1, <3>1, <3>2 DEF SessionInv, Calling
  <2>2. CASE NoSummary
    <3>1. Summarized(0) /\ ~CanBeStarted(SummarizeDiagnostics) /\ pc[1] = "summarize"
      BY <1>1, <2>2 DEF NoSummary, Summarize, Summarized, Exit, At
    <3>2. CanBeStarted(RunAllObserve)
      BY <1>1, <3>1 DEF SessionInv, Calling
    <3>3. CanBeStarted(SummarizeDiagnostics)
      BY <1>1, <3>2 DEF SessionInv, DirectoryInv, Kept, OfOneCall, CanBeStarted,
                        SummarizeDiagnostics
    <3> QED BY <3>1, <3>3
  <2>3. CASE ScriptRunsGroups
    BY <1>1, <2>3 DEF ScriptRunsGroups, CheckSetsid, Start, NotePid, Sleep, StopProcessGroup,
                      Stopped, WaitForPlayer, Untrap, HandleSignal, Exit, Goto
  <2>4. CASE ScriptSignalled
    BY <1>1, <2>4 DEF ScriptSignalled, Signal
  <2>5. CASE Record \/ \E g \in Groups : GroupDetaches(g) \/ GroupEnds(g) \/ RestOfGroupEnds(g)
    BY <1>1, <2>5 DEF Record, CreateBag, GroupDetaches, Detach, GroupEnds, EndLeader,
                      RestOfGroupEnds, EndRest, script
  <2>6. CASE Launch \/ CallSummarize \/ ToolAlone \/ \E o \in Options : UserCalls(o)
    BY <1>1, <2>6 DEF Launch, CallSummarize, ToolAlone, UserCalls, vars, script
  <2> QED BY <1>1, <2>1, <2>2, <2>3, <2>4, <2>5, <2>6 DEF SessionNext
<1>2. SessionInv /\ [SessionNext]_sessionVars => [Success => Summary]_sessionVars
  BY <1>1
<1> QED BY <1>2, SessionInvariant, PTL DEF SessionSpec, SuccessMeansItsOwnSummary

-----------------------------------------------------------------------------
(* The parameters of the node, whatever a launch gives *)

NumberNames ==
    {"gate_min_total_imu_samples_before_forward",
     "gate_min_window_imu_samples_before_forward", "summary_period_ms",
     "imu_gap_threshold_ms", "lidar_gap_threshold_ms", "lidar_scan_duration_ms",
     "lidar_min_measured_scan_duration_ms", "lidar_max_measured_scan_duration_ms",
     "lidar_holdback_tolerance_ms", "lidar_holdback_max_pending",
     "imu_buffer_retention_ms", "expected_imu_period_ms", "max_missing_prefix_ms",
     "max_missing_suffix_ms", "max_internal_gap_ms", "tf_max_transform_age_ms",
     "tf_max_future_tolerance_ms", "lidar_qos_depth", "checked_lidar_qos_depth"}
SwitchNames == {"lidar_prefer_measured_header_period", "lidar_holdback_enabled",
                "tf_monitoring_enabled"}

\* The middleware has checked the types of the values.
IsLaunch(given) ==
    /\ \A name \in NumberNames \cap DOMAIN given : given[name] \in Int
    /\ \A name \in SwitchNames \cap DOMAIN given : given[name] \in BOOLEAN

\* What the other modules assume of the constants that stand for parameters.
IsUsable(loaded) ==
    /\ loaded.gate.minTotal \in Nat /\ loaded.gate.minWindow \in Nat
    /\ loaded.gaps.imu \in Nat \ {0} /\ loaded.gaps.lidar \in Nat \ {0}
    /\ loaded.scanWindow.stampPolicy \in {"scan_start", "scan_middle", "scan_end"}
    /\ loaded.scanWindow.preferMeasured \in BOOLEAN
    /\ loaded.scanWindow.fallback \in Nat \ {0}
    /\ loaded.scanWindow.minMeasured \in Nat /\ loaded.scanWindow.maxMeasured \in Nat
    /\ loaded.scanWindow.minMeasured <= loaded.scanWindow.maxMeasured
    /\ loaded.holdback.enabled \in BOOLEAN
    /\ loaded.holdback.tolerance \in Nat /\ loaded.holdback.maxPending \in Nat \ {0}
    /\ loaded.coverage.retention \in Nat
    /\ loaded.coverage.maxPrefix \in Nat /\ loaded.coverage.maxSuffix \in Nat
    /\ loaded.coverage.maxGap \in Nat
    /\ loaded.transforms.maxAge \in Nat /\ loaded.transforms.maxFuture \in Nat

LEMMA NumberIsAtLeast ==
    ASSUME NEW given, IsLaunch(given), NEW name \in NumberNames,
           NEW default \in Int, NEW limit \in Int
    PROVE  /\ Number(given, name, default, limit) \in Int
           /\ Number(given, name, default, limit) >= limit
BY DEF IsLaunch, Number, Declared, AtLeast

LEMMA AsIntIsInt == ASSUME NEW n \in Int PROVE AsInt(n) \in Int
BY ParametersAssumption DEF AsInt

\* A range with its lower bound above zero by default: loading never inverts it.
LEMMA ScanWindowIsUsable ==
    ASSUME NEW given, IsLaunch(given)
    PROVE  /\ ScanWindow(given).fallback \in Nat \ {0}
           /\ ScanWindow(given).minMeasured \in Nat
           /\ ScanWindow(given).maxMeasured \in Nat
           /\ ScanWindow(given).minMeasured <= ScanWindow(given).maxMeasured
<1> DEFINE low == Number(given, "lidar_min_measured_scan_duration_ms",
                         Defaults.minMeasured, Limits.measuredDuration)
<1>1. low \in Nat
  BY NumberIsAtLeast, ParametersAssumption DEF NumberNames
<1>2. MaxMeasured(given, low) \in Nat /\ low <= MaxMeasured(given, low)
  <2> HIDE DEF low
  <2> QED  BY <1>1, NumberIsAtLeast, ParametersAssumption DEF NumberNames, MaxMeasured
<1>3. Number(given, "lidar_scan_duration_ms", Defaults.scanDuration,
             Limits.scanDuration) \in Nat \ {0}
  BY NumberIsAtLeast, ParametersAssumption DEF NumberNames
<1> QED  BY <1>1, <1>2, <1>3 DEF ScanWindow

LEMMA CoverageIsUsable ==
    ASSUME NEW given, IsLaunch(given)
    PROVE  /\ ExpectedImuPeriod(given) \in Nat \ {0}
           /\ Coverage(given).retention \in Nat
           /\ Coverage(given).maxPrefix \in Nat
           /\ Coverage(given).maxSuffix \in Nat
           /\ Coverage(given).maxGap \in Nat
           /\ Coverage(given).maxGap >= ExpectedImuPeriod(given)
<1> DEFINE period == ExpectedImuPeriod(given)
<1>1. period \in Nat \ {0}
  BY NumberIsAtLeast, ParametersAssumption DEF NumberNames, ExpectedImuPeriod
<1> HIDE DEF period
<1>2. /\ Limits.prefixPeriods * period \in Int
      /\ Limits.suffixPeriods * period \in Int
      /\ Limits.gapPeriods * period \in Int
  BY <1>1, ParametersAssumption
<1>3. Number(given, "imu_buffer_retention_ms", Defaults.retention, Limits.retention) \in Nat
  BY NumberIsAtLeast, ParametersAssumption DEF NumberNames
<1>4. Number(given, "max_missing_prefix_ms", Limits.prefixPeriods * period, 0) \in Nat
  BY <1>2, NumberIsAtLeast DEF NumberNames
<1>5. Number(given, "max_missing_suffix_ms", Limits.suffixPeriods * period, 0) \in Nat
  BY <1>2, NumberIsAtLeast DEF NumberNames
<1>6. LET gap == Number(given, "max_internal_gap_ms", Limits.gapPeriods * period, period)
      IN  gap \in Nat /\ gap >= period
  BY <1>1, <1>2, NumberIsAtLeast DEF NumberNames
<1> QED  BY <1>1, <1>3, <1>4, <1>5, <1>6 DEF Coverage, period

\* Whatever a launch gives, in the types the middleware admits, the node runs
\* with parameters the other modules may assume: no empty queue, no negative
\* margin or threshold, no inverted range of measured durations.
THEOREM LoadedParametersAreUsable ==
    ASSUME NEW given, IsLaunch(given)
    PROVE  IsUsable(LoadTemporalMonitorNodeParameters(given))
<1>1. Gate(given).minTotal \in Nat /\ Gate(given).minWindow \in Nat
  BY NumberIsAtLeast, ParametersAssumption DEF NumberNames, Gate
<1>2. GapThresholds(given).imu \in Nat \ {0} /\ GapThresholds(given).lidar \in Nat \ {0}
  BY NumberIsAtLeast, ParametersAssumption DEF NumberNames, GapThresholds
<1>3. ScanWindow(given).stampPolicy \in {"scan_start", "scan_middle", "scan_end"}
  BY DEF ScanWindow, OneOf
<1>4. ScanWindow(given).preferMeasured \in BOOLEAN
  BY DEF ScanWindow, Declared, IsLaunch, SwitchNames
<1>5. /\ HoldbackQueue(given).enabled \in BOOLEAN
      /\ HoldbackQueue(given).tolerance \in Nat
      /\ HoldbackQueue(given).maxPending \in Nat \ {0}
  <2>1. Declared(given, "lidar_holdback_enabled", FALSE) \in BOOLEAN
    BY DEF Declared, IsLaunch, SwitchNames
  <2>2. Number(given, "lidar_holdback_tolerance_ms", Defaults.tolerance, 0) \in Nat
    BY NumberIsAtLeast, ParametersAssumption DEF NumberNames
  <2>3. AsInt(Number(given, "lidar_holdback_max_pending", Defaults.maxPending, 1)) \in Int
    BY NumberIsAtLeast, AsIntIsInt, ParametersAssumption DEF NumberNames
  <2>4. \A n \in Int : AtLeast(n, 1) \in Nat \ {0}
    BY DEF AtLeast
  <2> QED  BY <2>1, <2>2, <2>3, <2>4 DEF HoldbackQueue
<1>6. Transforms(given).maxAge \in Nat /\ Transforms(given).maxFuture \in Nat
  BY NumberIsAtLeast, ParametersAssumption DEF NumberNames, Transforms
<1> QED
  BY <1>1, <1>2, <1>3, <1>4, <1>5, <1>6, ScanWindowIsUsable, CoverageIsUsable
  DEF IsUsable, LoadTemporalMonitorNodeParameters

\* A launch may say what it wants of the IMU period, the allowed gap and all
\* the rest: as long as it leaves the two margins to their defaults, a scan of
\* at least one IMU period is never blamed on an IMU stream that runs at its
\* expected rate.
THEOREM NominalScanIsCovered ==
    ASSUME NEW given, IsLaunch(given),
           "max_missing_prefix_ms" \notin DOMAIN given,
           "max_missing_suffix_ms" \notin DOMAIN given,
           MaxMissingPrefix = Coverage(given).maxPrefix,
           MaxMissingSuffix = Coverage(given).maxSuffix,
           MaxInternalGap = Coverage(given).maxGap,
           NEW window \in [start : Int, end : Int], NEW stamps \in SUBSET Int,
           window.start + ExpectedImuPeriod(given) <= window.end,
           IsNominal(window, stamps, ExpectedImuPeriod(given))
    PROVE  Analyze(window, stamps) = "ok"
<1> DEFINE period == ExpectedImuPeriod(given)
<1>1. period \in Nat \ {0} /\ MaxInternalGap \in Nat /\ MaxInternalGap >= period
  BY CoverageIsUsable
<1>2. MaxMissingPrefix \in Nat /\ MaxMissingPrefix >= period
  <2>1. MaxMissingPrefix = Number(given, "max_missing_prefix_ms",
                                  Limits.prefixPeriods * period, 0)
    BY DEF Coverage
  <2> HIDE DEF period
  <2>2. Limits.prefixPeriods * period >= period /\ Limits.prefixPeriods * period \in Nat
    <3>1. Limits.prefixPeriods \in Nat \ {0}
      BY ParametersAssumption
    <3>2. \A n, p \in Nat \ {0} : n * p \in Nat /\ n * p >= p
      OBVIOUS
    <3> QED  BY <3>1, <3>2, <1>1
  <2> QED  BY <2>1, <2>2 DEF Number, Declared, AtLeast
<1>3. MaxMissingSuffix \in Nat /\ MaxMissingSuffix >= period
  <2>1. MaxMissingSuffix = Number(given, "max_missing_suffix_ms",
                                  Limits.suffixPeriods * period, 0)
    BY DEF Coverage
  <2> HIDE DEF period
  <2>2. Limits.suffixPeriods * period >= period /\ Limits.suffixPeriods * period \in Nat
    <3>1. Limits.suffixPeriods \in Nat \ {0}
      BY ParametersAssumption
    <3>2. \A n, p \in Nat \ {0} : n * p \in Nat /\ n * p >= p
      OBVIOUS
    <3> QED  BY <3>1, <3>2, <1>1
  <2> QED  BY <2>1, <2>2 DEF Number, Declared, AtLeast
<1> QED  BY <1>1, <1>2, <1>3, NominalStreamIsOk

\* What a generated session gives, whatever the default of the parameter is.
GivesTexts(given, o) ==
    \A d :
        /\ Declared(given, "lidar_gate_mode", d) = o.mode
        /\ Declared(given, "checked_lidar_topic", d) = o.checkedLidarTopic
        /\ Declared(given, "lidar_holdback_enabled", d) = TRUE
        /\ Declared(given, "lidar_prefer_measured_header_period", d) = FALSE
        /\ Declared(given, "lidar_stamp_policy", d) = "scan_end"

GivesNumbers(given, ms) ==
    \A d :
        /\ Declared(given, "gate_min_total_imu_samples_before_forward", d) = 5
        /\ Declared(given, "gate_min_window_imu_samples_before_forward", d) = 2
        /\ Declared(given, "imu_gap_threshold_ms", d) = 30 * ms
        /\ Declared(given, "lidar_gap_threshold_ms", d) = 200 * ms
        /\ Declared(given, "lidar_min_measured_scan_duration_ms", d) = ms
        /\ Declared(given, "lidar_max_measured_scan_duration_ms", d) = 500 * ms
        /\ Declared(given, "lidar_scan_duration_ms", d) = 100 * ms
        /\ Declared(given, "lidar_holdback_tolerance_ms", d) = 10 * ms
        /\ Declared(given, "lidar_holdback_max_pending", d) = 64
        /\ Declared(given, "expected_imu_period_ms", d) = 10 * ms
        /\ Declared(given, "imu_buffer_retention_ms", d) = 5000 * ms
        /\ Declared(given, "max_missing_prefix_ms", d) = 30 * ms
        /\ Declared(given, "max_missing_suffix_ms", d) = 30 * ms
        /\ Declared(given, "max_internal_gap_ms", d) = 30 * ms

IsGenerated(given, o, ms) == GivesTexts(given, o) /\ GivesNumbers(given, ms)

LEMMA GeneratedIsGenerated ==
    ASSUME NEW o, NEW ms PROVE IsGenerated(GeneratedParameters(o, ms), o, ms)
BY DEF IsGenerated, GivesTexts, GivesNumbers, GeneratedParameters, Declared

LEMMA LimitsAreIntegers ==
    /\ Limits.period \in Int /\ Limits.gapThreshold \in Int /\ Limits.scanDuration \in Int
    /\ Limits.measuredDuration \in Int /\ Limits.retention \in Int
BY ParametersAssumption

LEMMA SmallIntIsKept == ASSUME IntModulus > 129 PROVE AsInt(64) = 64
<1>1. IntModulus \in Nat
  BY ParametersAssumption
<1>2. 64 % IntModulus = 64
  BY <1>1
<1>3. 64 < IntModulus \div 2
  BY <1>1
<1> QED  BY <1>2, <1>3 DEF AsInt

LEMMA Durations ==
    ASSUME NEW ms \in Nat \ {0}
    PROVE  /\ 10 * ms \in Int /\ 30 * ms \in Int /\ 100 * ms \in Int /\ 200 * ms \in Int
           /\ 500 * ms \in Int /\ 5000 * ms \in Int
           /\ 0 <= 10 * ms /\ 0 <= 30 * ms /\ 30 * ms <= 200 * ms
           /\ ms <= 500 * ms /\ 10 * ms <= 30 * ms
OBVIOUS

\* init has given the output of the node a topic.
NamesOutput(o) == o.checkedLidarTopic # ""

\* The limits of a generated session are not above its values.
GeneratedWithinLimits(ms) ==
    /\ Limits.period <= 10 * ms /\ Limits.gapThreshold <= 30 * ms
    /\ Limits.scanDuration <= 100 * ms /\ Limits.measuredDuration <= ms
    /\ Limits.retention <= 5000 * ms

LEMMA GeneratedGate ==
    ASSUME NEW o, NEW ms \in Nat \ {0}, NEW given, IsGenerated(given, o, ms),
           NamesOutput(o)
    PROVE  Gate(given) = [mode |-> o.mode, minTotal |-> 5, minWindow |-> 2,
                          hasCheckedTopic |-> TRUE]
<1>1. \A d : /\ Number(given, "gate_min_total_imu_samples_before_forward", d, 0) = 5
             /\ Number(given, "gate_min_window_imu_samples_before_forward", d, 0) = 2
  BY DEF IsGenerated, GivesNumbers, Number, AtLeast
<1>2. /\ Declared(given, "lidar_gate_mode", "observe") = o.mode
      /\ Declared(given, "checked_lidar_topic", "") # ""
  BY Zenon DEF IsGenerated, GivesTexts, NamesOutput
<1> QED  BY <1>1, <1>2, Zenon DEF Gate

LEMMA GeneratedGaps ==
    ASSUME NEW o, NEW ms \in Nat \ {0}, NEW given, IsGenerated(given, o, ms),
           GeneratedWithinLimits(ms)
    PROVE  GapThresholds(given) = [imu |-> 30 * ms, lidar |-> 200 * ms]
<1>1. Number(given, "imu_gap_threshold_ms", Defaults.imuGap, Limits.gapThreshold) = 30 * ms
  BY LimitsAreIntegers, Durations DEF GeneratedWithinLimits, IsGenerated, GivesNumbers, Number, AtLeast
<1>2. Limits.gapThreshold <= 200 * ms
  BY LimitsAreIntegers, Durations DEF GeneratedWithinLimits
<1>3. Number(given, "lidar_gap_threshold_ms", Defaults.lidarGap, Limits.gapThreshold) = 200 * ms
  BY <1>2, LimitsAreIntegers, Durations DEF IsGenerated, GivesNumbers, Number, AtLeast
<1> QED  BY <1>1, <1>3 DEF GapThresholds

LEMMA GeneratedHoldback ==
    ASSUME NEW o, NEW ms \in Nat \ {0}, NEW given, IsGenerated(given, o, ms),
           IntModulus > 129
    PROVE  HoldbackQueue(given) =
               [enabled |-> TRUE, tolerance |-> 10 * ms, maxPending |-> 64]
<1>1. Number(given, "lidar_holdback_tolerance_ms", Defaults.tolerance, 0) = 10 * ms
  BY Durations DEF IsGenerated, GivesNumbers, Number, AtLeast
<1>2. Number(given, "lidar_holdback_max_pending", Defaults.maxPending, 1) = 64
  BY DEF IsGenerated, GivesNumbers, Number, AtLeast
<1>3. AtLeast(64, 1) = 64
  BY DEF AtLeast
<1>4. Declared(given, "lidar_holdback_enabled", FALSE) = TRUE
  BY Zenon DEF IsGenerated, GivesTexts
<1> QED  BY <1>1, <1>2, <1>3, <1>4, SmallIntIsKept DEF HoldbackQueue

LEMMA GeneratedCoverage ==
    ASSUME NEW o, NEW ms \in Nat \ {0}, NEW given, IsGenerated(given, o, ms),
           GeneratedWithinLimits(ms)
    PROVE  Coverage(given) = [retention |-> 5000 * ms, maxPrefix |-> 30 * ms,
                              maxSuffix |-> 30 * ms, maxGap |-> 30 * ms]
<1>1. ExpectedImuPeriod(given) = 10 * ms
  BY LimitsAreIntegers, Durations
  DEF ExpectedImuPeriod, GeneratedWithinLimits, IsGenerated, GivesNumbers, Number, AtLeast
<1>2. Number(given, "imu_buffer_retention_ms", Defaults.retention, Limits.retention) = 5000 * ms
  BY LimitsAreIntegers, Durations DEF GeneratedWithinLimits, IsGenerated, GivesNumbers, Number, AtLeast
<1>3. \A d : /\ Number(given, "max_missing_prefix_ms", d, 0) = 30 * ms
             /\ Number(given, "max_missing_suffix_ms", d, 0) = 30 * ms
             /\ Number(given, "max_internal_gap_ms", d, 10 * ms) = 30 * ms
  BY Durations DEF IsGenerated, GivesNumbers, Number, AtLeast
<1> QED  BY <1>1, <1>2, <1>3 DEF Coverage

LEMMA GeneratedScanWindow ==
    ASSUME NEW o, NEW ms \in Nat \ {0}, NEW given, IsGenerated(given, o, ms),
           GeneratedWithinLimits(ms)
    PROVE  ScanWindow(given) =
               [fallback |-> 100 * ms, minMeasured |-> ms, maxMeasured |-> 500 * ms,
                preferMeasured |-> FALSE, stampPolicy |-> "scan_end"]
<1>1. Number(given, "lidar_scan_duration_ms", Defaults.scanDuration, Limits.scanDuration)
          = 100 * ms
  BY LimitsAreIntegers, Durations DEF GeneratedWithinLimits, IsGenerated, GivesNumbers, Number, AtLeast
<1>2. Number(given, "lidar_min_measured_scan_duration_ms", Defaults.minMeasured,
             Limits.measuredDuration) = ms
  BY LimitsAreIntegers DEF GeneratedWithinLimits, IsGenerated, GivesNumbers, Number, AtLeast
<1>3. MaxMeasured(given, ms) = 500 * ms
  BY Durations DEF MaxMeasured, IsGenerated, GivesNumbers, Number, AtLeast
<1>4. /\ Declared(given, "lidar_prefer_measured_header_period", TRUE) = FALSE
      /\ Declared(given, "lidar_stamp_policy", "scan_end") = "scan_end"
  BY Zenon DEF IsGenerated, GivesTexts
<1>5. OneOf("scan_end", {"scan_start", "scan_middle", "scan_end"}, "scan_end") = "scan_end"
  BY DEF OneOf
<1> QED  BY <1>1, <1>2, <1>3, <1>4, <1>5, ZenonT(60) DEF ScanWindow

\* What init writes is what the node of the session runs with: no value is
\* below a limit or outside a known set and replaced by another.
THEOREM GeneratedSessionIsTaken ==
    ASSUME NEW o, NEW ms \in Nat \ {0}, NEW given, given = GeneratedParameters(o, ms),
           NamesOutput(o), GeneratedWithinLimits(ms), IntModulus > 129
    PROVE  /\ Gate(given) = [mode |-> o.mode, minTotal |-> 5, minWindow |-> 2,
                             hasCheckedTopic |-> TRUE]
           /\ GapThresholds(given) = [imu |-> 30 * ms, lidar |-> 200 * ms]
           /\ HoldbackQueue(given) =
                 [enabled |-> TRUE, tolerance |-> 10 * ms, maxPending |-> 64]
           /\ Coverage(given) = [retention |-> 5000 * ms, maxPrefix |-> 30 * ms,
                                 maxSuffix |-> 30 * ms, maxGap |-> 30 * ms]
           /\ ScanWindow(given) =
                 [fallback |-> 100 * ms, minMeasured |-> ms, maxMeasured |-> 500 * ms,
                  preferMeasured |-> FALSE, stampPolicy |-> "scan_end"]
<1>0. IsGenerated(given, o, ms)
  BY GeneratedIsGenerated
<1>1. Gate(given) = [mode |-> o.mode, minTotal |-> 5, minWindow |-> 2,
                     hasCheckedTopic |-> TRUE]
  BY <1>0, GeneratedGate
<1>2. GapThresholds(given) = [imu |-> 30 * ms, lidar |-> 200 * ms]
  BY <1>0, GeneratedGaps
<1>3. HoldbackQueue(given) = [enabled |-> TRUE, tolerance |-> 10 * ms, maxPending |-> 64]
  BY <1>0, GeneratedHoldback
<1>4. Coverage(given) = [retention |-> 5000 * ms, maxPrefix |-> 30 * ms,
                         maxSuffix |-> 30 * ms, maxGap |-> 30 * ms]
  BY <1>0, GeneratedCoverage
<1>5. ScanWindow(given) =
          [fallback |-> 100 * ms, minMeasured |-> ms, maxMeasured |-> 500 * ms,
           preferMeasured |-> FALSE, stampPolicy |-> "scan_end"]
  BY <1>0, GeneratedScanWindow
<1> QED  BY <1>1, <1>2, <1>3, <1>4, <1>5

\* In a generated session no scan of at least one IMU period is blamed on an IMU
\* stream of 100 messages a second.
THEOREM GeneratedSessionTakesNominalScans ==
    ASSUME NEW o, NEW ms \in Nat \ {0}, NEW given, given = GeneratedParameters(o, ms),
           GeneratedWithinLimits(ms),
           MaxMissingPrefix = Coverage(given).maxPrefix,
           MaxMissingSuffix = Coverage(given).maxSuffix,
           MaxInternalGap = Coverage(given).maxGap,
           NEW window \in [start : Int, end : Int], NEW stamps \in SUBSET Int,
           window.start + 10 * ms <= window.end,
           IsNominal(window, stamps, 10 * ms)
    PROVE  Analyze(window, stamps) = "ok"
<1>0. IsGenerated(given, o, ms)
  BY GeneratedIsGenerated
<1>1. MaxMissingPrefix = 30 * ms /\ MaxMissingSuffix = 30 * ms /\ MaxInternalGap = 30 * ms
  BY <1>0, GeneratedCoverage
<1>2. 10 * ms \in Nat \ {0} /\ 30 * ms \in Nat /\ 30 * ms >= 10 * ms
  OBVIOUS
<1> QED  BY <1>1, <1>2, NominalStreamIsOk
=============================================================================
