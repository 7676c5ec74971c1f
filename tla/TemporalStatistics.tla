------------------------- MODULE TemporalStatistics -------------------------
(***************************************************************************)
(* TemporalStatisticsAggregator (domain/statistics/temporal_statistics.cc) *)
(* as the node drives it: the timer adds a sample stamped with the node's  *)
(* clock and takes a snapshot, every cloud decision is counted.  Of an     *)
(* observation a sample keeps the health and one measured quantity, the    *)
(* IMU samples in the scan window, absent while no scan was judged; the    *)
(* other quantities are collected in the same way.                         *)
(***************************************************************************)
EXTENDS TemporalHealth, NumericStatistics, Selections

CONSTANTS ShortWindow, MediumWindow,   \* short_window_ns, medium_window_ns
          MaxRecent,                   \* max_recent_blocked_cloud_events
          Reasons,                     \* the reasons clouds are blocked for
          NoReason,                    \* the empty reason
          ClockStamps,                 \* what the node's clock may show
          Observations,                \* records [status, coverage]
          NoCoverage,                  \* the value of an empty optional coverage
          MaxSamples, MaxDecisions     \* bounds on the inputs

ASSUME AggregatorAssumption ==
    /\ ShortWindow \in Int /\ MediumWindow \in Int
    /\ MaxRecent \in Nat
    /\ ClockStamps \subseteq Int
    /\ MaxSamples \in Nat /\ MaxDecisions \in Nat
    /\ "unknown" \notin Reasons

VARIABLES
    rolling,        \* rolling_samples_
    session,        \* session_samples_
    counters,       \* cloud_decision_*_count_
    blockReasons,   \* cloud_block_reasons_
    recent,         \* recent_blocked_cloud_events_, their sequence ids
    snapshot,       \* the last Snapshot
    decisions       \* history: every decision observed

statisticsVars == <<rolling, session, counters, blockReasons, recent, snapshot, decisions>>

AtLeastZero(n) == IF n > 0 THEN n ELSE 0
WiderWindow == AtLeastZero(IF MediumWindow > ShortWindow THEN MediumWindow ELSE ShortWindow)

ReasonKeys == Reasons \cup {"unknown"}
Outcomes == {"forwarded", "blocked_warmup", "blocked_by_gate"}

\* BuildWindowStatistics
WindowStatistics(samples) ==
    LET judged == Selected(samples, {i \in DOMAIN samples : samples[i].coverage # NoCoverage})
    IN  [count    |-> Len(samples),
         health   |-> [status \in Statuses |->
                          Cardinality({i \in DOMAIN samples : samples[i].status = status})],
         coverage |-> BuildNumericStats([i \in DOMAIN judged |-> judged[i].coverage])]

EmptySnapshot == [window \in {"short", "medium", "session"} |-> WindowStatistics(<<>>)]

StatisticsInit ==
    /\ rolling = <<>>
    /\ session = <<>>
    /\ counters = [c \in {"total"} \cup Outcomes |-> 0]
    /\ blockReasons = [key \in ReasonKeys |-> 0]
    /\ recent = <<>>
    /\ snapshot = EmptySnapshot
    /\ decisions = <<>>

\* Slip: the rolling samples are only kept for the short window.
PruneRollingSamples_Short(samples, now) ==
    LET stays(i) == samples[i].at >= now - AtLeastZero(ShortWindow)
        first == CHOOSE n \in 1 .. Len(samples) + 1 :
                     /\ n \in 1 .. Len(samples) => stays(n)
                     /\ \A i \in 1 .. n - 1 : ~stays(i)
    IN  SubSeq(samples, first, Len(samples))

\* Samples are popped from the front while they are too old; the first that is
\* recent enough ends it.
PruneRollingSamples(samples, now) ==
    LET stays(i) == samples[i].at >= now - WiderWindow
        first == CHOOSE n \in 1 .. Len(samples) + 1 :
                     /\ n \in 1 .. Len(samples) => stays(n)
                     /\ \A i \in 1 .. n - 1 : ~stays(i)
    IN  SubSeq(samples, first, Len(samples))

SamplesSince(samples, cutoff) ==
    Selected(samples, {i \in DOMAIN samples : samples[i].at >= cutoff})

\* The timer: Observe, then Snapshot, with the same reading of the clock.
ObserveAndSnapshot(now, observation) ==
    LET sample == [at |-> now, status |-> observation.status, coverage |-> observation.coverage]
        Since(window) == SamplesSince(rolling', now - AtLeastZero(window))
    IN  /\ Len(session) < MaxSamples
        /\ rolling' = PruneRollingSamples(Append(rolling, sample), now)
        /\ session' = Append(session, sample)
        /\ snapshot' = [short   |-> WindowStatistics(Since(ShortWindow)),
                        medium  |-> WindowStatistics(Since(MediumWindow)),
                        session |-> WindowStatistics(session')]
        /\ UNCHANGED <<counters, blockReasons, recent, decisions>>

RecentLimit == IF MaxRecent > 1 THEN MaxRecent ELSE 1

\* Slip: the new event is refused when the list is full.
KeepRecent_First(events) ==
    IF Len(events) > RecentLimit THEN SubSeq(events, 1, RecentLimit) ELSE events

\* The oldest events go when there are too many.
KeepRecent(events) ==
    IF Len(events) > RecentLimit
    THEN SubSeq(events, Len(events) - RecentLimit + 1, Len(events)) ELSE events

ReasonKey(reason) == IF reason = NoReason THEN "unknown" ELSE reason

\* A decision; the node numbers them from one.
ObserveCloudDecision(outcome, reason) ==
    /\ Len(decisions) < MaxDecisions
    /\ decisions' = Append(decisions, [outcome |-> outcome, reason |-> reason])
    /\ counters' = [counters EXCEPT !.total = @ + 1, ![outcome] = @ + 1]
    /\ IF outcome = "forwarded"
       THEN UNCHANGED <<blockReasons, recent>>
       ELSE /\ blockReasons' = [blockReasons EXCEPT ![ReasonKey(reason)] = @ + 1]
            /\ recent' = KeepRecent(Append(recent, Len(decisions')))
    /\ UNCHANGED <<rolling, session, snapshot>>

StatisticsNext ==
    \/ \E now \in ClockStamps, observation \in Observations :
          ObserveAndSnapshot(now, observation)
    \/ \E outcome \in Outcomes, reason \in Reasons \cup {NoReason} :
          ObserveCloudDecision(outcome, reason)

StatisticsSpec == StatisticsInit /\ [][StatisticsNext]_statisticsVars
-----------------------------------------------------------------------------
BlockedClouds == {i \in 1 .. Len(decisions) : decisions[i].outcome # "forwarded"}
Blocked == [n \in 1 .. Cardinality(BlockedClouds) |-> Nth(BlockedClouds, n)]
BlockedFor(key) == {i \in BlockedClouds : ReasonKey(decisions[i].reason) = key}

\* The recent events are the latest blocked clouds in their order, however
\* forwarded ones fall between them.
RecentAreTheLatestBlocked ==
    recent = SubSeq(Blocked, IF Len(Blocked) > RecentLimit
                             THEN Len(Blocked) - RecentLimit + 1 ELSE 1, Len(Blocked))

\* What the aggregator keeps of the decisions agrees with all of them: each
\* cloud is counted under one outcome, each blocked one under one reason, the
\* counts the report derives add up, and the recent events are the latest.
RecordsMatchDecisions ==
    /\ counters.total = Len(decisions)
    /\ counters.total = counters["forwarded"] + counters["blocked_warmup"]
                          + counters["blocked_by_gate"]
    /\ Len(Blocked) = counters["blocked_warmup"] + counters["blocked_by_gate"]
    /\ \A key \in ReasonKeys : blockReasons[key] = Cardinality(BlockedFor(key))
    /\ RecentAreTheLatestBlocked

ClockNeverWentBack ==
    \A i, j \in 1 .. Len(session) : i < j => session[i].at <= session[j].at

\* While the node's clock never goes back, pruning takes nothing a window of
\* the report still wants: each window is computed from all samples of the
\* session that fall into it, also when short_window_ns exceeds medium_window_ns.
WindowsAreComplete ==
    session # <<>> /\ ClockNeverWentBack =>
        LET now == session[Len(session)].at
        IN  /\ snapshot.short  = WindowStatistics(SamplesSince(session, now - AtLeastZero(ShortWindow)))
            /\ snapshot.medium = WindowStatistics(SamplesSince(session, now - AtLeastZero(MediumWindow)))

=============================================================================
