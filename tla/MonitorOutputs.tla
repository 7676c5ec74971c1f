--------------------------- MODULE MonitorOutputs ---------------------------
(***************************************************************************)
(* What leaves the monitor, put together: the diagnostic topics, on their  *)
(* way to /diagnostics (StatusBridge), and the HTML report                 *)
(* (AtomicFileWriter).  The monitor runs one callback at a time.  That of  *)
(* a cloud publishes its verdict on the topics; that of the timer          *)
(* publishes and then, in the profile "debug_report" with a path for the   *)
(* report, writes the same verdict there.  The monitor may be killed at    *)
(* any point of either and started anew; topics and bridge go on beside.   *)
(***************************************************************************)
EXTENDS StatusBridge, AtomicFileWriter

VARIABLE toReport   \* the timer's callback has still to write its report

vars == <<bridgeVars, writerVars, toReport>>

Init ==
    /\ BridgeInit
    /\ WriterInit
    /\ toReport = FALSE

\* No callback of the monitor is running.
IsIdle == unsent = <<>> /\ ~toReport /\ pc = "idle"

\* ProcessLidarCloud
OnLidarReceived(v) ==
    /\ IsIdle
    /\ Decide(v)
    /\ UNCHANGED <<writerVars, toReport>>

\* The timers after MaxCalls reports are those of a profile without one.
OnTimer(v) ==
    /\ IsIdle
    /\ Decide(v)
    /\ toReport' = (calls < MaxCalls)
    /\ UNCHANGED writerVars

\* PublishDiagnosticTopics, topic by topic.
Publish ==
    /\ PublishNext
    /\ UNCHANGED <<writerVars, toReport>>

\* Slip: the report is written before the topics are served.
WriteReport_First ==
    /\ toReport
    /\ toReport' = FALSE
    /\ Call
    /\ UNCHANGED bridgeVars

\* Once the topics are served, the timer calls WriteTextFileAtomically.
WriteReport ==
    /\ unsent = <<>>
    /\ toReport
    /\ toReport' = FALSE
    /\ Call
    /\ UNCHANGED bridgeVars

ContinueReport ==
    /\ Open \/ Write \/ Close \/ Rename
    /\ UNCHANGED <<bridgeVars, toReport>>

\* Whatever its callback had still to do is not done.
Die ==
    /\ MonitorDies
    /\ toReport' = FALSE
    /\ IF pc = "idle" THEN UNCHANGED writerVars ELSE Crash

\* The topics and the bridge.
Transport ==
    /\ \/ \E t \in Topics : Lose(t) \/ Deliver(t)
       \/ PublishDiagnostics
    /\ UNCHANGED <<writerVars, toReport>>

Next ==
    \/ \E v \in Verdicts : OnLidarReceived(v) \/ OnTimer(v)
    \/ Publish
    \/ WriteReport
    \/ ContinueReport
    \/ Die
    \/ Transport

Spec == Init /\ [][Next]_vars

\* The timer of the monitor keeps it publishing and a callback runs to its end;
\* the bridge's timer keeps running; a topic does not lose every message.
\* Nothing keeps the monitor from being killed again and again.
Fairness ==
    /\ WF_vars(\E v \in Verdicts : OnTimer(v))
    /\ WF_vars(Publish)
    /\ WF_vars(WriteReport)
    /\ WF_vars(ContinueReport)
    /\ WF_vars(PublishDiagnostics /\ UNCHANGED <<writerVars, toReport>>)
    /\ \A t \in Topics : SF_vars(Deliver(t) /\ UNCHANGED <<writerVars, toReport>>)

FairSpec == Spec /\ Fairness
-----------------------------------------------------------------------------
\* The report never runs ahead of the topics: when a new one becomes visible, the
\* verdict it was made of is the last one published on every topic, by writers
\* that are alive and hold it.  What the bridge has still to get may be older;
\* nothing older is added to it.
ReportFollowsTopics ==
    [][output' # output =>
          /\ unsent = <<>>
          /\ \A t \in Topics : held[t] = verdict]_vars

\* Once every verdict of the monitor is the same, the bridge comes to report
\* it, whichever messages of the topics got lost or overtook one another, and
\* however often the monitor was killed before, between two topics or in the
\* middle of its report.
BridgeCatchesUp ==
    \A v \in Verdicts :
        <>[](verdict = v) =>
            <>[](status = [level |-> Level(v.health, v.allowed),
                           message |-> Message(Level(v.health, v.allowed))])
=============================================================================
