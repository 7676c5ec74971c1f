-------------------------------- MODULE Session --------------------------------
(***************************************************************************)
(* A session as its user sees it, the composition of SessionDirectory and  *)
(* SessionRunner: calls of causal_slam_session write a directory, and its  *)
(* run_all_observe.sh is started in it, which runs the other scripts of    *)
(* the directory and in the end has the tool summarize the recording.      *)
(*                                                                         *)
(* The user gives one command at a time.  A signal that ends the script    *)
(* may leave the tool it has called running, or take it along (Kill).      *)
(***************************************************************************)
EXTENDS SessionRunner, SessionDirectory

CONSTANT SummarizeThis   \* the command line in summarize_diagnostics.sh

ASSUME SessionAssumption ==
    SummarizeThis \in Options /\ SummarizeThis.command = "summarize"

VARIABLES
    launched,     \* run_all_observe.sh was started
    own           \* the number of the call it made, 0 before

sessionVars == <<vars, directoryVars, launched, own>>

SessionInit ==
    /\ Init
    /\ DirectoryInit
    /\ launched = FALSE
    /\ own = 0
-----------------------------------------------------------------------------
(* What the user does; once the script was started, no more (a bound). *)

UserCalls(o) ==
    /\ ~launched
    /\ RunSessionCli(o)
    /\ UNCHANGED <<vars, launched, own>>

\* The script is started once; it keeps its place among the MaxCalls calls.
Launch ==
    /\ ~launched
    /\ command = NoCommand
    /\ CanBeStarted(RunAllObserve)
    /\ calls < MaxCalls
    /\ launched' = TRUE
    /\ status' = Busy
    /\ UNCHANGED <<vars, directory, command, file, phase, unopened, calls, silent, own>>
-----------------------------------------------------------------------------
(* The scripts of the directory. *)

IsRunnable(f) == f \in executable /\ writer[f] # Absent

\* record_diagnostics.sh has to be there to record.
Record ==
    /\ CreateBag
    /\ IsRunnable(RecordDiagnostics)
    /\ UNCHANGED <<directoryVars, launched, own>>

\* The leader of a group ends.  A script that cannot be executed ends with an
\* error; one of which only a part was written may end in any way.
GroupEnds(g) ==
    /\ launched
    /\ EndLeader(g)
    /\ g = "player" /\ ~IsRunnable(RunBagPlay) => playFailed'
    /\ UNCHANGED <<directoryVars, launched, own>>

RestOfGroupEnds(g) ==
    /\ EndRest(g)
    /\ UNCHANGED <<directoryVars, launched, own>>

GroupDetaches(g) ==
    /\ Detach(g)
    /\ UNCHANGED <<directoryVars, launched, own>>

ScriptSignalled ==
    /\ launched
    /\ Signal
    /\ UNCHANGED <<directoryVars, launched, own>>

\* Everything the script does up to the summary.
ScriptRunsGroups ==
    /\ launched
    /\ \/ CheckSetsid
       \/ \E g \in Groups : Start(g) \/ NotePid(g) \/ Sleep(g) \/ StopProcessGroup(g)
       \/ WaitForPlayer
       \/ Untrap
       \/ HandleSignal
    /\ UNCHANGED <<directoryVars, launched, own>>

Summarized(code) ==
    /\ Exit(code)
    /\ summarized' = IF code = 0 THEN LatestBag ELSE summarized
    /\ UNCHANGED <<pid, trap, pending, known, groups>>

\* There is nothing to summarize; or summarize_diagnostics.sh cannot be
\* executed, or is not complete and does what it says up to there.
NoSummary ==
    /\ At("summarize", "recorder") /\ own = 0
    /\ \/ Summarize /\ (playFailed \/ bags = {})
       \/ /\ ~playFailed /\ bags # {}
          /\ ~CanBeStarted(SummarizeDiagnostics)
          /\ \/ Summarized(2)
             \/ IsRunnable(SummarizeDiagnostics) /\ Summarized(0)
    /\ UNCHANGED <<directoryVars, launched, own>>

\* Slip: the recording of a failed playback is summarized like any other.
CallSummarize_Anyway ==
    /\ At("summarize", "recorder") /\ own = 0
    /\ bags # {}
    /\ CanBeStarted(SummarizeDiagnostics)
    /\ RunSessionCli(SummarizeThis)
    /\ own' = calls'
    /\ UNCHANGED <<vars, launched>>

\* ./summarize_diagnostics.sh "$DIAG_BAG"
CallSummarize ==
    /\ At("summarize", "recorder") /\ own = 0
    /\ ~playFailed /\ bags # {}
    /\ CanBeStarted(SummarizeDiagnostics)
    /\ RunSessionCli(SummarizeThis)
    /\ own' = calls'
    /\ UNCHANGED <<vars, launched>>

\* Slip: the script ends with its last command, an echo.
SummarizeReturns_WithoutSetE ==
    /\ At("summarize", "recorder") /\ own # 0
    /\ command = NoCommand
    /\ Summarized(0)
    /\ UNCHANGED <<directoryVars, launched, own>>

\* set -e: the script ends with the status of the tool, if that failed.
SummarizeReturns ==
    /\ At("summarize", "recorder") /\ own # 0
    /\ command = NoCommand
    /\ Summarized(status)
    /\ UNCHANGED <<directoryVars, launched, own>>

ToolAlone ==
    /\ ToolStep \/ Kill
    /\ UNCHANGED <<vars, launched, own>>

ScriptGoesOn == ScriptRunsGroups \/ NoSummary \/ CallSummarize \/ SummarizeReturns

SessionNext ==
    \/ \E o \in Options : UserCalls(o)
    \/ Launch
    \/ ScriptRunsGroups \/ NoSummary \/ CallSummarize \/ SummarizeReturns
    \/ ScriptSignalled
    \/ \E g \in Groups : GroupDetaches(g) \/ GroupEnds(g) \/ RestOfGroupEnds(g)
    \/ Record
    \/ ToolAlone

\* bash goes on; setsid takes effect; the player reaches the end of its bag;
\* SIGKILL ends the leader of a group; a call of the tool comes to its end.
SessionFairness ==
    /\ WF_sessionVars(ScriptGoesOn)
    /\ WF_sessionVars(ToolAlone)
    /\ \A g \in Groups :
          /\ WF_sessionVars(GroupDetaches(g))
          /\ WF_sessionVars(sent[g] = "KILL" /\ GroupEnds(g))
    /\ WF_sessionVars(GroupEnds("player"))

SessionSpec == SessionInit /\ [][SessionNext]_sessionVars /\ SessionFairness
-----------------------------------------------------------------------------
\* When one call of init has written the session and none of its failures went
\* unseen, a script that reports success had waited for the player and stopped
\* recorder and monitor before it had the recording summarized, and all the
\* artifacts are of the call it made, complete but for those of which nobody saw
\* the failure.
SuccessMeansItsOwnSummary ==
    [][exitCode = Running /\ exitCode' = 0 /\ OfOneCall /\ silent \cap Generated = {} =>
          /\ own # 0
          /\ \A a \in Artifacts \ silent : writer[a] = own /\ a \in whole
          /\ ~playFailed /\ \A g \in Groups : IsDone(g)]_sessionVars

\* Unless a signal comes in the instant in which a group has been started but
\* setsid has not taken effect, the script ends once it was started.
LaunchedScriptEnds ==
    [](pending => \A g \in Groups : group[g] # "started") =>
        (launched ~> exitCode # Running)

\* Whatever is in the directory, the script is the one SessionRunner describes,
\* for which the summary is one step.
ImplementsSessionRunner == Spec
=============================================================================
