---------------------------- MODULE SessionRunner ----------------------------
(***************************************************************************)
(* run_all_observe.sh, which apps/ros2/session_app.cc generates: it starts *)
(* the monitor, the recorder of its verdicts and the player of the bag,    *)
(* waits for the player, stops the others and has the recording            *)
(* summarized.  Each of the three is a process group of its own: its       *)
(* leader, whose number the script notes and which it waits for, and the   *)
(* processes that one has started.  Any of them may end early, refuse to   *)
(* stop or die late, the leader before the others.  SIGINT and SIGTERM may *)
(* reach the script at any moment; bash runs the trap before the next      *)
(* command, but if it waits for a sleep, when that has ended - at once, if *)
(* the signal was for the sleep too, as that of a terminal is.             *)
(***************************************************************************)
EXTENDS Integers, Sequences

VARIABLES
    pc,           \* the next command, <<command, group>>
    stage,        \* how far stop_process_group has come: "begin", "INT", ...
    pid,          \* the groups whose *_PID variable is set
    trap,         \* "set", "ignored" or "default"
    pending,      \* a signal waits for its trap
    exitCode,     \* of the script, or Running
    group,        \* what each process group is doing
    sent,         \* the last signal the script sent to the processes of each,
                  \* or "missed": it looked for them before setsid took effect
    playFailed,   \* the leader of the player's group ended with an error
    bags,         \* the recordings in the directory: "older", "this"
    summarized,   \* the recording summarized
    known         \* history: the groups whose *_PID was ever set

script == <<pc, stage, pid, trap, pending, exitCode, summarized, known>>
groups == <<group, sent, playFailed, bags>>
vars == <<script, groups>>

Groups == {"monitor", "recorder", "player"}
Running == -1
None == "none"

Init ==
    /\ pc = <<"check", "monitor">>
    /\ stage = "begin"
    /\ pid = {}
    /\ trap = "set"
    /\ pending = FALSE
    /\ exitCode = Running
    /\ group = [g \in Groups |-> "not_started"]
    /\ sent = [g \in Groups |-> None]
    /\ playFailed = FALSE
    /\ bags \in SUBSET {"older"}
    /\ summarized = None
    /\ known = {}
-----------------------------------------------------------------------------
(* The process groups. *)

\* A started process leaves the script's group when setsid takes effect.
Detach(g) ==
    /\ group[g] = "started"
    /\ group' = [group EXCEPT ![g] = "detached"]
    /\ UNCHANGED <<script, sent, playFailed, bags>>

\* process_group_has_live_processes
IsLive(g) == group[g] \in {"detached", "leaderless"}

LeaderEnded(g) == group[g] \in {"leaderless", "ended"}

\* The recorder creates the directory of its recording.
CreateBag ==
    /\ IsLive("recorder")
    /\ bags' = bags \cup {"this"}
    /\ UNCHANGED <<script, group, sent, playFailed>>

AllEnded(g) ==
    /\ group' = [group EXCEPT ![g] = "ended"]
    /\ sent' = [sent EXCEPT ![g] = None]

\* The leader of a group ends, of its own accord or by a signal, after the other
\* processes of the group or before them.
EndLeader(g) ==
    /\ \/ group[g] \in {"started", "detached"} /\ AllEnded(g)
       \/ /\ group[g] = "detached"
          /\ group' = [group EXCEPT ![g] = "leaderless"]
          /\ UNCHANGED sent
    /\ IF g = "player" THEN playFailed' \in BOOLEAN ELSE UNCHANGED playFailed
    /\ UNCHANGED <<script, bags>>

\* ... and the others end after it.
EndRest(g) ==
    /\ group[g] = "leaderless"
    /\ AllEnded(g)
    /\ UNCHANGED <<script, playFailed, bags>>
-----------------------------------------------------------------------------
(* The script. *)

\* The script is about to execute a command, and no trap comes first.
At(command, g) ==
    /\ exitCode = Running
    /\ pc = <<command, g>>
    /\ pending => command = "sleep"

Goto(command, g) == pc' = <<command, g>> /\ stage' = "begin"

Exit(code) == exitCode' = code /\ UNCHANGED <<pc, stage>>

CheckSetsid ==
    /\ At("check", "monitor")
    /\ \/ Goto("start", "monitor") /\ UNCHANGED exitCode
       \/ Exit(4)
    /\ UNCHANGED <<pid, trap, pending, summarized, known, groups>>

\* setsid ./run_... &
Start(g) ==
    /\ At("start", g)
    /\ group' = [group EXCEPT ![g] = "started"]
    /\ Goto("note", g)
    /\ UNCHANGED <<pid, trap, pending, exitCode, summarized, known, sent, playFailed, bags>>

\* ..._PID="$!"
NotePid(g) ==
    /\ At("note", g)
    /\ pid' = pid \cup {g}
    /\ known' = known \cup {g}
    /\ IF g = "player" THEN Goto("wait", g) ELSE Goto("sleep", g)
    /\ UNCHANGED <<trap, pending, exitCode, summarized, groups>>

\* The startup delays; they are long enough for setsid to take effect.
Sleep(g) ==
    /\ At("sleep", g)
    /\ group[g] # "started"
    /\ Goto("start", IF g = "monitor" THEN "recorder" ELSE "player")
    /\ UNCHANGED <<pid, trap, pending, exitCode, summarized, known, groups>>

\* wait "$PLAY_PID" waits for the leader; what is left of its group is forgotten
\* with the number.
WaitForPlayer ==
    /\ At("wait", "player")
    /\ LeaderEnded("player")
    /\ pid' = pid \ {"player"}
    /\ Goto("stop", "recorder")
    /\ UNCHANGED <<trap, pending, exitCode, summarized, known, groups>>

\* stop_process_group is done with a group: the main program goes on, cleanup
\* goes on or ends the script.
Stopped(g) ==
    /\ pid' = pid \ {g}
    /\ IF pc[1] = "stop"
       THEN /\ IF g = "recorder" THEN Goto("stop", "monitor") ELSE Goto("untrap", g)
            /\ UNCHANGED exitCode
       ELSE IF g = "monitor" THEN Exit(130)
       ELSE /\ Goto("cleanup", IF g = "player" THEN "recorder" ELSE "monitor")
            /\ UNCHANGED exitCode

\* Slip: a group that ignores SIGTERM is only waited for.
Escalated_NoKill == [begin |-> "INT", INT |-> "TERM", TERM |-> "wait", KILL |-> "wait"]

\* The signal after the last one, when its time is up.
Escalated == [begin |-> "INT", INT |-> "TERM", TERM |-> "KILL", KILL |-> "wait"]

\* The group gets the next signal, or none after the last.
SendNext(g) ==
    /\ stage' = Escalated[stage]
    /\ sent' = IF stage' = "wait" THEN sent ELSE [sent EXCEPT ![g] = stage']

\* The script finds no process of a group: there is none left, or none yet.
FindNone(g) ==
    /\ stage' = "wait"
    /\ sent' = IF group[g] = "started" THEN [sent EXCEPT ![g] = "missed"] ELSE sent

\* Slip: the group counts as gone when its leader is.
StopProcessGroup_LooksAtLeader(g) ==
    /\ At("stop", g) \/ At("cleanup", g)
    /\ \/ g \notin pid /\ Stopped(g) /\ UNCHANGED sent
       \/ g \in pid /\ stage = "wait" /\ LeaderEnded(g) /\ Stopped(g) /\ UNCHANGED sent
       \/ /\ g \in pid /\ stage # "wait"
          /\ IF group[g] = "detached" THEN SendNext(g) ELSE FindNone(g)
          /\ UNCHANGED <<pc, pid, exitCode>>
    /\ UNCHANGED <<trap, pending, summarized, known, group, playFailed, bags>>

\* One step of stop_process_group: nothing to stop; no process of the group was
\* found, or the time after SIGKILL is up, and its leader has to be waited for;
\* or the group lives, and gets the next signal - at once at the beginning, else
\* when the time for the last one is up.
StopProcessGroup(g) ==
    /\ At("stop", g) \/ At("cleanup", g)
    /\ \/ g \notin pid /\ Stopped(g) /\ UNCHANGED sent
       \/ g \in pid /\ stage = "wait" /\ LeaderEnded(g) /\ Stopped(g) /\ UNCHANGED sent
       \/ /\ g \in pid /\ stage # "wait"
          /\ IF IsLive(g) THEN SendNext(g) ELSE FindNone(g)
          /\ UNCHANGED <<pc, pid, exitCode>>
    /\ UNCHANGED <<trap, pending, summarized, known, group, playFailed, bags>>

\* trap - EXIT INT TERM
Untrap ==
    /\ At("untrap", "monitor")
    /\ trap' = "default"
    /\ Goto("summarize", "recorder")
    /\ UNCHANGED <<pid, pending, exitCode, summarized, known, groups>>

LatestBag == IF "this" \in bags THEN "this" ELSE "older"

\* What the summary may fail with: 137 when it was killed.
FailureCodes == {2, 3, 137}

\* Only a recording is summarized, the latest there is; the summary may fail.
Summarize ==
    /\ At("summarize", "recorder")
    /\ IF playFailed THEN Exit(1) /\ UNCHANGED summarized
       ELSE IF bags = {} THEN Exit(3) /\ UNCHANGED summarized
       ELSE \/ \E code \in FailureCodes : Exit(code) /\ UNCHANGED summarized
            \/ Exit(0) /\ summarized' = LatestBag
    /\ UNCHANGED <<pid, trap, pending, known, groups>>

\* A signal arrives; with the traps removed it ends the script.
Signal ==
    /\ exitCode = Running
    /\ trap # "ignored" /\ ~pending
    /\ IF trap = "set" THEN pending' = TRUE /\ UNCHANGED exitCode
       ELSE exitCode' = 130 /\ UNCHANGED pending
    /\ UNCHANGED <<pc, stage, pid, trap, summarized, known, groups>>

\* handle_signal: cleanup stops the groups, and ignores further signals.
HandleSignal ==
    /\ exitCode = Running
    /\ pending
    /\ pending' = FALSE
    /\ trap' = "ignored"
    /\ Goto("cleanup", "player")
    /\ UNCHANGED <<pid, exitCode, summarized, known, groups>>

ScriptStep ==
    \/ CheckSetsid
    \/ \E g \in Groups : Start(g) \/ NotePid(g) \/ Sleep(g) \/ StopProcessGroup(g)
    \/ WaitForPlayer
    \/ Untrap
    \/ Summarize
    \/ HandleSignal

Next ==
    \/ ScriptStep
    \/ Signal
    \/ \E g \in Groups : Detach(g) \/ EndLeader(g) \/ EndRest(g)
    \/ CreateBag

Spec == Init /\ [][Next]_vars
-----------------------------------------------------------------------------
\* What the script may leave of a group whose leader has ended: processes that
\* SIGKILL is ending, those of a player whose end it waited for, at whose group it
\* does not look, and those it looked for before setsid had taken effect.
IsDone(g) ==
    /\ LeaderEnded(g)
    /\ IsLive(g) => sent[g] \in {"KILL", "missed"} \/ (g = "player" /\ sent[g] = None)

\* Whichever way the script ends, by signals included and however stubborn the
\* groups are, the leaders whose numbers it noted are gone; and no process of
\* the recorder or the monitor is left, nor one of a player it had to stop,
\* that was not sent SIGKILL, be its leader long gone - unless the group did
\* not exist yet when a signal made the script look for it.
NoKnownGroupIsLeftRunning ==
    exitCode # Running => \A g \in known : IsDone(g)

\* "Received SIG...; stopping child processes...": none is left.  A signal
\* between a start and the next command, which notes the number, leaves one; so
\* do a leader of the player that ends before the processes it started, and a
\* group that takes longer to die of SIGKILL than the script waits.
NoGroupOutlivesScript ==
    exitCode = 130 => \A g \in Groups : group[g] \in {"not_started", "ended"}

\* "No runtime_diagnostics_* bag was produced" is what a run says that produced
\* none; it does not summarize another one's.
SummaryIsOfThisRun ==
    exitCode = 0 => summarized = "this"
=============================================================================
