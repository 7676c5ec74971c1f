-------------------------- MODULE SessionDirectory --------------------------
(***************************************************************************)
(* apps/ros2/session_app.cc and session_cli.cc: the commands of            *)
(* causal_slam_session and the directory they write to.  init generates    *)
(* the configuration and the scripts of a session, summarize the artifacts *)
(* of a recording.  The files are written one after the other, in place:   *)
(* every step may fail, the process may be killed between any two, and     *)
(* only the opening of some files is checked for failure.                  *)
(*                                                                         *)
(* Contents are abstracted to the number of the call that wrote the file,  *)
(* and whether all of them are there.                                      *)
(***************************************************************************)
EXTENDS Integers

CONSTANTS
    MaxCalls,     \* bound on the calls of the tool
    Lossy,        \* the files of which a failure may go unseen (a bound)
    Options,      \* the command lines it may be called with
    TopicType     \* the topics of the bag, and their types

NoCommand == "none"
Absent == -1      \* the file is not there
Older == 0        \* the file is of an earlier session in the directory

\* The files init writes, in its order; summarize writes the others: the logs
\* while it reads the recording, then the summaries.
Generated == 1 .. 9
SessionYaml == 1
TemporalMonitorYaml == 2
RunTemporalMonitor == 3
RunBagPlay == 4
RecordDiagnostics == 5
SummarizeDiagnostics == 6
RunAllObserve == 7
RunFoxgloveBridge == 8
Readme == 9
Timeline == 10
Decisions == 11
SummaryText == 12
SummaryJson == 13

Scripts == RunTemporalMonitor .. RunFoxgloveBridge
Logs == {Timeline, Decisions}
Artifacts == Timeline .. SummaryJson
Files == 1 .. SummaryJson

\* The options of a command line, "" and {} where it does not give them.
CommandLines ==
    [command : {"help", "discover", "init", "summarize"}, readable : BOOLEAN,
     given : SUBSET {"bag", "lidar_topic", "imu_topic", "output_dir", "diagnostics_bag"},
     mode : STRING, playRate : {"zero", "negative", "positive", "nan"},
     lidarTopic : STRING, imuTopic : STRING]

ASSUME DirectoryAssumption ==
    /\ MaxCalls \in Nat
    /\ Lossy \subseteq Files
    /\ Options \subseteq CommandLines

VARIABLES
    writer,       \* the call that wrote each file, or Absent
    whole,        \* the files with all of their contents
    executable,   \* the scripts with their permission set
    command,      \* the command being executed, or NoCommand
    file,         \* the file it comes to next
    phase,        \* "open", "write" or "permit" that file; "read" the bag
    unopened,     \* the logs it could not open
    calls,        \* number of the last call
    status,       \* exit status of the last call, Killed or Busy
    silent        \* history: the files whose last writing failed unseen

directory == <<writer, whole, executable>>
tool == <<command, file, phase, unopened, calls, status>>
directoryVars == <<directory, tool, silent>>

Busy == -1
Killed == 137

\* A new directory, or one in which a session was generated and summarized.
DirectoryInit ==
    /\ \/ writer = [f \in Files |-> Absent] /\ whole = {} /\ executable = {}
       \/ writer = [f \in Files |-> Older] /\ whole = Files /\ executable = Scripts
    /\ command = NoCommand
    /\ file = SessionYaml /\ phase = "open" /\ unopened = {}
    /\ calls = 0 /\ status = 0
    /\ silent = {}

DirectoryTypeOK ==
    /\ writer \in [Files -> Absent .. calls]
    /\ whole \subseteq Files /\ executable \subseteq Scripts
    /\ command \in {NoCommand, "init", "summarize"}
    /\ file \in Files /\ phase \in {"open", "write", "permit", "read"}
    /\ unopened \subseteq Logs
    /\ calls \in Nat /\ status \in {Busy, Killed, 0, 2, 3}
    /\ silent \subseteq Files
-----------------------------------------------------------------------------
(* The command line. *)

GateModes == {"observe", "drop_invalid", "drop_degraded", "strict"}

Required ==
    [help      |-> {},
     discover  |-> {"bag"},
     init      |-> {"bag", "lidar_topic", "imu_topic", "output_dir"},
     summarize |-> {"diagnostics_bag", "output_dir"}]

\* ParseSessionArgs.  A command line is readable when its command and options
\* are known, each followed by a value; a rate that is not a number passes.
ParseSessionArgs(o) ==
    \/ o.command = "help"
    \/ /\ o.readable
       /\ Required[o.command] \subseteq o.given
       /\ o.command = "init" => o.mode \in GateModes /\ o.playRate \notin {"zero", "negative"}

HasType(topic, type) == topic \in DOMAIN TopicType /\ TopicType[topic] = type

ValidateInitTopics(o) ==
    /\ HasType(o.lidarTopic, "PointCloud2")
    /\ HasType(o.imuTopic, "Imu")

\* The tool ends; where it was is forgotten.
Return(code) ==
    /\ command' = NoCommand
    /\ status' = code
    /\ file' = SessionYaml
    /\ phase' = "open"
    /\ unopened' = {}

Begin(c, f, p) ==
    /\ command' = c
    /\ file' = f
    /\ phase' = p
    /\ unopened' = {}
    /\ status' = Busy

\* The bag cannot be opened, or is and its topics are listed.
RunDiscover == Return(0) \/ Return(2)

\* The bag cannot be opened, a topic is missing or of the wrong type, the
\* directory cannot be created; or the writing begins.
RunInit(o) ==
    \/ Return(2)
    \/ ValidateInitTopics(o) /\ Begin("init", SessionYaml, "open")

RunSummarize ==
    \/ Return(2)
    \/ Begin("summarize", Timeline, "read")

RunSessionCli(o) ==
    /\ command = NoCommand
    /\ calls < MaxCalls
    /\ calls' = calls + 1
    /\ \/ ~ParseSessionArgs(o) /\ Return(2)
       \/ o.command = "help" /\ Return(0)
       \/ /\ ParseSessionArgs(o)
          /\ \/ o.command = "discover" /\ RunDiscover
             \/ o.command = "init" /\ RunInit(o)
             \/ o.command = "summarize" /\ RunSummarize
    /\ UNCHANGED <<directory, silent>>
-----------------------------------------------------------------------------
(* Writing the files. *)

\* A file is opened: it is created or emptied, and keeps its permissions.
Truncated(files) ==
    /\ writer' = [f \in Files |-> IF f \in files THEN calls ELSE writer[f]]
    /\ whole' = whole \ files
    /\ UNCHANGED executable

\* Some of the files fail, and nobody looks.
Unseen(lost, files) == silent' = (silent \ files) \cup lost

\* What is buffered reaches the files when they are closed, or does not.
Flushed(files) ==
    \E lost \in SUBSET (files \cap Lossy) :
        /\ whole' = whole \cup (files \ lost)
        /\ Unseen(lost, files)

IsLast(f) == f \in {Readme, SummaryJson}

\* The file is done: the next one, or the end.
Advance ==
    IF IsLast(file)
    THEN Return(0)
    ELSE /\ file' = file + 1
         /\ phase' = "open"
         /\ UNCHANGED <<command, status, unopened>>

\* Slip: a file that cannot be opened is left out.
OpenFile_Unchecked ==
    /\ command # NoCommand /\ phase = "open"
    /\ \/ Truncated({file}) /\ phase' = "write" /\ UNCHANGED <<command, status, file, unopened>>
       \/ Advance /\ UNCHANGED directory
    /\ UNCHANGED <<calls, silent>>

\* std::ofstream file{path}; if (!file) ...
OpenFile ==
    /\ command # NoCommand /\ phase = "open"
    /\ \/ Truncated({file}) /\ phase' = "write" /\ UNCHANGED <<command, status, file, unopened>>
       \/ Return(3) /\ UNCHANGED directory
    /\ UNCHANGED <<calls, silent>>

WriteFile ==
    /\ command # NoCommand /\ phase = "write"
    /\ Flushed({file})
    /\ IF file \in Scripts
       THEN phase' = "permit" /\ UNCHANGED <<command, status, file, unopened>>
       ELSE Advance
    /\ UNCHANGED <<writer, executable, calls>>

\* Slip: a permission that cannot be set is left as it is.
PermitScript_Unchecked ==
    /\ command # NoCommand /\ phase = "permit"
    /\ executable' \in {executable, executable \cup {file}}
    /\ Advance
    /\ UNCHANGED <<writer, whole, calls, silent>>

\* The end of WriteExecutableScript: permissions may throw.
PermitScript ==
    /\ command # NoCommand /\ phase = "permit"
    /\ \/ executable' = executable \cup {file} /\ Advance
       \/ Return(2) /\ UNCHANGED executable
    /\ UNCHANGED <<writer, whole, calls, silent>>

\* Slip: what is no recording is summarized as an empty one.
OpenRecording_TakesAnything ==
    /\ command # NoCommand /\ phase = "read" /\ file = Timeline
    /\ \/ /\ Truncated(Logs)
          /\ file' = Decisions
          /\ UNCHANGED phase
       \/ /\ file' = SummaryText /\ phase' = "open"
          /\ UNCHANGED directory
    /\ UNCHANGED <<command, status, unopened, calls, silent>>

\* ReadRuntimeDiagnostics, its beginning: the recording may turn out not to be
\* one.  Whether the logs could be opened is not looked at.
OpenRecording ==
    /\ command # NoCommand /\ phase = "read" /\ file = Timeline
    /\ \/ \E refused \in SUBSET (Logs \cap Lossy) :
             /\ Truncated(Logs \ refused)
             /\ unopened' = refused
             /\ Unseen(refused, {})
             /\ file' = Decisions
             /\ UNCHANGED <<command, status, phase>>
       \/ Return(2) /\ UNCHANGED <<directory, silent>>
    /\ UNCHANGED calls

\* Its loop and its end: a message that cannot be read ends the call, with the
\* logs as far as they have come.
ReadRecording ==
    /\ command # NoCommand /\ phase = "read" /\ file = Decisions
    /\ \/ /\ Flushed(Logs \ unopened)
          /\ file' = SummaryText /\ phase' = "open"
          /\ UNCHANGED <<command, status, unopened>>
       \/ Return(2) /\ UNCHANGED <<whole, silent>>
    /\ UNCHANGED <<writer, executable, calls>>

ReadRuntimeDiagnostics == OpenRecording \/ ReadRecording

\* One step of writing a file and nothing else.
WritePlainFile(f) == file = f /\ (OpenFile \/ WriteFile)

WriteSessionYaml == WritePlainFile(SessionYaml)
WriteTemporalMonitorYaml == WritePlainFile(TemporalMonitorYaml)
WriteExecutableScript(f) == file = f /\ (OpenFile \/ WriteFile \/ PermitScript)
WriteRunScripts == \E f \in Scripts : WriteExecutableScript(f)
WriteGeneratedReadme == WritePlainFile(Readme)
WriteDiagnosticSummaryText == WritePlainFile(SummaryText)
WriteDiagnosticSummaryJson == WritePlainFile(SummaryJson)

ToolStep ==
    \/ WriteSessionYaml \/ WriteTemporalMonitorYaml \/ WriteRunScripts
    \/ WriteGeneratedReadme
    \/ ReadRuntimeDiagnostics
    \/ WriteDiagnosticSummaryText \/ WriteDiagnosticSummaryJson

Kill ==
    /\ command # NoCommand
    /\ Return(Killed)
    /\ UNCHANGED <<directory, calls, silent>>

DirectoryNext ==
    \/ \E o \in Options : RunSessionCli(o)
    \/ ToolStep
    \/ Kill

DirectorySpec == DirectoryInit /\ [][DirectoryNext]_directoryVars
-----------------------------------------------------------------------------
CanBeStarted(f) == f \in whole /\ f \in executable

\* What run_all_observe.sh starts, and what that starts or reads.
StartedScripts == {RunTemporalMonitor, RunBagPlay, RecordDiagnostics, SummarizeDiagnostics}

\* The generated files there are were all written by one call.
OfOneCall == \A f \in Generated : writer[f] \in {Absent, writer[RunAllObserve]}

\* Where one call alone has written, even one that failed or was killed
\* halfway, run_all_observe.sh can only be started once everything it relies on
\* is complete and of the same call.
StartableSessionIsWhole ==
    CanBeStarted(RunAllObserve) /\ OfOneCall /\ silent = {} =>
        /\ TemporalMonitorYaml \in whole
        /\ \A f \in StartedScripts : CanBeStarted(f)
        /\ \A f \in StartedScripts \cup {TemporalMonitorYaml} :
              writer[f] = writer[RunAllObserve]

\* A call that reports success after writing the README has written a whole
\* session, over whatever an earlier call has left of another one.
InitializedSessionIsUniform ==
    status = 0 /\ writer[Readme] = calls =>
        /\ \A f \in Generated : writer[f] = calls
        /\ Generated \ silent \subseteq whole
        /\ Scripts \subseteq executable

\* A summary never runs ahead of the logs it goes with: whenever calls fail or
\* are killed, the logs next to a summary are of its recording or a later one.
SummaryFollowsItsLogs ==
    \A log \in Logs \ silent :
        writer[SummaryJson] <= writer[SummaryText] /\ writer[SummaryText] <= writer[log]
=============================================================================
