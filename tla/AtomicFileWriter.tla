-------------------------- MODULE AtomicFileWriter --------------------------
(***************************************************************************)
(* platform/atomic_file_writer.cc, with which the node's timer replaces    *)
(* its HTML report: one WriteTextFileAtomically after the other, step by   *)
(* step, on a file system that may refuse a step or run full, in a process *)
(* that may be killed and started anew.  A file is Absent, or a record of  *)
(* the call whose content it holds and whether it holds all of it.         *)
(***************************************************************************)
EXTENDS Naturals

CONSTANTS Absent, NoResult,
          MaxCalls   \* bound on the calls

ASSUME CallsAssumption == MaxCalls \in Nat

VARIABLES
    output,      \* the file at output_path
    temporary,   \* the file at output_path.tmp
    pc,          \* where the current call is: "idle" between two calls
    calls,       \* history: how many calls were made; the number of the last
    before,      \* history: the output when the current call began
    unflushed,   \* part of the content still is in the stream's buffer
    result,      \* what the last call returned
    flushLost    \* history: a buffer could not be written when its file was closed

writerVars == <<output, temporary, pc, calls, before, unflushed, result, flushLost>>

Content(call, whole) == [call |-> call, whole |-> whole]

WriterInit ==
    /\ output = Absent
    /\ temporary = Absent
    /\ pc = "idle"
    /\ calls = 0
    /\ before = Absent
    /\ unflushed = FALSE
    /\ result = NoResult
    /\ flushLost = FALSE

Return(ok) == pc' = "idle" /\ result' = [ok |-> ok, call |-> calls]

\* An empty path is refused, and so is one whose directory cannot be made.
Call ==
    /\ pc = "idle"
    /\ calls < MaxCalls
    /\ calls' = calls + 1
    /\ before' = output
    /\ \/ pc' = "opening" /\ UNCHANGED result
       \/ pc' = "idle" /\ result' = [ok |-> FALSE, call |-> calls']
    /\ UNCHANGED <<output, temporary, unflushed, flushLost>>

\* Opening truncates the temporary file, or fails.
Open ==
    /\ pc = "opening"
    /\ \/ /\ pc' = "writing"
          /\ temporary' = Content(calls, FALSE)
          /\ UNCHANGED result
       \/ Return(FALSE) /\ UNCHANGED temporary
    /\ UNCHANGED <<output, calls, before, unflushed, flushLost>>

\* Slip: the state of the stream is not looked at.
Write_Unchecked ==
    /\ pc = "writing"
    /\ pc' = "closing"
    /\ \/ temporary' = Content(calls, TRUE) /\ UNCHANGED unflushed
       \/ unflushed' = TRUE /\ UNCHANGED temporary
       \/ UNCHANGED <<temporary, unflushed>>
    /\ UNCHANGED <<output, calls, before, result, flushLost>>

\* The content reaches the file or, its last part, the buffer; a failed write
\* leaves the temporary file behind.
Write ==
    /\ pc = "writing"
    /\ \/ /\ pc' = "closing"
          /\ \/ temporary' = Content(calls, TRUE) /\ UNCHANGED unflushed
             \/ unflushed' = TRUE /\ UNCHANGED temporary
          /\ UNCHANGED result
       \/ Return(FALSE) /\ UNCHANGED <<temporary, unflushed>>
    /\ UNCHANGED <<output, calls, before, flushLost>>

\* The destructor of the stream writes out the buffer; nobody learns whether
\* that failed.
Close ==
    /\ pc = "closing"
    /\ pc' = "renaming"
    /\ unflushed' = FALSE
    /\ \/ ~unflushed /\ UNCHANGED <<temporary, flushLost>>
       \/ unflushed /\ temporary' = Content(calls, TRUE) /\ UNCHANGED flushLost
       \/ unflushed /\ flushLost' = TRUE /\ UNCHANGED temporary
    /\ UNCHANGED <<output, calls, before, result>>

\* A failed rename removes the temporary file.
Rename ==
    /\ pc = "renaming"
    /\ \/ output' = temporary /\ temporary' = Absent /\ Return(TRUE)
       \/ temporary' = Absent /\ Return(FALSE) /\ UNCHANGED output
    /\ UNCHANGED <<calls, before, unflushed, flushLost>>

\* The process is killed, whose buffers are gone, and started anew.
Crash ==
    /\ pc # "idle"
    /\ pc' = "idle"
    /\ unflushed' = FALSE
    /\ UNCHANGED <<output, temporary, calls, before, result, flushLost>>

WriterNext == Call \/ Open \/ Write \/ Close \/ Rename \/ Crash

WriterSpec == WriterInit /\ [][WriterNext]_writerVars
-----------------------------------------------------------------------------
Files == {Absent} \cup [call : 1 .. MaxCalls, whole : BOOLEAN]
Results == {NoResult} \cup [ok : BOOLEAN, call : 1 .. MaxCalls]

WriterTypeOK ==
    /\ output \in Files /\ temporary \in Files /\ before \in Files
    /\ pc \in {"idle", "opening", "writing", "closing", "renaming"}
    /\ calls \in 0 .. MaxCalls
    /\ unflushed \in BOOLEAN /\ flushLost \in BOOLEAN
    /\ unflushed = TRUE => pc = "closing"
    /\ result \in Results

IsWhole(file) == file # Absent /\ file.whole

\* Whoever reads the output, at any time and also after a crash in the middle
\* of a call, finds the content from before the call or the whole new one -
\* as long as no buffer is lost when a file is closed.
ReaderSeesOldOrNew ==
    ~flushLost => output = before \/ output = Content(calls, TRUE)

\* A call that reports a failure has left the output as it was.
FailureLeavesOutputAlone ==
    pc = "idle" /\ result # NoResult /\ result.call = calls /\ ~result.ok => output = before

\* What an earlier run left at the temporary path never shows in the output.
LeftoversNeverShow ==
    [][output' # output => output'.call = calls]_writerVars

\* docs/ARCHITECTURE.md, Platform: "low-level utilities such as atomic file
\* writing": what is read of the output is never a part of a report.
OutputIsWhole == output # Absent => IsWhole(output)
=============================================================================
