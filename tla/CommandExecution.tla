-------------------------- MODULE CommandExecution --------------------------
(***************************************************************************)
(* CommandListener (internal/agent/client/command_listener.go): the loop   *)
(* that keeps a command stream to the server, one goroutine per received   *)
(* command, the processes they start with their output pipes, and Stop.    *)
(*                                                                         *)
(* A command runs as `sh -c` with its output in two pipes.  Each pipe has  *)
(* a reader, which stops at end of file or once it has read more than      *)
(* Limit (10KB).  Output is counted in chunks: a pipe holds PipeCapacity   *)
(* of them and a process that finds it full waits.  Time is abstracted: a  *)
(* timeout may fire at any moment after its timer exists.                  *)
(*                                                                         *)
(* Bounds: Execution (commands received in all), MaxStreams (streams       *)
(* opened in all), Program (what a received command may be).               *)
(***************************************************************************)
EXTENDS Integers, FiniteSets

CONSTANTS
  Execution,     \* execution ids, unique as agent.proto promises
  Program,       \* the commands the server may send, see ProgramAssumption
  NoProgram,     \* the command of an execution that was not received yet
  MaxStreams,    \* bound on the streams opened
  Limit,         \* chunks a reader may exceed before it stops (10KB)
  PipeCapacity   \* chunks an unread pipe holds

Output == {"stdout", "stderr"}

(***************************************************************************)
(* What matters of a command: is it special (__download_file__,            *)
(* __check_update__), how many chunks does it write, does it close its     *)
(* outputs before its end, does it end by itself, does it leave a          *)
(* background process behind that inherits its outputs, did the server set *)
(* timeout_seconds.                                                        *)
(***************************************************************************)
ASSUME ProgramAssumption ==
  Program \subseteq [special : BOOLEAN, out : [Output -> Nat], closes : BOOLEAN,
                     ends : BOOLEAN, background : BOOLEAN, timeout : BOOLEAN]
ASSUME NoProgramAssumption == NoProgram \notin Program
ASSUME BoundsAssumption ==
  /\ MaxStreams \in Nat
  /\ Limit \in Nat
  /\ PipeCapacity \in Nat \ {0}

VARIABLES
  phase,      \* "up", "cancelled" (ctx), "stopped" (Stop returned), "exited"
  listener,   \* where Start and listenForCommands are
  stream,     \* the number of the current stream
  broken,     \* the streams that are over
  exec,       \* per execution: where its goroutine is, its stream, its status
  program,    \* per execution: the command it runs
  process,    \* per execution: the state of its process
  pipe,       \* per execution and output: chunks written and not read
  reader,     \* per execution and output: the reader's state and what it kept
  running,    \* cl.running: the tracked executions
  delivered,  \* per execution: completions the server received
  lost        \* executions whose completion was sent on a stream that is over

vars == <<phase, listener, stream, broken, exec, program, process, pipe, reader,
          running, delivered, lost>>
completions == <<delivered, lost>>
listening == <<listener, stream, broken>>
outputs == <<pipe, reader>>

IdleExec == [pc |-> "none", stream |-> 0, status |-> "none"]
NoProcess == [state |-> "none", left |-> [o \in Output |-> 0],
              closed |-> FALSE, background |-> FALSE]

AgentAlive == phase # "exited"
Exited == {"exit0", "exit1", "killed"}

\* Somebody may still write to the outputs of e: no end of file yet.
HasWriter(e) ==
  \/ process[e].state = "running" /\ ~process[e].closed
  \/ process[e].background

(***************************************************************************)
(* The stream: Start and listenForCommands.                                *)
(***************************************************************************)
\* "connecting" is the select of Start and the wait of 5 seconds after an error:
\* until a stream opens and takes the auth message, nothing else changes.
OpenStream ==
  /\ listener = "connecting"
  /\ phase = "up"
  /\ stream < MaxStreams
  /\ stream' = stream + 1
  /\ listener' = "receiving"
  /\ UNCHANGED <<phase, broken, exec, program, process, outputs, running, completions>>

\* The server or the network ends the current stream; the agent does not know
\* before Recv returns.
StreamBreaks ==
  /\ stream > 0
  /\ stream \notin broken
  /\ broken' = broken \cup {stream}
  /\ UNCHANGED <<phase, listener, stream, exec, program, process, outputs, running, completions>>

\* Recv returns io.EOF or another error: connect again, at once or in 5 seconds.
ReceiveFails ==
  /\ listener = "receiving"
  /\ AgentAlive
  /\ stream \in broken
  /\ listener' = "connecting"
  /\ UNCHANGED <<phase, stream, broken, exec, program, process, outputs, running, completions>>

ListenerEnds ==
  /\ listener = "connecting"
  /\ phase \in {"cancelled", "stopped"}
  /\ listener' = "ended"
  /\ UNCHANGED <<phase, stream, broken, exec, program, process, outputs, running, completions>>

\* A command arrives: `go cl.executeCommand(ctx, msg.CommandRequest, stream)`.
Receive(e) ==
  /\ listener = "receiving"
  /\ AgentAlive
  /\ stream \notin broken
  /\ exec[e].pc = "none"
  /\ exec' = [exec EXCEPT ![e] = [pc |-> "received", stream |-> stream, status |-> "none"]]
  /\ \E p \in Program : program' = [program EXCEPT ![e] = p]
  /\ UNCHANGED <<phase, listening, process, outputs, running, completions>>

(***************************************************************************)
(* executeCommand.                                                         *)
(***************************************************************************)
Is(e, pc) == AgentAlive /\ exec[e].pc = pc

\* The command validator, the sandbox rules or PrepareCommand refuse it.
Reject(e) ==
  /\ Is(e, "received")
  /\ exec' = [exec EXCEPT ![e].pc = "answering", ![e].status = "failed"]
  /\ UNCHANGED <<phase, listening, program, process, outputs, running, completions>>

\* handleFileDownload or handleCheckUpdate runs to its end.
RunSpecial(e) ==
  /\ Is(e, "received")
  /\ program[e].special
  /\ \E status \in {"completed", "failed"} :
       exec' = [exec EXCEPT ![e].pc = "answering", ![e].status = status]
  /\ UNCHANGED <<phase, listening, program, process, outputs, running, completions>>

\* MUTANT of Track: the command is started before it is tracked, and never is.
TrackForgotten(e) ==
  /\ Is(e, "received")
  /\ ~program[e].special
  /\ exec' = [exec EXCEPT ![e].pc = "tracked"]
  /\ UNCHANGED <<phase, listening, program, process, outputs, running, completions>>

\* cl.running[executionID] = cmd
Track(e) ==
  /\ Is(e, "received")
  /\ ~program[e].special
  /\ running' = running \cup {e}
  /\ exec' = [exec EXCEPT ![e].pc = "tracked"]
  /\ UNCHANGED <<phase, listening, program, process, outputs, completions>>

\* A pipe cannot be made, or cmd.Start fails.
StartFails(e) ==
  /\ Is(e, "tracked")
  /\ exec' = [exec EXCEPT ![e].pc = "reporting", ![e].status = "failed"]
  /\ UNCHANGED <<phase, listening, program, process, outputs, running, completions>>

StartProcess(e) ==
  /\ Is(e, "tracked")
  /\ exec' = [exec EXCEPT ![e].pc = "reading"]
  /\ process' = [process EXCEPT ![e] =
       [state |-> "running", left |-> program[e].out, closed |-> FALSE,
        background |-> program[e].background]]
  /\ reader' = [reader EXCEPT ![e] = [o \in Output |-> [reading |-> TRUE, kept |-> 0]]]
  /\ UNCHANGED <<phase, listening, program, pipe, running, completions>>

\* MUTANT of ReadChunk: a reader that has enough leaves without wg.Done().
ReadChunkNotDone(e, o) ==
  /\ AgentAlive
  /\ reader[e][o].reading
  /\ reader[e][o].kept <= Limit
  /\ pipe[e][o] > 0
  /\ pipe' = [pipe EXCEPT ![e][o] = @ - 1]
  /\ reader' = [reader EXCEPT ![e][o].kept = @ + 1]
  /\ UNCHANGED <<phase, listening, exec, program, process, running, completions>>

\* MUTANT of ReadChunk: the 10KB check is missing, the output grows with the command's.
ReadChunkUnlimited(e, o) ==
  /\ AgentAlive
  /\ reader[e][o].reading
  /\ pipe[e][o] > 0
  /\ pipe' = [pipe EXCEPT ![e][o] = @ - 1]
  /\ reader' = [reader EXCEPT ![e][o].kept = @ + 1]
  /\ UNCHANGED <<phase, listening, exec, program, process, running, completions>>

\* A reader keeps a chunk and stops once it has more than Limit.
ReadChunk(e, o) ==
  /\ AgentAlive
  /\ reader[e][o].reading
  /\ pipe[e][o] > 0
  /\ pipe' = [pipe EXCEPT ![e][o] = @ - 1]
  /\ reader' = [reader EXCEPT ![e][o] =
       [reading |-> @.kept + 1 <= Limit, kept |-> @.kept + 1]]
  /\ UNCHANGED <<phase, listening, exec, program, process, running, completions>>

ReadEOF(e, o) ==
  /\ AgentAlive
  /\ reader[e][o].reading
  /\ pipe[e][o] = 0
  /\ ~HasWriter(e)
  /\ reader' = [reader EXCEPT ![e][o].reading = FALSE]
  /\ UNCHANGED <<phase, listening, exec, program, process, pipe, running, completions>>

\* wg.Wait() returns; only now is the timeout's timer made.
ReadersDone(e) ==
  /\ Is(e, "reading")
  /\ \A o \in Output : ~reader[e][o].reading
  /\ exec' = [exec EXCEPT ![e].pc = "waiting"]
  /\ UNCHANGED <<phase, listening, program, process, outputs, running, completions>>

\* MUTANT of WaitReturns: only exit code 1 counts as a failure, not a signal's -1.
WaitReturnsSignalIgnored(e) ==
  /\ Is(e, "waiting")
  /\ process[e].state \in Exited
  /\ exec' = [exec EXCEPT ![e].pc = "reporting",
       ![e].status = IF process[e].state = "exit1" THEN "failed" ELSE "completed"]
  /\ UNCHANGED <<phase, listening, program, process, outputs, running, completions>>

\* The select: cmd.Wait() returned...
WaitReturns(e) ==
  /\ Is(e, "waiting")
  /\ process[e].state \in Exited
  /\ exec' = [exec EXCEPT ![e].pc = "reporting",
       ![e].status = IF process[e].state = "exit0" THEN "completed" ELSE "failed"]
  /\ UNCHANGED <<phase, listening, program, process, outputs, running, completions>>

\* MUTANT of KillAndWait: the timeout is reported and the process left alone.
TimeoutWithoutKill(e) ==
  /\ Is(e, "waiting")
  /\ program[e].timeout \/ phase # "up"
  /\ exec' = [exec EXCEPT ![e].pc = "reporting", ![e].status = "failed"]
  /\ UNCHANGED <<phase, listening, program, process, outputs, running, completions>>

\* ... or the timeout fired or the context is done: kill the process, wait for it.
\* The kill reaches the shell only, and does nothing when it has just ended.
Killed(e) == IF process[e].state = "running" THEN "killed" ELSE process[e].state
KillAndWait(e) ==
  /\ Is(e, "waiting")
  /\ program[e].timeout \/ phase # "up"
  /\ process' = [process EXCEPT ![e].state = Killed(e)]
  /\ exec' = [exec EXCEPT ![e].pc = "reporting", ![e].status = "failed"]
  /\ UNCHANGED <<phase, listening, program, outputs, running, completions>>

\* reportCompletion: Send on the stream the command came from; when that stream
\* is over the completion is lost, which the code at most logs.
SendCompletion(e) ==
  IF exec[e].stream \in broken
    THEN lost' = lost \cup {e} /\ UNCHANGED delivered
    ELSE delivered' = [delivered EXCEPT ![e] = @ + 1] /\ UNCHANGED lost

Report(e) ==
  /\ Is(e, "reporting")
  /\ exec' = [exec EXCEPT ![e].pc = "untracking"]
  /\ SendCompletion(e)
  /\ UNCHANGED <<phase, listening, program, process, outputs, running>>

\* MUTANT of Answer: the return after reportCompletion is missing.
AnswerWithoutReturn(e) ==
  /\ Is(e, "answering")
  /\ exec' = [exec EXCEPT ![e].pc = "tracked"]
  /\ SendCompletion(e)
  /\ UNCHANGED <<phase, listening, program, process, outputs, running>>

\* The same on the paths that return before the command is tracked.
Answer(e) ==
  /\ Is(e, "answering")
  /\ exec' = [exec EXCEPT ![e].pc = "done"]
  /\ SendCompletion(e)
  /\ UNCHANGED <<phase, listening, program, process, outputs, running>>

\* The deferred delete(cl.running, executionID).
Untrack(e) ==
  /\ Is(e, "untracking")
  /\ exec' = [exec EXCEPT ![e].pc = "done"]
  /\ running' = running \ {e}
  /\ UNCHANGED <<phase, listening, program, process, outputs, completions>>

(***************************************************************************)
(* The processes.                                                          *)
(***************************************************************************)
WriteChunk(e, o) ==
  /\ process[e].state = "running"
  /\ ~process[e].closed
  /\ process[e].left[o] > 0
  /\ pipe[e][o] < PipeCapacity
  /\ process' = [process EXCEPT ![e].left[o] = @ - 1]
  /\ pipe' = [pipe EXCEPT ![e][o] = @ + 1]
  /\ UNCHANGED <<phase, listening, exec, program, reader, running, completions>>

HasWritten(e) == \A o \in Output : process[e].left[o] = 0

CloseOutputs(e) ==
  /\ process[e].state = "running"
  /\ ~process[e].closed
  /\ HasWritten(e)
  /\ program[e].closes
  /\ process' = [process EXCEPT ![e].closed = TRUE]
  /\ UNCHANGED <<phase, listening, exec, program, outputs, running, completions>>

EndProcess(e) ==
  /\ process[e].state = "running"
  /\ HasWritten(e)
  /\ program[e].ends
  /\ \E s \in {"exit0", "exit1"} : process' = [process EXCEPT ![e].state = s]
  /\ UNCHANGED <<phase, listening, exec, program, outputs, running, completions>>

EndBackground(e) ==
  /\ process[e].background
  /\ process' = [process EXCEPT ![e].background = FALSE]
  /\ UNCHANGED <<phase, listening, exec, program, outputs, running, completions>>

(***************************************************************************)
(* Shutdown, in the order of main's select branch.                         *)
(***************************************************************************)
\* The streams were made with the context and end with it.
Cancel ==
  /\ phase = "up"
  /\ phase' = "cancelled"
  /\ broken' = 1..stream
  /\ UNCHANGED <<listener, stream, exec, program, process, outputs, running, completions>>

\* MUTANT of Stop: the map is cleared before the processes are killed.
StopClearsFirst ==
  /\ phase = "cancelled"
  /\ phase' = "stopped"
  /\ running' = {}
  /\ UNCHANGED <<listening, exec, program, process, outputs, completions>>

\* Stop: kill what is tracked and already has a process, then clear the map.
Stop ==
  /\ phase = "cancelled"
  /\ phase' = "stopped"
  /\ process' = [e \in Execution |->
       IF e \in running THEN [process[e] EXCEPT !.state = Killed(e)] ELSE process[e]]
  /\ running' = {}
  /\ UNCHANGED <<listening, exec, program, outputs, completions>>

\* run returns, and the agent with it; processes outlive it.
ExitAgent ==
  /\ phase = "stopped"
  /\ phase' = "exited"
  /\ UNCHANGED <<listening, exec, program, process, outputs, running, completions>>

Init ==
  /\ phase = "up"
  /\ listener = "connecting"
  /\ stream = 0
  /\ broken = {}
  /\ exec = [e \in Execution |-> IdleExec]
  /\ program = [e \in Execution |-> NoProgram]
  /\ process = [e \in Execution |-> NoProcess]
  /\ pipe = [e \in Execution |-> [o \in Output |-> 0]]
  /\ reader = [e \in Execution |-> [o \in Output |-> [reading |-> FALSE, kept |-> 0]]]
  /\ running = {}
  /\ delivered = [e \in Execution |-> 0]
  /\ lost = {}

ListenerStep ==
  \/ OpenStream
  \/ ReceiveFails
  \/ ListenerEnds

ExecStep(e) ==
  \/ Reject(e)
  \/ RunSpecial(e)
  \/ Track(e)
  \/ StartFails(e)
  \/ StartProcess(e)
  \/ ReadersDone(e)
  \/ WaitReturns(e)
  \/ KillAndWait(e)
  \/ Report(e)
  \/ Answer(e)
  \/ Untrack(e)

ReaderStep(e, o) == ReadChunk(e, o) \/ ReadEOF(e, o)

ProcessStep(e) ==
  \/ \E o \in Output : WriteChunk(e, o)
  \/ CloseOutputs(e)
  \/ EndProcess(e)

Next ==
  \/ ListenerStep
  \/ StreamBreaks
  \/ \E e \in Execution :
       \/ Receive(e)
       \/ ExecStep(e)
       \/ \E o \in Output : ReaderStep(e, o)
       \/ ProcessStep(e)
       \/ EndBackground(e)
  \/ Cancel
  \/ Stop
  \/ ExitAgent

Spec == Init /\ [][Next]_vars

(***************************************************************************)
(* Goroutines run on, and a process that can write or end does so.  Not    *)
(* fair: what the server sends, Cancel, and when a background process ends.*)
(***************************************************************************)
Fairness ==
  /\ WF_vars(ListenerStep)
  /\ \A e \in Execution :
       /\ WF_vars(ExecStep(e))
       /\ WF_vars(ProcessStep(e))
       /\ \A o \in Output : WF_vars(ReaderStep(e, o))

FairSpec == Spec /\ Fairness

(***************************************************************************)
(* Properties.                                                             *)
(***************************************************************************)
\* Every variable has its type.
TypeOK ==
  /\ phase \in {"up", "cancelled", "stopped", "exited"}
  /\ listener \in {"connecting", "receiving", "ended"}
  /\ stream \in 0..MaxStreams
  /\ broken \subseteq 1..stream
  /\ exec \in [Execution -> [pc : {"none", "received", "tracked", "reading", "waiting",
                                 "reporting", "answering", "untracking", "done"},
                            stream : 0..MaxStreams,
                            status : {"none", "completed", "failed"}]]
  /\ program \in [Execution -> Program \cup {NoProgram}]
  /\ process \in [Execution -> [state : {"none", "running"} \cup Exited,
                               left : [Output -> Nat],
                               closed : BOOLEAN, background : BOOLEAN]]
  /\ pipe \in [Execution -> [Output -> 0..PipeCapacity]]
  /\ reader \in [Execution -> [Output -> [reading : BOOLEAN, kept : 0..Limit + 1]]]
  /\ running \subseteq Execution
  /\ delivered \in [Execution -> Nat]
  /\ lost \subseteq Execution

\* Whatever path a command takes (refused, special, failed start, timeout,
\* cancellation, Stop), its goroutine sends one completion and ends: none twice,
\* none without one.
OneCompletion ==
  \A e \in Execution :
    LET sent == delivered[e] + (IF e \in lost THEN 1 ELSE 0)
    IN /\ sent <= 1
       /\ exec[e].pc = "done" => sent = 1

\* Until Stop clears the map, every process is tracked in it, so that Stop finds
\* all of them (command_listener.go:232-240, 498).
TrackedWhileRunning ==
  \A e \in Execution :
    phase \in {"up", "cancelled"} /\ process[e].state = "running" => e \in running

\* A command is reported "completed" only if its process ended by itself with exit
\* code 0: not when the timeout, the cancelled context or Stop killed it.
CompletedMeansExited ==
  \A e \in Execution :
    exec[e].status = "completed" /\ ~program[e].special => process[e].state = "exit0"

\* When Stop returns, no process that was started before is running.
StopKillsStarted ==
  [][phase' = "stopped" /\ phase # "stopped" =>
       \A e \in Execution : process'[e].state # "running"]_vars

\* A command that ends by itself, leaves nothing in the background and does not
\* write more than its pipes and readers take is answered: the server has its
\* completion, unless the stream it came on is over or the agent exits.
Tame(p) ==
  /\ p.ends
  /\ ~p.background
  /\ \A o \in Output : p.out[o] <= Limit + 1 + PipeCapacity
TameCommandsAnswered ==
  \A e \in Execution :
    exec[e].pc = "reading" /\ Tame(program[e])
      ~> (delivered[e] = 1 \/ exec[e].stream \in broken \/ phase = "exited")

\* command_listener.go:215-218 "we enforce the timeout/cancellation during
\* cmd.Wait()" and :302 "Wait for command to complete with timeout": a started
\* command with a timeout does not stay forever.
TimeoutEnforced ==
  \A e \in Execution :
    exec[e].pc = "reading" /\ program[e].timeout ~> (exec[e].pc = "done" \/ phase # "up")

\* command_listener.go:489 "Stop stops the command listener and kills all running
\* commands": none of its processes runs once the agent has exited.
NoneRunsAfterExit ==
  phase = "exited" => \A e \in Execution : process[e].state # "running"
(***************************************************************************)
(* The promise.  The server sees what CommandService speaks of: how far a  *)
(* command is, by its process if it has one and else by its goroutine, and *)
(* what was sent.                                                          *)
(***************************************************************************)
Job(e) ==
  CASE process[e].state # "none" -> process[e].state
    [] process[e].state = "none" /\ exec[e].pc = "none" -> "none"
    [] process[e].state = "none" /\ exec[e].pc \in {"received", "tracked"} ->
         IF program[e].special THEN "own" ELSE "shell"
    [] OTHER -> IF exec[e].status = "completed" THEN "carriedOut" ELSE "declined"

Told(e) ==
  CASE delivered[e] = 0 /\ e \notin lost -> "none"
    [] delivered[e] = 0 /\ e \in lost -> "lost"
    [] delivered[e] = 1 /\ e \notin lost -> exec[e].status
    [] OTHER -> "twice"

Service == INSTANCE CommandService WITH
  Command <- Execution,
  job <- [e \in Execution |-> Job(e)],
  answer <- [e \in Execution |-> Told(e)]

\* Seen from the server, executeCommand, the processes and Stop keep the promise of
\* CommandService: a command is launched at most once, answered at most once, only when
\* its job is over for good, and never with "completed" for one that did not succeed.
ServiceSpec == Service!Spec
=============================================================================
