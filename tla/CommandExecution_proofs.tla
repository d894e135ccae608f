----------------------- MODULE CommandExecution_proofs -----------------------
(***************************************************************************)
(* Proofs about CommandExecution for any executions and programs, any      *)
(* limit, any capacity of the pipes and any number of streams: its types,  *)
(* one completion per command, which processes are tracked and killed,     *)
(* what a reported status means, and that it implements CommandService.    *)
(***************************************************************************)
EXTENDS CommandExecution, TLAPS

(***************************************************************************)
(* Types.                                                                  *)
(***************************************************************************)
\* A reader that goes on has not kept more than Limit.
ReadersGoOn ==
  \A e \in Execution, o \in Output : reader[e][o].reading => reader[e][o].kept <= Limit

\* A command that was received is known.
ProgramsKnown == \A e \in Execution : exec[e].pc # "none" => program[e] \in Program

TypeInv == TypeOK /\ ReadersGoOn /\ ProgramsKnown

Pcs == {"none", "received", "tracked", "reading", "waiting", "reporting", "answering",
        "untracking", "done"}
ExecType == [pc : Pcs, stream : 0..MaxStreams, status : {"none", "completed", "failed"}]
ProcessType == [state : {"none", "running"} \cup Exited, left : [Output -> Nat],
                closed : BOOLEAN, background : BOOLEAN]
ReaderType == [reading : BOOLEAN, kept : 0..Limit + 1]

LEMMA InitTypeInv == Init => TypeInv
<1> SUFFICES ASSUME Init PROVE TypeInv
  OBVIOUS
<1>1. stream \in 0..MaxStreams /\ broken \subseteq 1..stream BY BoundsAssumption DEF Init
<1>2. exec \in [Execution -> ExecType] BY BoundsAssumption DEF Init, IdleExec, ExecType, Pcs
<1>3. process \in [Execution -> ProcessType] BY DEF Init, NoProcess, ProcessType
<1>4. pipe \in [Execution -> [Output -> 0..PipeCapacity]] BY BoundsAssumption DEF Init
<1>5. reader \in [Execution -> [Output -> ReaderType]] BY BoundsAssumption DEF Init, ReaderType
<1>6. ReadersGoOn BY DEF Init, ReadersGoOn
<1>7. ProgramsKnown BY DEF Init, IdleExec, ProgramsKnown
<1> QED BY <1>1, <1>2, <1>3, <1>4, <1>5, <1>6, <1>7
        DEF Init, TypeInv, TypeOK, ExecType, Pcs, ProcessType, ReaderType

\* What a program's fields are.
LEMMA ProgramType ==
  ASSUME NEW p \in Program
  PROVE  p.out \in [Output -> Nat] /\ p.background \in BOOLEAN
BY ProgramAssumption

\* A step of executeCommand changes its own record only, and that to one of the type.
LEMMA MovesInType ==
  ASSUME TypeOK, NEW e \in Execution, ExecStep(e)
  PROVE  \E x \in ExecType : exec' = [exec EXCEPT ![e] = x]
<1> DEFINE Moved(pc, status) == [pc |-> pc, stream |-> exec[e].stream, status |-> status]
<1>1. exec \in [Execution -> ExecType] BY DEF TypeOK, ExecType, Pcs
<1>2. exec[e] \in ExecType BY <1>1
<1>3. \A pc \in Pcs : /\ [exec[e] EXCEPT !.pc = pc] = Moved(pc, exec[e].status)
                      /\ Moved(pc, exec[e].status) \in ExecType
  BY <1>2 DEF ExecType
<1>4. \A pc \in Pcs, status \in {"completed", "failed"} :
        /\ [exec[e] EXCEPT !.pc = pc, !.status = status] = Moved(pc, status)
        /\ Moved(pc, status) \in ExecType
  <2> SUFFICES ASSUME NEW pc \in Pcs, NEW status \in {"completed", "failed"}
               PROVE  /\ [exec[e] EXCEPT !.pc = pc, !.status = status] = Moved(pc, status)
                      /\ Moved(pc, status) \in ExecType
    OBVIOUS
  <2>1. /\ [exec[e] EXCEPT !.pc = pc] = Moved(pc, exec[e].status)
        /\ Moved(pc, exec[e].status) \in ExecType
    BY <1>3
  <2>2. [Moved(pc, exec[e].status) EXCEPT !.status = status] = Moved(pc, status)
    BY <2>1 DEF ExecType
  <2>3. [exec[e] EXCEPT !.pc = pc, !.status = status]
          = [[exec[e] EXCEPT !.pc = pc] EXCEPT !.status = status]
    OBVIOUS
  <2>4. Moved(pc, status) \in ExecType BY <1>2 DEF ExecType
  <2> QED BY <2>1, <2>2, <2>3, <2>4
<1>5. CASE Track(e) \/ StartProcess(e) \/ ReadersDone(e) \/ Report(e) \/ Answer(e) \/ Untrack(e)
  <2>1. PICK pc \in Pcs : exec' = [exec EXCEPT ![e].pc = pc]
    BY <1>5 DEF Track, StartProcess, ReadersDone, Report, Answer, Untrack, Pcs
  <2>2. exec' = [exec EXCEPT ![e] = [exec[e] EXCEPT !.pc = pc]] BY <2>1, <1>1
  <2> QED BY <2>2, <1>3
<1>6. CASE Reject(e) \/ RunSpecial(e) \/ StartFails(e) \/ WaitReturns(e) \/ KillAndWait(e)
  <2>1. PICK pc \in Pcs, status \in {"completed", "failed"} :
          exec' = [exec EXCEPT ![e].pc = pc, ![e].status = status]
    BY <1>6 DEF Reject, RunSpecial, StartFails, WaitReturns, KillAndWait, Pcs
  <2>2. exec' = [exec EXCEPT ![e] = [exec[e] EXCEPT !.pc = pc, !.status = status]] BY <2>1, <1>1
  <2> QED BY <2>2, <1>4
<1> QED BY <1>5, <1>6 DEF ExecStep

LEMMA NextTypeInv == TypeInv /\ [Next]_vars => TypeInv'
<1> SUFFICES ASSUME TypeInv, [Next]_vars PROVE TypeInv'
  OBVIOUS
<1> USE BoundsAssumption DEF TypeInv
<1>a. /\ exec \in [Execution -> ExecType]
      /\ process \in [Execution -> ProcessType]
      /\ pipe \in [Execution -> [Output -> 0..PipeCapacity]]
      /\ reader \in [Execution -> [Output -> ReaderType]]
  BY DEF TypeOK, ExecType, Pcs, ProcessType, ReaderType
<1>1. CASE ListenerStep
  <2>1. CASE OpenStream
    <3>1. stream' \in 0..MaxStreams /\ broken' \subseteq 1..stream'
      BY <2>1 DEF OpenStream, TypeOK
    <3> QED BY <2>1, <3>1 DEF OpenStream, TypeOK, ReadersGoOn, ProgramsKnown, outputs, completions
  <2>2. CASE ReceiveFails \/ ListenerEnds
    BY <2>2 DEF ReceiveFails, ListenerEnds, TypeOK, ReadersGoOn, ProgramsKnown, outputs, completions
  <2> QED BY <1>1, <2>1, <2>2 DEF ListenerStep
<1>2. CASE StreamBreaks
  BY <1>2 DEF StreamBreaks, TypeOK, ReadersGoOn, ProgramsKnown, outputs, completions
<1>3. ASSUME NEW e \in Execution, Receive(e) PROVE TypeInv'
  <2>1. PICK p \in Program : program' = [program EXCEPT ![e] = p] BY <1>3 DEF Receive
  <2>2. exec' \in [Execution -> ExecType] BY <1>3, <1>a DEF Receive, ExecType, Pcs, TypeOK
  <2>3. ProgramsKnown' BY <1>3, <2>1, <1>a DEF Receive, ProgramsKnown, TypeOK
  <2> QED BY <1>3, <2>1, <2>2, <2>3
          DEF Receive, TypeOK, ReadersGoOn, ExecType, Pcs, outputs, completions, listening
<1>4. ASSUME NEW e \in Execution, ExecStep(e) PROVE TypeInv'
  <2>1. /\ exec' \in [Execution -> ExecType]
        /\ \A d \in Execution : exec'[d].pc # "none" => exec[d].pc # "none"
    <3>1. exec[e].pc # "none"
      BY <1>4 DEF ExecStep, Reject, RunSpecial, Track, StartFails, StartProcess, ReadersDone,
                WaitReturns, KillAndWait, Report, Answer, Untrack, Is
    <3>2. PICK x \in ExecType : exec' = [exec EXCEPT ![e] = x]
      BY <1>4, MovesInType DEF TypeInv
    <3> QED BY <3>1, <3>2, <1>a
  <2>2. process' \in [Execution -> ProcessType]
    <3>1. CASE StartProcess(e)
      <4>1. program[e] \in Program BY <3>1 DEF StartProcess, Is, ProgramsKnown
      <4> QED BY <3>1, <4>1, <1>a, ProgramType DEF StartProcess, ProcessType
    <3>2. CASE KillAndWait(e)
      <4>1. Killed(e) \in {"none", "running"} \cup Exited BY <1>a DEF Killed, Exited, ProcessType
      <4> QED BY <3>2, <4>1, <1>a DEF KillAndWait, ProcessType
    <3>3. CASE process' = process BY <3>3, <1>a
    <3> QED BY <1>4, <3>1, <3>2, <3>3
            DEF ExecStep, Reject, RunSpecial, Track, StartFails, ReadersDone, WaitReturns,
                Report, Answer, Untrack
  <2>3. reader' \in [Execution -> [Output -> ReaderType]] /\ ReadersGoOn'
    <3>1. CASE StartProcess(e)
      <4>1. reader' = [reader EXCEPT ![e] = [o \in Output |-> [reading |-> TRUE, kept |-> 0]]]
        BY <3>1 DEF StartProcess
      <4> QED BY <4>1, <1>a DEF ReaderType, ReadersGoOn
    <3>2. CASE reader' = reader BY <3>2, <1>a DEF ReadersGoOn
    <3> QED BY <1>4, <3>1, <3>2
            DEF ExecStep, Reject, RunSpecial, Track, StartFails, ReadersDone, WaitReturns,
                KillAndWait, Report, Answer, Untrack, outputs
  <2>4. /\ UNCHANGED <<phase, listening, program, pipe>>
        /\ running' \in {running, running \cup {e}, running \ {e}}
    BY <1>4 DEF ExecStep, Reject, RunSpecial, Track, StartFails, StartProcess, ReadersDone,
              WaitReturns, KillAndWait, Report, Answer, Untrack, outputs
  <2>5. delivered' \in [Execution -> Nat] /\ lost' \subseteq Execution
    <3>1. UNCHANGED completions \/ SendCompletion(e)
      BY <1>4 DEF ExecStep, Reject, RunSpecial, Track, StartFails, StartProcess, ReadersDone,
                WaitReturns, KillAndWait, Report, Answer, Untrack
    <3> QED BY <3>1 DEF SendCompletion, completions, TypeOK
  <2>6. ProgramsKnown' BY <2>1, <2>4 DEF ProgramsKnown
  <2> QED BY <2>1, <2>2, <2>3, <2>4, <2>5, <2>6
          DEF TypeOK, ExecType, Pcs, ProcessType, ReaderType, listening
<1>5. ASSUME NEW e \in Execution, NEW o \in Output, ReaderStep(e, o) PROVE TypeInv'
  <2>1. pipe' \in [Execution -> [Output -> 0..PipeCapacity]]
    <3>1. CASE ReadChunk(e, o)
      <4>1. pipe[e][o] - 1 \in 0..PipeCapacity BY <3>1, <1>a DEF ReadChunk
      <4> QED BY <3>1, <4>1, <1>a DEF ReadChunk
    <3>2. CASE ReadEOF(e, o) BY <3>2, <1>a DEF ReadEOF
    <3> QED BY <1>5, <3>1, <3>2 DEF ReaderStep
  <2>2. reader' \in [Execution -> [Output -> ReaderType]] /\ ReadersGoOn'
    <3>1. reader[e][o] \in ReaderType /\ (reader[e][o].reading => reader[e][o].kept <= Limit)
      BY <1>a DEF ReadersGoOn
    <3>2. PICK r \in ReaderType : /\ r.reading => r.kept <= Limit
                                  /\ reader' = [reader EXCEPT ![e][o] = r]
      <4>1. CASE ReadChunk(e, o)
        <5>1. reader' = [reader EXCEPT ![e][o] = [reading |-> reader[e][o].kept + 1 <= Limit,
                                                   kept |-> reader[e][o].kept + 1]]
          BY <4>1 DEF ReadChunk
        <5>2. [reading |-> reader[e][o].kept + 1 <= Limit, kept |-> reader[e][o].kept + 1]
                \in ReaderType
          BY <4>1, <3>1 DEF ReadChunk, ReaderType
        <5> QED BY <5>1, <5>2
      <4>2. CASE ReadEOF(e, o)
        <5>1. reader' = [reader EXCEPT ![e][o] = [@ EXCEPT !.reading = FALSE]]
          BY <4>2 DEF ReadEOF
        <5>2. /\ [reader[e][o] EXCEPT !.reading = FALSE] \in ReaderType
              /\ ~[reader[e][o] EXCEPT !.reading = FALSE].reading
          BY <3>1 DEF ReaderType
        <5> QED BY <5>1, <5>2
      <4> QED BY <1>5, <4>1, <4>2 DEF ReaderStep
    <3> QED BY <3>2, <1>a DEF ReadersGoOn
  <2>3. UNCHANGED <<phase, listening, exec, program, process, running, completions>>
    BY <1>5 DEF ReaderStep, ReadChunk, ReadEOF
  <2> QED BY <2>1, <2>2, <2>3 DEF TypeOK, ProgramsKnown, ReaderType, listening, completions
<1>6. ASSUME NEW e \in Execution, ProcessStep(e) \/ EndBackground(e) PROVE TypeInv'
  <2>1. /\ process' \in [Execution -> ProcessType]
        /\ pipe' \in [Execution -> [Output -> 0..PipeCapacity]]
    <3>1. ASSUME NEW o \in Output, WriteChunk(e, o)
          PROVE  /\ process' \in [Execution -> ProcessType]
                 /\ pipe' \in [Execution -> [Output -> 0..PipeCapacity]]
      <4>1. process[e].left[o] - 1 \in Nat /\ pipe[e][o] + 1 \in 0..PipeCapacity
        BY <3>1, <1>a DEF WriteChunk, ProcessType
      <4>2. process' \in [Execution -> ProcessType] BY <3>1, <4>1, <1>a, ZenonT(60) DEF WriteChunk, ProcessType
      <4> QED BY <3>1, <4>1, <4>2, <1>a DEF WriteChunk
    <3>2. CASE CloseOutputs(e) BY <3>2, <1>a DEF CloseOutputs, ProcessType, outputs
    <3>3. CASE EndProcess(e)
      <4>1. PICK x \in Exited : process' = [process EXCEPT ![e].state = x]
        BY <3>3 DEF EndProcess, Exited
      <4>2. [process[e] EXCEPT !.state = x] \in ProcessType BY <1>a DEF ProcessType
      <4>3. process' \in [Execution -> ProcessType] BY <4>1, <4>2, <1>a
      <4> QED BY <3>3, <4>3, <1>a DEF EndProcess, outputs
    <3>4. CASE EndBackground(e) BY <3>4, <1>a DEF EndBackground, ProcessType, outputs
    <3> QED BY <1>6, <3>1, <3>2, <3>3, <3>4 DEF ProcessStep
  <2>2. UNCHANGED <<phase, listening, exec, program, reader, running, completions>>
    BY <1>6 DEF ProcessStep, WriteChunk, CloseOutputs, EndProcess, EndBackground, outputs
  <2> QED BY <2>1, <2>2
          DEF TypeOK, ReadersGoOn, ProgramsKnown, ProcessType, listening, completions
<1>7. CASE Cancel
  BY <1>7 DEF Cancel, TypeOK, ReadersGoOn, ProgramsKnown, outputs, completions
<1>8. CASE Stop
  <2>1. process' \in [Execution -> ProcessType]
    <3>1. \A e \in Execution : [process[e] EXCEPT !.state = Killed(e)] \in ProcessType
      BY <1>a DEF Killed, ProcessType, Exited
    <3> QED BY <1>8, <3>1, <1>a DEF Stop
  <2> QED BY <1>8, <2>1
          DEF Stop, TypeOK, ReadersGoOn, ProgramsKnown, ProcessType, listening, outputs, completions
<1>9. CASE ExitAgent
  BY <1>9 DEF ExitAgent, TypeOK, ReadersGoOn, ProgramsKnown, listening, outputs, completions
<1>10. CASE UNCHANGED vars
  BY <1>10 DEF vars, TypeOK, ReadersGoOn, ProgramsKnown
<1> QED BY <1>1, <1>2, <1>3, <1>4, <1>5, <1>6, <1>7, <1>8, <1>9, <1>10 DEF Next

LEMMA TypeInvariant == Spec => []TypeInv
BY InitTypeInv, NextTypeInv, PTL DEF Spec

\* Every variable keeps its type.
THEOREM TypeCorrect == Spec => []TypeOK
<1>1. TypeInv => TypeOK BY DEF TypeInv
<1> QED BY <1>1, TypeInvariant, PTL

(***************************************************************************)
(* One execution: where its goroutine is fixes what was sent, what its     *)
(* process can be, whether it is tracked and what its status says.         *)
(***************************************************************************)
Unsent == {"none", "received", "tracked", "reading", "waiting", "reporting", "answering"}
Tracked == {"tracked", "reading", "waiting", "reporting", "untracking"}

SentOnce(e) ==
  IF exec[e].pc \in Unsent
    THEN delivered[e] = 0 /\ e \notin lost
    ELSE delivered[e] = IF e \in lost THEN 0 ELSE 1

RunsOnlyBetween(e) == process[e].state = "running" => exec[e].pc \in {"reading", "waiting"}

IsTracked(e) == phase \in {"up", "cancelled"} /\ exec[e].pc \in Tracked => e \in running

StatusIsTrue(e) ==
  /\ exec[e].pc \in {"none", "received", "tracked", "reading", "waiting"}
       => exec[e].status = "none"
  /\ exec[e].status = "completed" /\ ~program[e].special => process[e].state = "exit0"

EInv(e) == SentOnce(e) /\ RunsOnlyBetween(e) /\ IsTracked(e) /\ StatusIsTrue(e)
IInv == TypeInv /\ \A e \in Execution : EInv(e)

LEMMA InitIInv == Init => IInv
<1> SUFFICES ASSUME Init PROVE IInv
  OBVIOUS
<1>1. \A e \in Execution : EInv(e)
  BY DEF Init, IdleExec, NoProcess, EInv, SentOnce, RunsOnlyBetween, IsTracked, StatusIsTrue,
         Unsent, Tracked
<1> QED BY <1>1, InitTypeInv DEF IInv

\* A step that leaves the goroutine of d alone keeps what is known of d, if it starts no
\* process, kills only what runs and untracks nothing before the agent has stopped.
LEMMA Untouched ==
  ASSUME NEW d \in Execution, EInv(d),
         exec'[d] = exec[d], delivered'[d] = delivered[d], d \in lost' <=> d \in lost,
         program'[d] = program[d],
         process'[d].state # process[d].state => process[d].state = "running",
         phase' \in {"up", "cancelled"}
           => phase \in {"up", "cancelled"} /\ (d \in running => d \in running')
  PROVE  EInv(d)'
<1>1. SentOnce(d)' BY DEF EInv, SentOnce
<1>2. RunsOnlyBetween(d)' BY DEF EInv, RunsOnlyBetween
<1>3. IsTracked(d)' BY DEF EInv, IsTracked
<1>4. StatusIsTrue(d)' BY DEF EInv, StatusIsTrue
<1> QED BY <1>1, <1>2, <1>3, <1>4 DEF EInv

\* A step of executeCommand keeps what is known of its own execution.
LEMMA ExecStepKeeps ==
  ASSUME TypeInv, NEW e \in Execution, EInv(e), ExecStep(e)
  PROVE  EInv(e)'
<1> USE DEF EInv, Is
<1>a. /\ exec \in [Execution -> ExecType]
      /\ process \in [Execution -> ProcessType]
      /\ delivered \in [Execution -> Nat]
  BY DEF TypeInv, TypeOK, ExecType, Pcs, ProcessType
<1>b. \A pc \in Pcs : exec' = [exec EXCEPT ![e].pc = pc]
                      => exec'[e].pc = pc /\ exec'[e].status = exec[e].status
  BY <1>a DEF ExecType
<1>c. \A pc \in Pcs, status \in {"completed", "failed"} :
        exec' = [exec EXCEPT ![e].pc = pc, ![e].status = status]
          => exec'[e].pc = pc /\ exec'[e].status = status
  BY <1>a DEF ExecType
<1>1. CASE Reject(e) \/ RunSpecial(e) \/ StartFails(e)
  <2>1. /\ exec'[e].pc \in {"answering", "reporting"}
        /\ exec'[e].pc \in Tracked => exec[e].pc \in Tracked
        /\ exec'[e].status \in {"completed", "failed"}
        /\ exec'[e].status = "completed" => program[e].special
        /\ exec[e].pc \in {"received", "tracked"}
        /\ UNCHANGED <<phase, program, process, running, delivered, lost>>
    <3>1. CASE Reject(e) BY <3>1, <1>c DEF Reject, Pcs, Tracked, completions
    <3>2. CASE RunSpecial(e)
      <4>1. PICK status \in {"completed", "failed"} :
              exec' = [exec EXCEPT ![e].pc = "answering", ![e].status = status]
        BY <3>2 DEF RunSpecial
      <4> QED BY <3>2, <4>1, <1>c DEF RunSpecial, Pcs, Tracked, completions
    <3>3. CASE StartFails(e) BY <3>3, <1>c DEF StartFails, Pcs, Tracked, completions
    <3> QED BY <1>1, <3>1, <3>2, <3>3
  <2> QED BY <2>1 DEF SentOnce, RunsOnlyBetween, IsTracked, StatusIsTrue, Unsent
<1>2. CASE Track(e) \/ StartProcess(e) \/ ReadersDone(e)
  <2>1. /\ exec[e].pc \in {"received", "tracked", "reading"}
        /\ exec'[e].pc \in {"tracked", "reading", "waiting"}
        /\ exec'[e].status = exec[e].status
        /\ UNCHANGED <<phase, program, delivered, lost>>
    BY <1>2, <1>b DEF Track, StartProcess, ReadersDone, Pcs, completions
  <2>2. SentOnce(e)' BY <2>1 DEF SentOnce, Unsent
  <2>3. RunsOnlyBetween(e)'
    <3>1. CASE Track(e) BY <3>1, <1>a DEF Track, RunsOnlyBetween
    <3>2. CASE StartProcess(e) \/ ReadersDone(e)
      BY <3>2, <1>b DEF StartProcess, ReadersDone, Pcs, RunsOnlyBetween
    <3> QED BY <1>2, <3>1, <3>2
  <2>4. IsTracked(e)'
    <3>1. CASE Track(e) BY <3>1 DEF Track, IsTracked
    <3>2. CASE StartProcess(e) \/ ReadersDone(e)
      BY <3>2, <2>1 DEF StartProcess, ReadersDone, IsTracked, Tracked
    <3> QED BY <1>2, <3>1, <3>2
  <2>5. StatusIsTrue(e)' BY <2>1 DEF StatusIsTrue
  <2> QED BY <2>2, <2>3, <2>4, <2>5
<1>3. CASE WaitReturns(e) \/ KillAndWait(e)
  <2>1. /\ exec[e].pc = "waiting"
        /\ exec'[e].pc = "reporting"
        /\ UNCHANGED <<phase, program, running, delivered, lost>>
    <3>1. CASE WaitReturns(e)
      <4>1. (IF process[e].state = "exit0" THEN "completed" ELSE "failed")
              \in {"completed", "failed"}
        OBVIOUS
      <4> QED BY <3>1, <4>1, <1>c DEF WaitReturns, Pcs, completions
    <3>2. CASE KillAndWait(e) BY <3>2, <1>c DEF KillAndWait, Pcs, completions
    <3> QED BY <1>3, <3>1, <3>2
  <2>2. /\ process'[e].state # "running"
        /\ exec'[e].status \in {"completed", "failed"}
        /\ exec'[e].status = "completed" => process'[e].state = "exit0"
    <3>1. CASE WaitReturns(e) BY <3>1, <1>a DEF WaitReturns, Exited
    <3>2. CASE KillAndWait(e)
      <4>1. process'[e].state # "running" BY <3>2, <1>a DEF KillAndWait, Killed, ProcessType
      <4>2. exec'[e].status = "failed" BY <3>2, <1>a DEF KillAndWait
      <4> QED BY <4>1, <4>2
    <3> QED BY <1>3, <3>1, <3>2
  <2> QED BY <2>1, <2>2
          DEF SentOnce, RunsOnlyBetween, IsTracked, StatusIsTrue, Unsent, Tracked
<1>4. CASE Report(e) \/ Answer(e)
  <2>1. /\ exec[e].pc \in {"reporting", "answering"}
        /\ exec'[e].pc = IF exec[e].pc = "reporting" THEN "untracking" ELSE "done"
        /\ exec'[e].status = exec[e].status
        /\ SendCompletion(e)
        /\ UNCHANGED <<phase, program, process, running>>
    BY <1>4, <1>b DEF Report, Answer, Pcs
  <2>2. SentOnce(e)' BY <2>1, <1>a DEF SentOnce, SendCompletion, Unsent
  <2> QED BY <2>1, <2>2 DEF RunsOnlyBetween, IsTracked, StatusIsTrue, Tracked
<1>5. CASE Untrack(e)
  <2>1. /\ exec[e].pc = "untracking"
        /\ exec'[e].pc = "done"
        /\ exec'[e].status = exec[e].status
        /\ UNCHANGED <<program, process, delivered, lost>>
    BY <1>5, <1>a DEF Untrack, completions
  <2> QED BY <2>1 DEF SentOnce, RunsOnlyBetween, IsTracked, StatusIsTrue, Unsent, Tracked
<1> QED BY <1>1, <1>2, <1>3, <1>4, <1>5 DEF ExecStep

LEMMA NextIInv == IInv /\ [Next]_vars => IInv'
<1> SUFFICES ASSUME IInv, [Next]_vars PROVE IInv'
  OBVIOUS
<1>a. /\ exec \in [Execution -> ExecType]
      /\ process \in [Execution -> ProcessType]
      /\ delivered \in [Execution -> Nat]
      /\ program \in [Execution -> Program \cup {NoProgram}]
  BY DEF IInv, TypeInv, TypeOK, ExecType, Pcs, ProcessType
<1>b. \A d \in Execution : EInv(d) BY DEF IInv
<1>t. TypeInv' BY NextTypeInv DEF IInv
<1> SUFFICES ASSUME NEW d \in Execution PROVE EInv(d)'
  BY <1>t DEF IInv
<1>1. CASE ListenerStep \/ StreamBreaks
  BY <1>1, <1>b, Untouched
     DEF ListenerStep, OpenStream, ReceiveFails, ListenerEnds, StreamBreaks, completions
<1>2. ASSUME NEW e \in Execution, Receive(e) PROVE EInv(d)'
  <2>1. CASE d = e
    <3>1. /\ exec'[e].pc = "received" /\ exec'[e].status = "none" /\ exec[e].pc = "none"
          /\ UNCHANGED <<phase, process, running, delivered, lost>>
      BY <1>2, <1>a DEF Receive, completions
    <3> QED BY <2>1, <3>1, <1>b
            DEF EInv, SentOnce, RunsOnlyBetween, IsTracked, StatusIsTrue, Unsent, Tracked
  <2>2. CASE d # e BY <1>2, <2>2, <1>a, <1>b, Untouched DEF Receive, completions
  <2> QED BY <2>1, <2>2
<1>3. ASSUME NEW e \in Execution, ExecStep(e) PROVE EInv(d)'
  <2>1. CASE d = e BY <1>3, <2>1, <1>b, ExecStepKeeps DEF IInv
  <2>2. CASE d # e
    <3>1. exec'[d] = exec[d] /\ process'[d] = process[d]
      BY <1>3, <2>2, <1>a
         DEF ExecStep, Reject, RunSpecial, Track, StartFails, StartProcess, ReadersDone,
             WaitReturns, KillAndWait, Report, Answer, Untrack
    <3>2. delivered'[d] = delivered[d] /\ (d \in lost' <=> d \in lost)
      <4>1. UNCHANGED completions \/ SendCompletion(e)
        BY <1>3 DEF ExecStep, Reject, RunSpecial, Track, StartFails, StartProcess, ReadersDone,
                  WaitReturns, KillAndWait, Report, Answer, Untrack
      <4> QED BY <4>1, <2>2, <1>a DEF SendCompletion, completions
    <3>3. /\ UNCHANGED <<phase, program>>
          /\ running' \in {running, running \cup {e}, running \ {e}}
      BY <1>3 DEF ExecStep, Reject, RunSpecial, Track, StartFails, StartProcess, ReadersDone,
                WaitReturns, KillAndWait, Report, Answer, Untrack
    <3> QED BY <2>2, <3>1, <3>2, <3>3, <1>b, Untouched
  <2> QED BY <2>1, <2>2
<1>4. ASSUME NEW e \in Execution, NEW o \in Output, ReaderStep(e, o) PROVE EInv(d)'
  BY <1>4, <1>b, Untouched DEF ReaderStep, ReadChunk, ReadEOF, completions
<1>5. ASSUME NEW e \in Execution, ProcessStep(e) \/ EndBackground(e) PROVE EInv(d)'
  <2>1. process'[d].state # process[d].state => process[d].state = "running"
    <3>1. ASSUME NEW o \in Output, WriteChunk(e, o) PROVE process[e].state = "running"
      BY <3>1 DEF WriteChunk
    <3>2. CASE CloseOutputs(e) \/ EndProcess(e) \/ \E o \in Output : WriteChunk(e, o)
      <4>1. process[e].state = "running" BY <3>1, <3>2 DEF CloseOutputs, EndProcess
      <4>2. d # e => process'[d] = process[d]
        BY <3>2, <1>a DEF CloseOutputs, EndProcess, WriteChunk
      <4> QED BY <4>1, <4>2
    <3>3. CASE EndBackground(e) BY <3>3, <1>a DEF EndBackground, ProcessType
    <3> QED BY <1>5, <3>2, <3>3 DEF ProcessStep
  <2>2. UNCHANGED <<phase, exec, program, running, delivered, lost>>
    BY <1>5 DEF ProcessStep, WriteChunk, CloseOutputs, EndProcess, EndBackground, completions
  <2> QED BY <2>1, <2>2, <1>b, Untouched
<1>6. CASE Cancel BY <1>6, <1>b, Untouched DEF Cancel, completions
<1>7. CASE Stop
  <2>1. process'[d].state # process[d].state => process[d].state = "running"
    BY <1>7, <1>a DEF Stop, Killed, ProcessType
  <2> QED BY <1>7, <2>1, <1>b, Untouched DEF Stop, completions
<1>8. CASE ExitAgent BY <1>8, <1>b, Untouched DEF ExitAgent, completions
<1>9. CASE UNCHANGED vars BY <1>9, <1>b, Untouched DEF vars
<1> QED BY <1>1, <1>2, <1>3, <1>4, <1>5, <1>6, <1>7, <1>8, <1>9 DEF Next

LEMMA Invariant == Spec => []IInv
BY InitIInv, NextIInv, PTL DEF Spec

(***************************************************************************)
(* What follows.                                                           *)
(***************************************************************************)
\* Every path through executeCommand reports at most one completion, and has reported
\* one when its goroutine is done, delivered or lost with its stream.
THEOREM AnsweredOnce == Spec => []OneCompletion
<1>1. IInv => OneCompletion
  <2> SUFFICES ASSUME IInv, NEW e \in Execution
               PROVE  LET sent == delivered[e] + (IF e \in lost THEN 1 ELSE 0)
                      IN sent <= 1 /\ (exec[e].pc = "done" => sent = 1)
    BY DEF OneCompletion
  <2>1. SentOnce(e) BY DEF IInv, EInv
  <2> QED BY <2>1 DEF SentOnce, Unsent
<1> QED BY <1>1, Invariant, PTL

\* Until Stop, cl.running holds every command whose process runs.
THEOREM RunningIsTracked == Spec => []TrackedWhileRunning
<1>1. IInv => TrackedWhileRunning
  BY DEF IInv, EInv, RunsOnlyBetween, IsTracked, Tracked, TrackedWhileRunning
<1> QED BY <1>1, Invariant, PTL

\* A command that was not special is reported "completed" only after its process has
\* exited by itself with code 0.
THEOREM StatusesAreTrue == Spec => []CompletedMeansExited
<1>1. IInv => CompletedMeansExited
  BY DEF IInv, EInv, StatusIsTrue, CompletedMeansExited
<1> QED BY <1>1, Invariant, PTL

\* The step in which Stop returns leaves no process running that was started before it.
THEOREM StopKills == Spec => StopKillsStarted
<1>1. IInv /\ [Next]_vars => [phase' = "stopped" /\ phase # "stopped" =>
                               \A e \in Execution : process'[e].state # "running"]_vars
  <2> SUFFICES ASSUME IInv, Next, phase' = "stopped", phase # "stopped", NEW e \in Execution
               PROVE  process'[e].state # "running"
    OBVIOUS
  <2>1. Stop
    BY ZenonT(60) DEF Next, ListenerStep, OpenStream, ReceiveFails, ListenerEnds, StreamBreaks, Receive,
           ExecStep, Reject, RunSpecial, Track, StartFails, StartProcess, ReadersDone,
           WaitReturns, KillAndWait, Report, Answer, Untrack, ReaderStep, ReadChunk, ReadEOF,
           ProcessStep, WriteChunk, CloseOutputs, EndProcess, EndBackground, Cancel, ExitAgent
  <2>2. process[e].state = "running" => e \in running
    BY <2>1 DEF Stop, IInv, EInv, RunsOnlyBetween, IsTracked, Tracked
  <2>3. process \in [Execution -> ProcessType] BY DEF IInv, TypeInv, TypeOK, ProcessType
  <2> QED BY <2>1, <2>2, <2>3 DEF Stop, Killed, ProcessType
<1> QED BY <1>1, Invariant, PTL DEF Spec, StopKillsStarted
(***************************************************************************)
(* CommandExecution implements CommandService.  What the server may see of *)
(* one command changes in the steps of that command alone, except that     *)
(* Stop kills several processes at once.                                   *)
(***************************************************************************)
\* Where the goroutine is says whether there is a process; only a command for a shell is
\* tracked and gets one; and what is about to be reported has a status.
JobKnown(e) ==
  /\ exec[e].pc \in {"none", "received", "tracked", "answering"} => process[e].state = "none"
  /\ exec[e].pc \in {"reading", "waiting"} => process[e].state # "none"
  /\ exec[e].pc = "tracked" \/ process[e].state # "none" => ~program[e].special
  /\ exec[e].pc \in {"reporting", "answering", "untracking", "done"} => exec[e].status # "none"

SInv == IInv /\ \A e \in Execution : JobKnown(e)

LEMMA InitSInv == Init => SInv
<1> SUFFICES ASSUME Init PROVE \A e \in Execution : JobKnown(e)
  BY InitIInv DEF SInv
<1> QED BY DEF Init, IdleExec, NoProcess, JobKnown

\* A step of executeCommand keeps what is known of the command's job.
LEMMA JobStaysKnown ==
  ASSUME SInv, NEW e \in Execution, ExecStep(e)
  PROVE  JobKnown(e)'
<1> USE DEF JobKnown, Is
<1>a. /\ exec \in [Execution -> ExecType]
      /\ process \in [Execution -> ProcessType]
      /\ JobKnown(e)
  BY DEF SInv, IInv, TypeInv, TypeOK, ExecType, Pcs, ProcessType
<1>b. \A pc \in Pcs : exec' = [exec EXCEPT ![e].pc = pc]
                      => exec'[e].pc = pc /\ exec'[e].status = exec[e].status
  BY <1>a DEF ExecType
<1>c. \A pc \in Pcs, status \in {"completed", "failed"} :
        exec' = [exec EXCEPT ![e].pc = pc, ![e].status = status]
          => exec'[e].pc = pc /\ exec'[e].status = status
  BY <1>a DEF ExecType
<1>1. CASE Reject(e) BY <1>1, <1>a, <1>c DEF Reject, Pcs
<1>2. CASE RunSpecial(e)
  <2>1. PICK status \in {"completed", "failed"} :
          exec' = [exec EXCEPT ![e].pc = "answering", ![e].status = status]
    BY <1>2 DEF RunSpecial
  <2> QED BY <1>2, <2>1, <1>a, <1>c DEF RunSpecial, Pcs
<1>3. CASE Track(e) BY <1>3, <1>a, <1>b DEF Track, Pcs
<1>4. CASE StartFails(e) BY <1>4, <1>a, <1>c DEF StartFails, Pcs
<1>5. CASE StartProcess(e)
  <2>1. exec'[e].pc = "reading" BY <1>5, <1>b DEF StartProcess, Pcs
  <2>2. process'[e].state = "running" /\ program'[e] = program[e] BY <1>5, <1>a DEF StartProcess
  <2> QED BY <1>5, <2>1, <2>2, <1>a DEF StartProcess
<1>6. CASE ReadersDone(e) BY <1>6, <1>a, <1>b DEF ReadersDone, Pcs
<1>7. CASE WaitReturns(e)
  <2>1. (IF process[e].state = "exit0" THEN "completed" ELSE "failed") \in {"completed", "failed"}
    OBVIOUS
  <2>2. exec'[e].pc = "reporting" /\ exec'[e].status \in {"completed", "failed"}
    BY <1>7, <2>1, <1>c DEF WaitReturns, Pcs
  <2> QED BY <1>7, <2>2, <1>a DEF WaitReturns
<1>8. CASE KillAndWait(e)
  <2>1. exec'[e].pc = "reporting" /\ exec'[e].status = "failed"
    BY <1>8, <1>c DEF KillAndWait, Pcs
  <2>2. process[e].state # "none" /\ program'[e] = program[e] BY <1>8, <1>a DEF KillAndWait
  <2> QED BY <2>1, <2>2, <1>a
<1>9. CASE Report(e) \/ Answer(e) \/ Untrack(e)
  <2>1. /\ exec[e].pc \in {"reporting", "answering", "untracking"}
        /\ exec'[e].pc \in {"untracking", "done"}
        /\ exec'[e].status = exec[e].status
        /\ UNCHANGED <<process, program>>
    BY <1>9, <1>b DEF Report, Answer, Untrack, Pcs
  <2> QED BY <2>1, <1>a
<1> QED BY <1>1, <1>2, <1>3, <1>4, <1>5, <1>6, <1>7, <1>8, <1>9 DEF ExecStep

\* A step that leaves a command's goroutine, program and completions alone, and changes
\* its process at most from running to ended.
Aside(d) ==
  /\ exec'[d] = exec[d]
  /\ program'[d] = program[d]
  /\ delivered'[d] = delivered[d]
  /\ d \in lost' <=> d \in lost
  /\ process'[d].state # process[d].state => process[d].state = "running"
  /\ process'[d].state # process[d].state => process'[d].state \in Exited

LEMMA OthersAreAside ==
  ASSUME SInv, NEW e \in Execution, Receive(e) \/ ExecStep(e), NEW d \in Execution, d # e
  PROVE  Aside(d) /\ process'[d] = process[d]
<1>a. /\ exec \in [Execution -> ExecType]
      /\ process \in [Execution -> ProcessType]
      /\ delivered \in [Execution -> Nat]
      /\ program \in [Execution -> Program \cup {NoProgram}]
  BY DEF SInv, IInv, TypeInv, TypeOK, ExecType, Pcs, ProcessType
<1>1. CASE Receive(e) BY <1>1, <1>a DEF Aside, Receive, completions
<1>2. CASE ExecStep(e)
  <2>1. exec'[d] = exec[d] /\ process'[d] = process[d]
    BY <1>2, <1>a
       DEF ExecStep, Reject, RunSpecial, Track, StartFails, StartProcess, ReadersDone,
           WaitReturns, KillAndWait, Report, Answer, Untrack
  <2>2. delivered'[d] = delivered[d] /\ (d \in lost' <=> d \in lost)
    <3>1. UNCHANGED completions \/ SendCompletion(e)
      BY <1>2 DEF ExecStep, Reject, RunSpecial, Track, StartFails, StartProcess, ReadersDone,
                WaitReturns, KillAndWait, Report, Answer, Untrack
    <3> QED BY <3>1, <1>a DEF SendCompletion, completions
  <2>3. program' = program
    BY <1>2 DEF ExecStep, Reject, RunSpecial, Track, StartFails, StartProcess, ReadersDone,
              WaitReturns, KillAndWait, Report, Answer, Untrack
  <2> QED BY <2>1, <2>2, <2>3 DEF Aside
<1> QED BY <1>1, <1>2

\* Every step leaves all commands aside but the one it receives or executes.
LEMMA MostAreAside ==
  ASSUME SInv, [Next]_vars, NEW d \in Execution, ~Receive(d), ~ExecStep(d)
  PROVE  Aside(d)
<1>a. process \in [Execution -> ProcessType]
  BY DEF SInv, IInv, TypeInv, TypeOK, ProcessType
<1>1. CASE ListenerStep \/ StreamBreaks \/ Cancel \/ ExitAgent \/ UNCHANGED vars
  BY <1>1 DEF Aside, ListenerStep, OpenStream, ReceiveFails, ListenerEnds, StreamBreaks,
              Cancel, ExitAgent, vars, completions
<1>2. ASSUME NEW e \in Execution, Receive(e) \/ ExecStep(e) PROVE Aside(d)
  BY <1>2, OthersAreAside
<1>3. ASSUME NEW e \in Execution, NEW o \in Output, ReaderStep(e, o) PROVE Aside(d)
  BY <1>3 DEF Aside, ReaderStep, ReadChunk, ReadEOF, completions
<1>4. ASSUME NEW e \in Execution, ProcessStep(e) \/ EndBackground(e) PROVE Aside(d)
  <2>1. /\ process'[d].state # process[d].state => process[d].state = "running"
        /\ process'[d].state # process[d].state => process'[d].state \in Exited
    <3>1. ASSUME NEW o \in Output, WriteChunk(e, o) PROVE process'[d].state = process[d].state
      BY <3>1, <1>a DEF WriteChunk, ProcessType
    <3>2. CASE CloseOutputs(e) BY <3>2, <1>a DEF CloseOutputs, ProcessType
    <3>3. CASE EndProcess(e)
      <4>1. PICK s \in {"exit0", "exit1"} : process' = [process EXCEPT ![e].state = s]
        BY <3>3 DEF EndProcess
      <4> QED BY <3>3, <4>1, <1>a DEF EndProcess, ProcessType, Exited
    <3>4. CASE EndBackground(e) BY <3>4, <1>a DEF EndBackground, ProcessType
    <3> QED BY <1>4, <3>1, <3>2, <3>3, <3>4 DEF ProcessStep
  <2>2. UNCHANGED <<exec, program, delivered, lost>>
    BY <1>4 DEF ProcessStep, WriteChunk, CloseOutputs, EndProcess, EndBackground, completions
  <2> QED BY <2>1, <2>2 DEF Aside
<1>5. CASE Stop
  <2>1. process'[d].state # process[d].state
          => process[d].state = "running" /\ process'[d].state = "killed"
    BY <1>5, <1>a DEF Stop, Killed, ProcessType
  <2> QED BY <1>5, <2>1 DEF Stop, Aside, Exited, completions
<1> QED BY <1>1, <1>2, <1>3, <1>4, <1>5 DEF Next

LEMMA NextSInv == SInv /\ [Next]_vars => SInv'
<1> SUFFICES ASSUME SInv, [Next]_vars, NEW d \in Execution PROVE JobKnown(d)'
  BY NextIInv DEF SInv
<1>a. exec \in [Execution -> ExecType] /\ process \in [Execution -> ProcessType] /\ JobKnown(d)
  BY DEF SInv, IInv, TypeInv, TypeOK, ExecType, Pcs, ProcessType
<1>1. CASE Receive(d)
  <2>1. exec'[d].pc = "received" /\ exec[d].pc = "none" /\ process' = process
    BY <1>1, <1>a DEF Receive
  <2> QED BY <2>1, <1>a DEF JobKnown
<1>2. CASE ExecStep(d) BY <1>2, JobStaysKnown
<1>3. CASE ~Receive(d) /\ ~ExecStep(d)
  <2>1. Aside(d) BY <1>3, MostAreAside
  <2> QED BY <2>1, <1>a DEF Aside, JobKnown, Exited
<1> QED BY <1>1, <1>2, <1>3

LEMMA ServiceInvariant == Spec => []SInv
BY InitSInv, NextSInv, PTL DEF Spec

(***************************************************************************)
(* What each step is for the server.                                       *)
(***************************************************************************)
ServiceStep == [Service!Next]_(Service!serviceVars)

Ended == {"declined", "carriedOut", "exit0", "exit1", "killed"}
MayBeSaid(stage) ==
  IF stage = "carriedOut" THEN {"completed"}
  ELSE IF stage = "exit0" THEN {"completed", "failed"} ELSE {"failed"}

LEMMA TruthfulIs ==
  /\ DOMAIN Service!Truthful = Ended
  /\ \A stage \in Ended : Service!Truthful[stage] = MayBeSaid(stage)
BY DEF Service!Truthful, Ended, MayBeSaid

\* How the job of one command may go on while the server is told nothing.
Goes(from, to) ==
  \/ from = "none" /\ to \in {"own", "shell"}
  \/ from \in {"own", "shell"} /\ to = "declined"
  \/ from = "own" /\ to = "carriedOut"
  \/ from = "shell" /\ to = "running"
  \/ from = "running" /\ to \in {"exit0", "exit1"}

\* A step in which the job of one command goes on is one of the service's.
LEMMA JobGoesOn ==
  ASSUME NEW e \in Execution, Goes(Job(e), Job(e)'),
         \A d \in Execution : d # e => Job(d)' = Job(d),
         \A d \in Execution : Told(d)' = Told(d)
  PROVE  ServiceStep
<1> DEFINE job == [d \in Execution |-> Job(d)]
           answer == [d \in Execution |-> Told(d)]
<1>1. job' = [job EXCEPT ![e] = Job(e)'] /\ answer' = answer /\ job[e] = Job(e)
  OBVIOUS
<1>2. Service!Moves(e, Job(e), Job(e)')
  BY <1>1 DEF Service!Moves
<1>3. \/ Service!Accept(e) \/ Service!Decline(e) \/ Service!CarryOut(e)
      \/ Service!Launch(e) \/ Service!Exit(e)
  BY <1>2 DEF Goes, Service!Accept, Service!Decline, Service!CarryOut, Service!Launch, Service!Exit
<1> QED
  BY <1>3 DEF ServiceStep, Service!Next

\* A step in which running processes are killed is one too.
LEMMA SomeAreKilled ==
  ASSUME \A d \in Execution :
           Job(d)' = Job(d) \/ (Job(d) = "running" /\ Job(d)' = "killed"),
         \A d \in Execution : Told(d)' = Told(d)
  PROVE  ServiceStep
<1> DEFINE job == [d \in Execution |-> Job(d)]
           answer == [d \in Execution |-> Told(d)]
           Victims == {d \in Execution : Job(d)' # Job(d)}
<1>1. Victims \in SUBSET {d \in Execution : job[d] = "running"}
  OBVIOUS
<1>2. job' = [d \in Execution |-> IF d \in Victims THEN "killed" ELSE job[d]] /\ answer' = answer
  OBVIOUS
<1>3. Service!Kill
  BY <1>1, <1>2 DEF Service!Kill
<1> QED
  BY <1>3 DEF ServiceStep, Service!Next

\* And so is one in which the server is told how the job of one command has ended, or
\* the answer is lost.
LEMMA ServerIsTold ==
  ASSUME NEW e \in Execution, Job(e) \in Ended, Told(e) = "none",
         Told(e)' \in MayBeSaid(Job(e)) \cup {"lost"},
         \A d \in Execution : Job(d)' = Job(d),
         \A d \in Execution : d # e => Told(d)' = Told(d)
  PROVE  ServiceStep
<1> DEFINE job == [d \in Execution |-> Job(d)]
           answer == [d \in Execution |-> Told(d)]
<1>1. job' = job /\ job[e] = Job(e) /\ answer[e] = "none"
  OBVIOUS
<1>2. answer' = [answer EXCEPT ![e] = Told(e)']
  OBVIOUS
<1>3. Told(e)' \in Service!Truthful[job[e]] \cup {"lost"}
  BY <1>1, TruthfulIs
<1>4. Service!Over(e)
  BY <1>1, TruthfulIs DEF Service!Over
<1>5. Service!Answer(e)
  BY <1>1, <1>2, <1>3, <1>4 DEF Service!Answer
<1> QED
  BY <1>5 DEF ServiceStep, Service!Next

\* A command that is left aside looks as before, unless its process has ended.
LEMMA AsideLooksTheSame ==
  ASSUME NEW d \in Execution, Aside(d)
  PROVE  /\ Told(d)' = Told(d)
         /\ process'[d].state = process[d].state => Job(d)' = Job(d)
         /\ process'[d].state # process[d].state
              => Job(d) = "running" /\ Job(d)' = process'[d].state
<1>1. Told(d)' = Told(d) BY DEF Aside, Told
<1>2. CASE process'[d].state = process[d].state BY <1>1, <1>2 DEF Aside, Job
<1>3. CASE process'[d].state # process[d].state
  <2>1. process[d].state = "running" /\ process'[d].state \in Exited BY <1>3 DEF Aside
  <2> QED BY <1>1, <1>3, <2>1 DEF Job, Exited
<1> QED BY <1>2, <1>3

LEMMA ReceiveServes ==
  ASSUME SInv, NEW e \in Execution, Receive(e)
  PROVE  ServiceStep
<1>1. \A d \in Execution : d # e => Job(d)' = Job(d) /\ Told(d)' = Told(d)
  BY OthersAreAside, AsideLooksTheSame
<1>2. exec \in [Execution -> ExecType] /\ SentOnce(e) /\ JobKnown(e)
  BY DEF SInv, IInv, EInv, TypeInv, TypeOK, ExecType, Pcs
<1>3. /\ exec[e].pc = "none" /\ exec'[e].pc = "received"
      /\ UNCHANGED <<process, delivered, lost>>
  BY <1>2 DEF Receive, completions
<1>4. Told(e)' = Told(e)
  BY <1>2, <1>3 DEF Told, SentOnce, Unsent
<1>5. Goes(Job(e), Job(e)')
  BY <1>2, <1>3 DEF Job, JobKnown, Goes
<1> QED
  BY <1>1, <1>4, <1>5, JobGoesOn

LEMMA ExecStepServes ==
  ASSUME SInv, NEW e \in Execution, ExecStep(e)
  PROVE  ServiceStep
<1> USE DEF Is
<1>a. /\ exec \in [Execution -> ExecType]
      /\ process \in [Execution -> ProcessType]
      /\ delivered \in [Execution -> Nat]
      /\ SentOnce(e) /\ JobKnown(e) /\ JobKnown(e)' /\ StatusIsTrue(e)
  BY JobStaysKnown DEF SInv, IInv, EInv, TypeInv, TypeOK, ExecType, Pcs, ProcessType
<1>b. \A pc \in Pcs : exec' = [exec EXCEPT ![e].pc = pc]
                      => exec'[e].pc = pc /\ exec'[e].status = exec[e].status
  BY <1>a DEF ExecType
<1>c. \A pc \in Pcs, status \in {"completed", "failed"} :
        exec' = [exec EXCEPT ![e].pc = pc, ![e].status = status]
          => exec'[e].pc = pc /\ exec'[e].status = status
  BY <1>a DEF ExecType
<1>o. \A d \in Execution : d # e => Job(d)' = Job(d) /\ Told(d)' = Told(d)
  BY OthersAreAside, AsideLooksTheSame
\* Before the completion is sent, the server has been told nothing.
<1>u. ASSUME exec[e].pc \in Unsent, UNCHANGED completions PROVE Told(e)' = Told(e)
  BY <1>a, <1>u DEF SentOnce, Told, completions
<1>s. ASSUME Job(e)' = Job(e), Told(e)' = Told(e) PROVE ServiceStep
  BY <1>o, <1>s, SomeAreKilled
<1>1. CASE Reject(e)
  <2>1. /\ exec[e].pc = "received" /\ exec'[e].pc = "answering" /\ exec'[e].status = "failed"
        /\ UNCHANGED <<process, completions>>
    BY <1>1, <1>c DEF Reject, Pcs
  <2>2. Told(e)' = Told(e) BY <2>1, <1>u DEF Unsent
  <2>3. Goes(Job(e), Job(e)') BY <2>1, <1>a DEF Goes, Job, JobKnown
  <2> QED BY <2>2, <2>3, <1>o, JobGoesOn
<1>2. CASE RunSpecial(e)
  <2>1. PICK status \in {"completed", "failed"} :
          exec' = [exec EXCEPT ![e].pc = "answering", ![e].status = status]
    BY <1>2 DEF RunSpecial
  <2>2. /\ exec[e].pc = "received" /\ exec'[e].pc = "answering" /\ exec'[e].status = status
        /\ program[e].special
        /\ UNCHANGED <<process, completions>>
    BY <1>2, <2>1, <1>c DEF RunSpecial, Pcs
  <2>3. Told(e)' = Told(e) BY <2>2, <1>u DEF Unsent
  <2>4. Goes(Job(e), Job(e)') BY <2>2, <1>a DEF Goes, Job, JobKnown
  <2> QED BY <2>3, <2>4, <1>o, JobGoesOn
<1>3. CASE Track(e)
  <2>1. /\ exec[e].pc = "received" /\ exec'[e].pc = "tracked"
        /\ UNCHANGED <<process, program, completions>>
    BY <1>3, <1>b DEF Track, Pcs
  <2>2. Told(e)' = Told(e) BY <2>1, <1>u DEF Unsent
  <2>3. Job(e)' = Job(e) BY <2>1, <1>a DEF Job, JobKnown
  <2> QED BY <2>2, <2>3, <1>s
<1>4. CASE StartFails(e)
  <2>1. /\ exec[e].pc = "tracked" /\ exec'[e].pc = "reporting" /\ exec'[e].status = "failed"
        /\ UNCHANGED <<process, completions>>
    BY <1>4, <1>c DEF StartFails, Pcs
  <2>2. Told(e)' = Told(e) BY <2>1, <1>u DEF Unsent
  <2>3. Goes(Job(e), Job(e)') BY <2>1, <1>a DEF Goes, Job, JobKnown
  <2> QED BY <2>2, <2>3, <1>o, JobGoesOn
<1>5. CASE StartProcess(e)
  <2>1. exec[e].pc = "tracked" /\ UNCHANGED completions BY <1>5 DEF StartProcess
  <2>2. process'[e].state = "running" BY <1>5, <1>a DEF StartProcess
  <2>3. Told(e)' = Told(e) BY <2>1, <1>u DEF Unsent
  <2>4. Goes(Job(e), Job(e)') BY <2>1, <2>2, <1>a DEF Goes, Job, JobKnown
  <2> QED BY <2>3, <2>4, <1>o, JobGoesOn
<1>6. CASE ReadersDone(e) \/ WaitReturns(e)
  <2>1. exec[e].pc \in {"reading", "waiting"} /\ UNCHANGED <<process, completions>>
    BY <1>6 DEF ReadersDone, WaitReturns
  <2>2. Told(e)' = Told(e) BY <2>1, <1>u DEF Unsent
  <2>3. Job(e)' = Job(e) BY <2>1, <1>a DEF Job, JobKnown
  <2> QED BY <2>2, <2>3, <1>s
<1>7. CASE KillAndWait(e)
  <2>1. exec[e].pc = "waiting" /\ UNCHANGED completions BY <1>7 DEF KillAndWait
  <2>2. process'[e].state = Killed(e) BY <1>7, <1>a DEF KillAndWait, ProcessType
  <2>3. Told(e)' = Told(e) BY <2>1, <1>u DEF Unsent
  <2>4. Job(e)' = Job(e) \/ (Job(e) = "running" /\ Job(e)' = "killed")
    BY <2>1, <2>2, <1>a DEF Job, JobKnown, Killed
  <2> QED BY <2>3, <2>4, <1>o, SomeAreKilled
<1>8. CASE Report(e) \/ Answer(e)
  <2>1. /\ exec[e].pc \in {"reporting", "answering"}
        /\ exec'[e].pc \in {"untracking", "done"}
        /\ exec'[e].status = exec[e].status
        /\ exec[e].status \in {"completed", "failed"}
        /\ SendCompletion(e)
        /\ UNCHANGED <<process, program>>
    <3>1. exec[e].status \in {"completed", "failed"} BY <1>8, <1>a DEF Report, Answer, JobKnown, ExecType
    <3> QED BY <1>8, <3>1, <1>b DEF Report, Answer, Pcs
  <2>2. delivered[e] = 0 /\ e \notin lost BY <2>1, <1>a DEF SentOnce, Unsent
  <2>3. Told(e) = "none" BY <2>2 DEF Told
  <2>4. Told(e)' \in {exec[e].status, "lost"}
    <3>1. CASE exec[e].stream \in broken
      <4>1. delivered'[e] = 0 /\ e \in lost' BY <3>1, <2>1, <2>2 DEF SendCompletion
      <4> QED BY <4>1 DEF Told
    <3>2. CASE exec[e].stream \notin broken
      <4>1. delivered'[e] = 1 /\ e \notin lost' BY <3>2, <2>1, <2>2, <1>a DEF SendCompletion
      <4> QED BY <4>1, <2>1 DEF Told
    <3> QED BY <3>1, <3>2
  <2>5. Job(e)' = Job(e) BY <2>1 DEF Job
  <2>6. Job(e) \in Ended /\ exec[e].status \in MayBeSaid(Job(e))
    <3>1. RunsOnlyBetween(e) BY DEF SInv, IInv, EInv
    <3>2. process[e].state \in {"none"} \cup Exited
      BY <3>1, <2>1, <1>a DEF RunsOnlyBetween, ProcessType
    <3>3. CASE process[e].state = "none"
      BY <3>3, <2>1 DEF Job, Ended, MayBeSaid
    <3>4. CASE process[e].state \in Exited
      <4>1. exec[e].status = "completed" => process[e].state = "exit0"
        BY <3>4, <1>a DEF JobKnown, StatusIsTrue, Exited
      <4>2. Job(e) = process[e].state BY <3>4 DEF Job, Exited
      <4> QED BY <3>4, <4>1, <4>2, <2>1 DEF Ended, MayBeSaid, Exited
    <3> QED BY <3>2, <3>3, <3>4
  <2> QED BY <2>3, <2>4, <2>5, <2>6, <1>o, ServerIsTold
<1>9. CASE Untrack(e)
  <2>1. /\ exec[e].pc = "untracking" /\ exec'[e].pc = "done" /\ exec'[e].status = exec[e].status
        /\ UNCHANGED <<process, program, delivered, lost>>
    BY <1>9, <1>b DEF Untrack, Pcs, completions
  <2>2. Told(e)' = Told(e) BY <2>1 DEF Told
  <2>3. Job(e)' = Job(e) BY <2>1 DEF Job
  <2> QED BY <2>2, <2>3, <1>s
<1> QED BY <1>1, <1>2, <1>3, <1>4, <1>5, <1>6, <1>7, <1>8, <1>9 DEF ExecStep

\* A step in which no goroutine of a command moves is one of the service's: a process
\* ends by itself, Stop kills, or the server sees nothing.
LEMMA OtherStepsServe ==
  ASSUME SInv, [Next]_vars, \A e \in Execution : ~Receive(e) /\ ~ExecStep(e)
  PROVE  ServiceStep
<1>a. process \in [Execution -> ProcessType]
  BY DEF SInv, IInv, TypeInv, TypeOK, ProcessType
<1>b. \A d \in Execution : Aside(d)
  BY MostAreAside
<1>c. \A d \in Execution : Told(d)' = Told(d)
  BY <1>b, AsideLooksTheSame
<1>d. \A d \in Execution : process'[d].state = process[d].state => Job(d)' = Job(d)
  BY <1>b, AsideLooksTheSame
<1>1. ASSUME NEW e \in Execution, EndProcess(e) PROVE ServiceStep
  <2>1. PICK s \in {"exit0", "exit1"} : process' = [process EXCEPT ![e].state = s]
    BY <1>1 DEF EndProcess
  <2>2. process[e].state = "running" /\ process'[e].state = s
    BY <1>1, <2>1, <1>a DEF EndProcess, ProcessType
  <2>3. Job(e) = "running" /\ Job(e)' = s
    BY <2>2, <1>b, AsideLooksTheSame
  <2>4. \A d \in Execution : d # e => process'[d].state = process[d].state
    BY <2>1, <1>a
  <2> QED
    BY <2>3, <2>4, <1>c, <1>d, JobGoesOn DEF Goes
<1>2. ASSUME ~\E e \in Execution : EndProcess(e) PROVE ServiceStep
  <2>1. \A d \in Execution :
          process'[d].state = process[d].state
            \/ (process[d].state = "running" /\ process'[d].state = "killed")
    <3>1. CASE ListenerStep \/ StreamBreaks \/ Cancel \/ ExitAgent \/ UNCHANGED vars
      BY <3>1 DEF ListenerStep, OpenStream, ReceiveFails, ListenerEnds, StreamBreaks, Cancel,
                  ExitAgent, vars
    <3>2. ASSUME NEW e \in Execution, NEW o \in Output, ReaderStep(e, o)
          PROVE  process' = process
      BY <3>2 DEF ReaderStep, ReadChunk, ReadEOF
    <3>3. ASSUME NEW e \in Execution, ProcessStep(e) \/ EndBackground(e), NEW d \in Execution
          PROVE  process'[d].state = process[d].state
      <4>1. ASSUME NEW o \in Output, WriteChunk(e, o) PROVE process'[d].state = process[d].state
        BY <4>1, <1>a DEF WriteChunk, ProcessType
      <4>2. CASE CloseOutputs(e) BY <4>2, <1>a DEF CloseOutputs, ProcessType
      <4>3. CASE EndBackground(e) BY <4>3, <1>a DEF EndBackground, ProcessType
      <4> QED BY <1>2, <3>3, <4>1, <4>2, <4>3 DEF ProcessStep
    <3>4. CASE Stop BY <3>4, <1>a DEF Stop, Killed, ProcessType
    <3> QED BY <3>1, <3>2, <3>3, <3>4 DEF Next
  <2>2. \A d \in Execution : Job(d)' = Job(d) \/ (Job(d) = "running" /\ Job(d)' = "killed")
    BY <2>1, <1>b, <1>d, AsideLooksTheSame
  <2> QED
    BY <2>2, <1>c, SomeAreKilled
<1> QED
  BY <1>1, <1>2

LEMMA NextServes == SInv /\ [Next]_vars => ServiceStep
BY ReceiveServes, ExecStepServes, OtherStepsServe

\* The agent keeps the promise of CommandService, for any number of commands at once: each
\* is launched at most once and answered at most once, after its job is over for good,
\* and with "completed" only if it succeeded (command_listener.go:160-507).
THEOREM ImplementsService == Spec => ServiceSpec
<1>1. Init => Service!Init
  <2> SUFFICES ASSUME Init PROVE Service!Init
    OBVIOUS
  <2>1. \A e \in Execution : Job(e) = "none" /\ Told(e) = "none"
    BY DEF Init, IdleExec, NoProcess, Job, Told
  <2> QED
    BY <2>1 DEF Service!Init
<1>2. SInv /\ [Next]_vars => [Service!Next]_(Service!serviceVars)
  BY NextServes DEF ServiceStep
<1> QED
  BY <1>1, <1>2, ServiceInvariant, PTL DEF Spec, ServiceSpec, Service!Spec
=============================================================================
