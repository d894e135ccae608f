--------------------------- MODULE CommandService ---------------------------
(***************************************************************************)
(* What the agent promises of the commands it takes, without streams,      *)
(* readers, timers or goroutines: a command is declined, carried out by    *)
(* the agent itself, or run once as a process; when that is over, and not  *)
(* before, the server is told once how it ended, unless the answer is      *)
(* lost.  CommandExecution implements this specification.                  *)
(***************************************************************************)

CONSTANT Command

VARIABLES
  job,     \* per command: how far it is
  answer   \* per command: what the server was told

serviceVars == <<job, answer>>

\* What may be said of a job that is over.  One that exited with code 0 is reported
\* "failed" when its timeout, the context or Stop came first.
Truthful ==
  [declined |-> {"failed"}, carriedOut |-> {"completed"},
   exit0 |-> {"completed", "failed"}, exit1 |-> {"failed"}, killed |-> {"failed"}]

Over(c) == job[c] \in DOMAIN Truthful

Init ==
  /\ job = [c \in Command |-> "none"]
  /\ answer = [c \in Command |-> "none"]

Moves(c, from, to) ==
  /\ job[c] = from
  /\ job' = [job EXCEPT ![c] = to]
  /\ UNCHANGED answer

\* A command comes in: one for the agent itself, or one for a shell.
Accept(c) == \E kind \in {"own", "shell"} : Moves(c, "none", kind)

Decline(c) == \E kind \in {"own", "shell"} : Moves(c, kind, "declined")

CarryOut(c) == Moves(c, "own", "carriedOut")

Launch(c) == Moves(c, "shell", "running")

Exit(c) == \E code \in {"exit0", "exit1"} : Moves(c, "running", code)

\* The agent kills what it likes of what runs.
Kill ==
  /\ \E Victims \in SUBSET {c \in Command : job[c] = "running"} :
       job' = [c \in Command |-> IF c \in Victims THEN "killed" ELSE job[c]]
  /\ UNCHANGED answer

Answer(c) ==
  /\ Over(c)
  /\ answer[c] = "none"
  /\ \E result \in Truthful[job[c]] \cup {"lost"} : answer' = [answer EXCEPT ![c] = result]
  /\ UNCHANGED job

Next ==
  \/ \E c \in Command :
       Accept(c) \/ Decline(c) \/ CarryOut(c) \/ Launch(c) \/ Exit(c) \/ Answer(c)
  \/ Kill

Spec == Init /\ [][Next]_serviceVars
=============================================================================
