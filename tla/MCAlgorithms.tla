---------------------------- MODULE MCAlgorithms ----------------------------
(***************************************************************************)
(* Three small machines in one run.  Which of them moves is chosen at the  *)
(* start; the others stay in one of their initial states.                  *)
(***************************************************************************)
EXTENDS CommandPolicy, OutputEncoding, Versions

VARIABLE machine

(***************************************************************************)
(* Requests: executables by name and by path, present or not, written with *)
(* dots, and under names that begin as a listed directory ends;            *)
(* directories that are inside and outside, written with dots, relative,   *)
(* and with names that begin with two dots.                                *)
(***************************************************************************)
Here(path) == [given |-> TRUE, abs |-> TRUE, path |-> path]
Relative(path) == [given |-> TRUE, abs |-> FALSE, path |-> path]
Nowhere == [given |-> FALSE, abs |-> TRUE, path |-> <<>>]

Executables == {Relative(<<"ls">>), Relative(<<"tool">>), Here(<<"usr", "bin", "ls">>),
                Here(<<"opt", "tool">>), Relative(<<"..", "lib", "tool">>),
                Relative(<<"..", "bin", "ls">>), Here(<<"usr", "bin", "..", "lib", "tool">>),
                Here(<<"opt", "..", "usr", "bin", "ls">>), Here(<<"binutils", "tool">>)}
Directories == {Nowhere, Here(<<"tmp">>), Here(<<"home", "a", ".", "b">>), Relative(<<"work">>),
                Here(<<"tmp", "..data">>), Here(<<"tmp", "a", "..data">>),
                Here(<<"home", "a", "..", "..", "etc">>), Here(<<"etc", "shadow">>)}
Environments == {{}, {"PATH", "SECRET"}, {"SECRET"}, {"LC_ALL"}}

Bare(kind) == [text |-> kind, exe |-> Relative(<<"ls">>), dir |-> Nowhere, env |-> {}]
Requests == {Bare(kind) : kind \in {"empty", "blank", "critical", "special"}}
  \cup [text : {"plain"}, exe : Executables, dir : Directories, env : Environments]

\* The second one is not valid: the sandbox is disabled; the third restricts no executable.
AllConfigs == {DefaultSandboxConfig, [DefaultSandboxConfig EXCEPT !.cpu = 101],
               [DefaultSandboxConfig EXCEPT !.allowedExecutables = <<>>]}
Home == <<"home", "agent">>
Files == {<<"usr", "bin", "ls">>, <<"usr", "lib", "tool">>}
Begins == {<<"..data", "..">>, <<"LC_ALL", "LC_">>, <<"binutils", "bin">>}

(***************************************************************************)
(* Versions: short and long ones, equal and different, with text, and with *)
(* more than one v.                                                        *)
(***************************************************************************)
Numeric(n) == [n |-> n, more |-> FALSE]
Suffixed(n) == [n |-> n, more |-> TRUE]
Letters == Numeric(Text)

Fields == UNION {[1..k -> {Numeric(1), Numeric(2)}] : k \in 0..3}
  \cup {<<Letters>>, <<Suffixed(2)>>, <<Numeric(1), Letters, Numeric(2)>>,
        <<Numeric(1), Suffixed(2), Numeric(2)>>, <<Numeric(1), Numeric(2), Suffixed(2)>>}
AllVersions == [v : 0..3, fields : Fields]

(***************************************************************************)
(* The run.                                                                *)
(***************************************************************************)
NoRequest ==
  /\ request = Bare("empty")
  /\ config = DefaultSandboxConfig
  /\ files = {}
  /\ seen = {}
  /\ step = "received"
  /\ env = Inherited

NoText ==
  /\ text = <<>>
  /\ read = 0
  /\ kept = <<>>
  /\ intact = TRUE
  /\ reading = "on"

NoVersions == current = [v |-> 0, fields |-> <<>>] /\ offered = current

Init ==
  \/ machine = "policy" /\ PolicyInit /\ NoText /\ NoVersions
  \/ machine = "output" /\ NoRequest /\ OutputInit /\ NoVersions
  \/ machine = "versions" /\ NoRequest /\ NoText /\ ComparisonInit

Next ==
  \/ machine = "policy" /\ PolicyNext /\ UNCHANGED <<machine, output, comparison>>
  \/ machine = "output" /\ OutputNext /\ UNCHANGED <<machine, policy, comparison>>
  \/ machine = "versions" /\ ComparisonNext /\ UNCHANGED <<machine, policy, output>>

Spec == Init /\ [][Next]_<<machine, policy, output, comparison>>
=============================================================================
