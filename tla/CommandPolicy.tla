--------------------------- MODULE CommandPolicy ---------------------------
(***************************************************************************)
(* What executeCommand lets through: CommandValidator.ValidateCommand      *)
(* (internal/agent/client/command_validator.go), then the sandbox          *)
(* (sandbox_config.go, sandbox_executor.go), which tests a request twice:  *)
(* in ValidateCommand and again in PrepareCommand, which builds the        *)
(* process.  Executables may come and go in between.  One request of one   *)
(* Unix host is followed; Windows runs the same code with its builtin      *)
(* commands allowed.                                                       *)
(*                                                                         *)
(* A path is the sequence of its names; what a request asks for is         *)
(* [given, abs, path].  Starts holds the pairs of names of which the first *)
(* begins with the second.  A symbolic link is a name like any other, as   *)
(* it is for the code.  Bound: Request.                                    *)
(***************************************************************************)
EXTENDS SequencesExt

CONSTANTS
  Request,   \* what the server may ask for, see RequestAssumption
  Configs,   \* configurations of the sandbox
  Cwd,       \* the agent's working directory
  Programs,  \* executable files that may be present
  Starts     \* pairs of names, the first beginning with the second

ASSUME RequestAssumption ==
  \A r \in Request : /\ r.text \in {"empty", "blank", "critical", "special", "plain"}
                     /\ {r.exe.abs, r.dir.given, r.dir.abs} \subseteq BOOLEAN

VARIABLES
  request,  \* the CommandRequest
  config,   \* se.config
  files,    \* the executable files present
  seen,     \* those present when ValidateCommand passed
  step,     \* where executeCommand is
  env       \* cmd.Env of the process prepared

policy == <<request, config, files, seen, step, env>>

StartsWith(name, prefix) == name = prefix \/ <<name, prefix>> \in Starts

(***************************************************************************)
(* Configurations.                                                         *)
(***************************************************************************)
DefaultSandboxConfig ==
  [enabled |-> TRUE,
   allowedPaths |-> {<<"tmp">>, <<"var", "tmp">>, <<"home">>},
   deniedPaths |-> {<<"etc", "shadow">>, <<"etc", "passwd">>, <<"root", ".ssh">>, <<".ssh">>},
   allowedExecutables |-> <<<<"bin">>, <<"usr", "bin">>, <<"usr", "local", "bin">>,
                            <<"sbin">>, <<"usr", "sbin">>>>,
   variables |-> {"PATH", "HOME", "USER", "SHELL", "TERM", "LANG", "TZ"},
   wildcards |-> {"LC_"},
   cpu |-> 50, memory |-> 512, time |-> 300]

\* Validate
ValidConfig(c) == c.enabled => c.cpu \in 0..100 /\ c.memory >= 0 /\ c.time >= 0

\* NewCommandListener goes on without a sandbox if the configuration is not valid.
NewSandboxExecutor(c) == IF ValidConfig(c) THEN c ELSE [c EXCEPT !.enabled = FALSE]

(***************************************************************************)
(* Paths.                                                                  *)
(***************************************************************************)
\* filepath.Clean of an absolute path: where one gets by entering its names.
Enter(dir, name) ==
  IF name = "." THEN dir
  ELSE IF name # ".." THEN Append(dir, name)
  ELSE IF dir = <<>> THEN dir ELSE Front(dir)

Clean(path) ==
  LET dir[i \in 0..Len(path)] == IF i = 0 THEN <<>> ELSE Enter(dir[i - 1], path[i])
  IN dir[Len(path)]

\* filepath.Abs
Abs(p) == Clean(IF p.abs THEN p.path ELSE Cwd \o p.path)

\* filepath.Rel(base, path) for clean absolute paths.
Rel(base, path) ==
  LET common == Len(LongestCommonPrefix({base, path}))
  IN [i \in 1..Len(base) - common |-> ".."] \o SubSeq(path, common + 1, Len(path))

\* MUTANT of Under: filepath.Rel with its arguments swapped.
UnderSwapped(base, path) ==
  LET rel == Rel(path, base) IN rel # <<>> => ~StartsWith(Head(rel), "..")

\* !strings.HasPrefix(rel, "..")
Under(base, path) ==
  LET rel == Rel(base, path) IN rel # <<>> => ~StartsWith(Head(rel), "..")

ValidatePath(c, p) ==
  \/ ~c.enabled
  \/ /\ \A denied \in c.deniedPaths : ~Under(denied, Abs(p))
     /\ c.allowedPaths = {} \/ \E allowed \in c.allowedPaths : Under(allowed, Abs(p))

(***************************************************************************)
(* Executables.                                                            *)
(***************************************************************************)
\* strings.HasPrefix(execPath, allowedDir): a test of the text, in which the last name
\* need only begin the one at its place, and dots that follow count for nothing.
TextPrefix(dir, path) ==
  /\ Len(dir) <= Len(path)
  /\ Front(dir) = SubSeq(path, 1, Len(dir) - 1)
  /\ StartsWith(path[Len(dir)], Last(dir))

\* findExecutableInPath: the first place at which there is such a file, if there is one.
FindExecutable(c, exe, present) ==
  LET place == [i \in DOMAIN c.allowedExecutables |-> Clean(c.allowedExecutables[i] \o exe.path)]
      hits == {i \in DOMAIN place : place[i] \in present}
  IN {place[i] : i \in {j \in hits : \A k \in hits : j <= k}}

\* An absolute executable is taken as it is written.
ValidateExecutable(c, exe, present) ==
  \/ ~c.enabled
  \/ c.allowedExecutables = <<>>
  \/ \E path \in (IF exe.abs THEN {exe.path} ELSE FindExecutable(c, exe, present)) :
       \E dir \in Range(c.allowedExecutables) : TextPrefix(dir, path)

(***************************************************************************)
(* The environment.  A cmd.Env that is not set is the agent's own.         *)
(***************************************************************************)
Inherited == [inherited |-> TRUE, names |-> {}]

Matches(c, name) ==
  name \in c.variables \/ \E prefix \in c.wildcards : StartsWith(name, prefix)

\* MUTANT of FilterEnvironment: a nil slice when no variable is left.
FilterToNil(c, names) ==
  LET kept == {n \in names : ~c.enabled \/ Matches(c, n)}
  IN [inherited |-> kept = {}, names |-> kept]

FilterEnvironment(c, names) ==
  IF ~c.enabled \/ (c.variables = {} /\ c.wildcards = {})
  THEN [inherited |-> FALSE, names |-> names]
  ELSE [inherited |-> FALSE, names |-> {n \in names : Matches(c, n)}]

(***************************************************************************)
(* executeCommand, up to the process it starts.                            *)
(***************************************************************************)
\* MUTANT of ValidateCommand: the executable is left to PrepareCommand.
ValidateDirectory(present) == request.dir.given => ValidatePath(config, request.dir)

\* SandboxExecutor.ValidateCommand; path-like arguments change nothing.
ValidateCommand(present) ==
  \/ ~config.enabled
  \/ /\ request.text # "blank"
     /\ ValidateExecutable(config, request.exe, present)
     /\ request.dir.given => ValidatePath(config, request.dir)

\* CommandValidator refuses no command and a few destructive ones.
Dangerous == request.text \in {"empty", "critical"}

Refuse ==
  /\ step = "received"
  /\ Dangerous \/ (request.text # "special" /\ ~ValidateCommand(files))
  /\ step' = "refused"
  /\ UNCHANGED <<request, config, files, seen, env>>

\* __download_file__ and __check_update__ are not for the sandbox.
HandleSpecial ==
  /\ step = "received"
  /\ request.text = "special"
  /\ step' = "special"
  /\ UNCHANGED <<request, config, files, seen, env>>

Pass ==
  /\ step = "received"
  /\ ~Dangerous
  /\ request.text # "special"
  /\ ValidateCommand(files)
  /\ step' = "validated"
  /\ seen' = files
  /\ UNCHANGED <<request, config, files, env>>

\* What prepareSandboxedCommand tests before it builds the command.
Admissible(present) ==
  /\ request.text # "blank"
  /\ ValidateExecutable(config, request.exe, present)
  /\ request.dir.given => ValidatePath(config, request.dir)

\* prepareNormalCommand and prepareSandboxedCommand.
PrepareCommand ==
  /\ step = "validated"
  /\ ~config.enabled \/ Admissible(files)
  /\ step' = "prepared"
  /\ env' = IF request.env = {} THEN Inherited ELSE FilterEnvironment(config, request.env)
  /\ UNCHANGED <<request, config, files, seen>>

PrepareFails ==
  /\ step = "validated"
  /\ config.enabled
  /\ ~Admissible(files)
  /\ step' = "late"
  /\ UNCHANGED <<request, config, files, seen, env>>

\* A program is installed or removed.
FilesChange ==
  /\ \E p \in Programs : files' = SymDiff(files, {p})
  /\ UNCHANGED <<request, config, seen, step, env>>

PolicyInit ==
  /\ request \in Request
  /\ \E c \in Configs : config = NewSandboxExecutor(c)
  /\ files \in SUBSET Programs
  /\ seen = {}
  /\ step = "received"
  /\ env = Inherited

PolicyNext ==
  \/ Refuse
  \/ HandleSpecial
  \/ Pass
  \/ PrepareCommand
  \/ PrepareFails
  \/ FilesChange

PolicySpec == PolicyInit /\ [][PolicyNext]_policy

(***************************************************************************)
(* Properties.                                                             *)
(***************************************************************************)
\* What the lists mean: containment of the places where paths lead.  No executable
\* listed is no restriction (sandbox_config.go:74).
DirectoryWithin(c, path) ==
  /\ \E allowed \in c.allowedPaths : IsPrefix(allowed, path)
  /\ \A denied \in c.deniedPaths : ~IsPrefix(denied, path)
ExecutableWithin(c, exe) ==
  LET dirs == Range(c.allowedExecutables)
      places == IF exe.abs THEN {Clean(exe.path)}
                           ELSE {Clean(dir \o exe.path) : dir \in dirs} \cap files
  IN c.allowedExecutables = <<>> \/ \E dir \in dirs, place \in places : IsPrefix(dir, place)

\* Where texts say something else than paths: a name may begin with two dots and still
\* be a name, begin as a listed directory ends and be another, or lead elsewhere.
Dotted(path) == \E i \in DOMAIN path : StartsWith(path[i], "..")
Undotted(path) == \A i \in DOMAIN path : path[i] \notin {".", ".."}
Lookalike(c, path) ==
  \E i \in DOMAIN path, dir \in Range(c.allowedExecutables) :
    path[i] # Last(dir) /\ StartsWith(path[i], Last(dir))

\* Each of the two tests lets a request pass only if its directory, however it is
\* written, and its executable lie where the lists say at that moment, and turns it
\* down only if they do not (sandbox_config.go:119, :164).  Excepted is what the code
\* reads as text (:193): an absolute executable written with dots and a name that begins as
\* a listed directory ends may pass, a directory with a name that begins with two dots and
\* an executable written with dots may be turned down.
AdmittedExactly ==
  [][step' # step /\ request.text = "plain" /\ config.enabled =>
       LET exe == request.exe
           executable == ExecutableWithin(config, exe)
           directory == request.dir.given => DirectoryWithin(config, Abs(request.dir))
       IN IF step' \in {"validated", "prepared"}
          THEN /\ executable \/ Lookalike(config, exe.path) \/ (exe.abs /\ ~Undotted(exe.path))
               /\ directory
          ELSE executable /\ directory => Dotted(Abs(request.dir)) \/ ~Undotted(exe.path)]_policy

\* Both tests agree: a request refused by PrepareCommand after ValidateCommand let
\* it pass (command_listener.go:203, :219) met other files the second time.
LateRefusalMeansChange == [][step # "late" /\ step' = "late" => files # seen]_policy

\* A request that names variables gets those that are allowed and nothing of the
\* agent's own environment, even if none of them is left (sandbox_executor.go:136).
NeverInherits ==
  step = "prepared" /\ request.env # {} =>
    /\ ~env.inherited
    /\ env.names \subseteq request.env
    /\ config.enabled /\ config.variables \cup config.wildcards # {}
         => \A n \in env.names : Matches(config, n)
=============================================================================
