# A verification development of the XuanNexus agent

TLA+ modules, TLC configurations and TLAPS proofs for the agent in `src/`: a Go
daemon that registers with a management server over gRPC, keeps a connection to
it, reports metrics, runs the commands the server sends, transfers files and
upgrades itself. The models are read off the code; where the code calls a library
or the operating system, its behaviour is what the code relies on and is named
below as an assumption.

    tlc -workers 2 -config MCReconnect.cfg MCReconnect        # any run
    tlapm Reconnect_proofs.tla                                # any proof

## 1. The system

| Component | Code | State it keeps | Operations | Interacts with |
|---|---|---|---|---|
| Metrics delivery | `client/grpc_client.go`, `metrics_cache.go` | the cache of unsent samples | `ReportDynamicMetrics`, `flushCachedMetrics`, `Add`, `GetAll`, `Size` | called by the main loop's ticker, `reportAfterConnect` and a goroutine per command stream |
| Reconnection | `client/reconnect.go`, `Connect`/`Close` of `grpc_client.go` | atomics `connected`, `reconnecting`; the connection | `Start` (monitor), `Reconnect` (worker), `Stop` | gates the main loop (`IsConnected`), replaces the connection under everybody |
| Command listener and execution | `client/command_listener.go`, `sandbox_executor*.go` | the stream, the map `running`, processes and pipes | `Start`, `listenForCommands`, `executeCommand`, `Stop` | starts file transfers and update checks, reports metrics per stream |
| Self-upgrade | `updater/*.go` | `updating`; binaries on disk; the running image | `CheckAndUpgrade`, `downloadBinary`, `replaceBinary`, `RestartSelf`, `isNewerVersion` | called by cron and by the server's `__check_update__`, which answers the server |
| File transfer | `client/file_transfer.go` | temporary and destination files | `DownloadFile`, `downloadFileAttempt` (`UploadFile` has no caller) | called by `__download_file__` commands |
| Unary RPCs, TLS | `client/grpc_client.go` | none | `Register`, `SendHeartbeat`, `ReportStaticInfo`, `loadTLSConfig` | outcomes are steps of `AgentLifecycle` and `Reconnect` |
| Agent life cycle | `cmd/agent/main.go`, `config/*.go`, `pkg/installer/installer.go` | the configuration file and its copy in memory, credentials, `cancel`, `done` | `Start`, `Stop`, `run`, `EnsureConfigFile`, `Load`, `Save`, `EncryptToken`, `Install`, `Uninstall` | starts everything above |
| Command policy | `command_validator.go`, `sandbox_config.go`, `sandbox_executor.go` | the sandbox's configuration; the files it looks at are the host's | the two `ValidateCommand`, `PrepareCommand`, `FilterEnvironment` | accept or refuse, in `executeCommand` |
| Output encoding | `encoding.go` | a converting reader | `Read`, `Scan` | output of commands, on Windows |
| Collectors, protocol, scripts | `collector/`, `api/proto/`, `scripts/` | none | | |

What is hard here, and what makes each part correct:

- *Metrics delivery.* Three kinds of goroutine add to one cache, and a flush takes
  the cache away, sends it and puts the failures back, while others report. No
  sample may be lost before the cache is full, none sent again after it was
  acknowledged, and the backlog must drain.
- *Reconnection.* Two atomics and a connection, written by two goroutines in
  separate steps. One worker at a time, no leaked connection, no pile of
  goroutines, and a lost connection must come back.
- *Command execution.* A process, two pipe readers, a timer, a context and `Stop`
  race for the end of each command. Each command must be answered once, with a
  status that is true, and nothing may outlive the agent.
- *Self-upgrade.* Renames that a crash can separate, two callers, and a restart
  that happens in another goroutine while the old process still runs. Never
  downgrade, never loop, never lose the binary, and get there in the end.
- *File transfer.* Retries over one temporary path that several calls may share.
  What reaches the destination must be whole.
- *Life cycle.* One file on disk is all that survives a kill, and it is written in
  place; the server counts registrations whose answer is lost. The agent must never
  run on credentials that are not its last, never spend its key twice, and come up
  again from whatever it left behind.
- *Command policy.* The same request is tested twice over a file system that others
  change, with path arithmetic on texts.
- *Output encoding.* Each read is converted on its own, wherever it cuts the text,
  into a buffer sized for what was read and not for what it becomes.

`PROJECT.json` lists the hazards line by line, with the properties that cover them.

## 2. The modules

| Module | What it is |
|---|---|
| `SampleStore` | abstract: what metric reporting promises |
| `MetricsDelivery` | cache, reporters and flushers; implements `SampleStore` |
| `MetricsDelivery_proofs` | types, the cache bound, single custody, the refinement of `SampleStore` |
| `Reconnect` | monitor, workers, the two atomics, the connection |
| `Reconnect_proofs` | types, mutual exclusion, the connection, the bound on workers |
| `CommandService` | abstract: what the server may rely on for a command |
| `CommandExecution` | stream loop, `executeCommand`, processes and pipes, `Stop`; implements `CommandService` |
| `CommandExecution_proofs` | types, one completion, true results, what is tracked and killed, the refinement of `CommandService` |
| `SelfUpdate` | check, download, replacement, answer, restart, crash, supervisor |
| `SelfUpdate_proofs` | types, only forward, restarts that upgrade, the binary that survives, honest answers; versions are ordered as numbers |
| `Versions` | `isNewerVersion` and what it parses |
| `FileDownload` | `DownloadFile` with retries, files, crashes |
| `FileDownload_proofs` | types, whole destinations, success that delivers |
| `AgentLifecycle` | installation, `Start`, `run`, `Stop`, the configuration file, credentials |
| `AgentLifecycle_proofs` | types, the credentials in use, the key spent once |
| `CommandPolicy` | what `executeCommand` lets through, up to the process it starts |
| `CommandPolicy_proofs` | the lists are enforced exactly, the two tests agree, the environment is narrowed |
| `OutputEncoding` | the converting reader under its scanner |
| `OutputEncoding_proofs` | text that is read whole arrives right, and is only given up if it was not UTF-8 |
| `MC*` | small instances for TLC |

An operator written `...Forgotten`, `...Unchecked` and the like, commented
"MUTANT of X", is no part of a model: it is X as a plausible bug would have it,
and the property named for it in `PROJECT.json` fails when it takes X's place.

### MetricsDelivery

`cache` is `metrics`; each method of the cache holds the mutex and is one step.
A reporter goes `idle` -> (`Collect`) `sending` -> `ReportSucceeds`/`ReportFails`,
then either `CacheSample` (the error path's `Add`) or, after a success,
`StartFlush`/`NothingToFlush` (the `Size()` test). A flusher is one
`flushCachedMetrics`: `GetAll`, an RPC per sample (`FlushSucceeds`, `FlushFails`),
then `Recache`, one `Add` per failed sample. Between any two steps every other
goroutine may run. `up` is whether the server answers in time. One reporter, `Ticker`, is
the main loop at its metrics ticker: it collects only while `connected`, which is what
`IsConnected` returns; `reportAfterConnect` and the goroutine of a new stream do not
ask. `ConnectionChanges` sets and resets `connected` at any time, so that this module says
nothing of whether a connection comes back: that is `Reconnect`'s subject, whose run
`reconnect_promise` shows that it may not. A sample's name is
free again once nobody holds it, so runs go on for ever in a finite state space.
*Assumed:* an RPC
fails only while the server is down (one that fails after the server stored the
sample is a duplicate on the server's side, which is not in the repository).

`SampleStore` says only that a sample is outstanding until a reachable server
acknowledges it, or until it is given up when more are outstanding than the cache
may hold. `StoreSpec` maps `outstanding` to `Held`, what cache, reporters and
flushers hold between them.

### Reconnect

`monitor` is `Start`: `Tick` (only while `connected`), the heartbeat,
`MarkDisconnected`, `Spawn`, each a step. `worker[w]` is a `Reconnect` goroutine:
the `Swap` (`Enter` or `FindsOther`), the `select` between the delay and the stop
(`DelayOver`, `Cancelled`), `CloseOld`, `Connect`, the authenticating heartbeat,
`Store(true)`, and the deferred `Store(false)` as a step of its own. `leaked` counts
connections that were overwritten while open. Delays are abstracted to "may be
over". `Connect` does not block (`grpc.NewClient`), so only loading the TLS files
(`tls`) can fail in it. *Assumed:* main's `maxRetries` of 0, in the runs; the
theorems hold for any.

### CommandExecution

`OpenStream`, `StreamBreaks` (the agent does not know yet) and `ReceiveFails` are
the stream loop; `Receive` starts an `executeCommand` goroutine. `exec[e]` walks
through it: `Reject`, `RunSpecial`, `Track` (the entry in `running`),
`StartProcess` (fork and `cmd.Process` in one step, although `Stop` may read the one between
them) or `StartFails`, reading until both readers are done
(`ReadersDone`, the `wg.Wait()`), then `WaitReturns` or `KillAndWait` (timer or
context), `Report`, `Answer`, and the deferred `Untrack`. A process writes chunks
into pipes of `PipeCapacity` and waits on a full one; a reader stops at end of
file or when it has more than `Limit`, as the 10KB check does. End of file comes
only when no process holds the pipe, which a background child may go on doing.
`Stop` kills the tracked processes that were started and clears the map. *Assumed:*
execution ids are unique (agent.proto:186).

`CommandService` knows a job per command (declined, carried out by the agent, launched
once and then ended or killed) and what the server was told: one truthful answer or a
lost one, and only when the job is over. `ServiceSpec` maps `job` to the state of the
command's process if it has one and to its goroutine's place else (`Job`), and `answer` to
the completions sent (`Told`, which has a value, "twice", that the service does not).

### SelfUpdate

`files` maps path 0 (the executable) and each further `.old` to the version there.
A caller goes `Begin` (the flag), `Newer`, the download, `Locate`
(`os.Executable`), `Backup` and `Install` (the two renames), `Rollback`, `Cleanup`,
`Leave` (the deferred reset). `answer` is what `CheckAndUpgrade` returned; a caller in
`Server` executes `__check_update__` and goes on to `Report` it, the others are started
by cron, if `Enabled`. `Busy` is the return of a call that finds the flag set, with the
answer of an agent that is up to date. `Exec` is `RestartSelf` in its goroutine. `Crash` stops
the agent between any two steps (so does a service stop: main does not wait for a
running upgrade) and `Supervise` starts what is at path 0. `image` is where the
running binary is now: on Linux `os.Executable` reads `/proc/self/exe`, which
follows the renames (`FollowsRename`). *Assumed:* `os.Args[0]` is the absolute path
the service manager starts; one variable `healthy` stands for network, disk and
host; temporary downloads left by a kill are not kept; the release is fetched and
compared in one step (`Newer`, `NotNewer`). A version is a number here;
`Versions` says why it may be.

### Versions

`current` and `offered` are versions as they are written: leading `v`s and fields, each
a number or a text, possibly with more after the number. `ParseVersionParts` is what
`fmt.Sscanf("%d.%d.%d")` leaves in three integers, `NewerParts` the loop of
`isNewerVersion`. An agent takes one offer after the other (`Offer`, `Upgrade`). Both
versions have lost a "v" before they are parsed (`NewUpdater`, `checkLatestVersion`), and
lose another one then. `Rank` says what they ought to be worth: a version of numbers
(`Plain`) by its written fields, whatever the parser does; of one with text or too many
"v"s nothing is promised but a place in the order, so its rank is that of its parts.

### FileDownload

A call goes `Start`, `Create` (truncating `<dest>.tmp`), `ReceiveChunk`,
`ReceiveEOF`, the checksum (`Verified`, `Mismatch`), `Rename`, with failures at each
and `Retry` after those that are retryable (which ones is left open). An open file is
told apart from its path (`fd`): it follows a rename and survives a removal by
another call. `silent` is a server that neither sends nor fails; no RPC has a
deadline. `shared` remembers paths two calls used at once; the promises are for the
others. *Assumed:* the server ends a non-empty file with a chunk that carries the
checksum (agent.proto:158-159).

### AgentLifecycle

`run` is where the goroutine of `agentProgram.run` is: `ensuring` (`EnsureFile`),
`loading` (`LoadFile`: defaults, file, `DecryptToken`, `validate`), `loaded`,
`connecting`, `registering`, `saving` and `writing` (`SaveTruncates`, `SaveWrites`: what
`os.WriteFile` does to a file in place), `reporting`, `running`; `ended` once `done` is
closed, `down` without a process. A `logger.Fatal` is `Exit`. `file` is the
configuration on disk, `cfg` the one in memory: of each the model keeps whether
`registration.key` is filled in, and the token, which is its number and its `seal`:
the host name it was encrypted under, or `Plain`. `issued` counts the registrations the
server has accepted, lost answers included. `Stop` is `StopCalled` (it reads `p.cancel`,
`published` here, and calls it unless it is nil) and `StopReturns` (`done`); one that
finds `cancel` nil waits on, until `KilledStopping`. `Disturbances` bounds the kills,
torn and failed writes, lost answers, renames of the host, edits and removals of the
file, stops and uninstalls
of one behaviour, in any mixture. *Assumed:* a file that is emptied and not written is
read as an empty configuration.

### CommandPolicy

`step` follows one request through `executeCommand`: `Refuse`, `HandleSpecial` or `Pass`
(both validators), then `PrepareCommand` or `PrepareFails`; `FilesChange` installs or
removes a program at any time. A path is the sequence of its names; `Clean`, `Abs`,
`Rel` are what `filepath` does with them, `Under` the code's test of the text `Rel`
returns, `TextPrefix` its test of an executable's text, which is the path as it is written
if it is absolute, and else the first place at which `FindExecutable` finds the file. A
command's text is a class: empty, blank, one the validator refuses, special, or plain. The
process is prepared as `sh -c` with that text; what the shell then finds is not followed.
The properties do not use these tests: `ExecutableWithin` and
`DirectoryWithin` say where the cleaned path lies. `AdmittedExactly` compares the two
and names the requests in which they may differ: executables written with dots, names
that begin as a listed directory ends (`Lookalike`), directories with names that begin with
two dots. The first two are a difference between the code and its comments:
`/binutils/tool` begins with `/bin` and passes, as does `/usr/bin/../lib/tool`, though
`sandbox_config.go:191` says "Check if executable is in allowed directories" and `ValidatePath`
does clean what it compares; without the exceptions the run reports both. `env` tells `cmd.Env` unset
(the agent's own environment) from a list, an empty one included.

### OutputEncoding

`text` is what a command writes, in UTF-8 or GBK; `Read` takes any part of what is left,
as a pipe may give it, with any room the scanner may have, and converts it. A byte is
known by its place in a character, so that the model can tell a character that was cut,
and GBK that happens to be UTF-8. A conversion that outgrows the room ends the reading
(`bufio.ErrBadReadCount`), with the rest of the output lost. `kept` is what the scanner
got. On Unix the reader is not used.

## 3. The runs

| Run | Instance | States | Shows |
|---|---|---|---|
| `metrics_delivery` | 2 reporters, 2 flushers, 4 samples, cache of 2 | 143,328 | `CacheBounded`, `SingleCustody`; `StoreSpec` (the refinement); `CacheDrains` |
| `reconnect` | 3 workers, unlimited retries | 980 | `OneWorkerInSection`, `ConnectedMeansOpen`, `NoLeakedConnection`, `AtMostTwoWorkers`; `WorkerSucceeds`, `StopsCleanly` |
| `reconnect_promise` | the same | violation | `ConnectionComesBack`: a heartbeat that fails before the worker's deferred reset leaves nobody reconnecting |
| `command_paths` | 1 command of each of 7 kinds, 2 streams | 8,192 | `CompletedMeansExited`; `ServiceSpec` (the refinement); `TameCommandsAnswered` |
| `command_pairs` | 2 commands of 3 kinds, 2 streams, symmetric | 290,432 | `OneCompletion`, `TrackedWhileRunning`, `StopKillsStarted` |
| `command_timeout` | as `command_paths` | violation | `TimeoutEnforced`: the timer is made after `wg.Wait()` |
| `command_stop` | as `command_paths` | violation | `NoneRunsAfterExit`: a command tracked and not yet started when `Stop` runs |
| `self_update` | cron and 1 server command, 3 versions, 2 levels of `.old`, Linux | 31,032 | `BinarySurvives`; `OnlyForward`, `RestartIsUpgrade`, `CurrentUnlessBusy`, `EventuallyCurrent` |
| `self_update_crash` | the same | violation | `StartsAgain`: a crash between the two renames |
| `file_download` | 2 calls, 1 path, files of 2 and 0 chunks, 2 attempts | 67,744 | `DestinationWhole`, `SuccessDelivers`; `CallEnds` |
| `agent_lifecycle` | 2 host names, 3 disturbances | 10,664 | `LatestCredentials`; `CredentialsReused`, `EventuallyServes`, `StopsOncePublished` |
| `algorithms` | 292 requests, 3 configurations, 2 programs; texts of up to 3 characters, 6 bytes of room; 80 written versions | 28,430 | `AdmittedExactly`, `LateRefusalMeansChange`, `NeverInherits`; `TextRight`, `OnlyConversionFails`; `NewerIsGreater` |

Each component's passing run (`command_paths` and `file_download` for theirs) also
checks its `TypeOK`. The four violations are the findings of `PROJECT.json`, each
with the line of the code or comment that says otherwise.

**Bounds, and why they are enough.**
*Metrics:* with four samples and a cache of two, a flush of a full cache runs while the
cache fills up again, so trimming meets re-caching; two reporters and two
flushers are the smallest instance in which two flushes overlap. The invariants are
proved for every number of each.
*Reconnect:* three workers, of which `AtMostTwoWorkers` shows that two at most live at
once; an attempt counter of two suffices because `MaxRetries` 0 never compares it.
*Commands:* `Limit` 0 and `PipeCapacity` 1 make a reader stop after one chunk, so
that two chunks exceed the limit and three block the process; the seven kinds
cover every branch of `executeCommand`, and two streams let a completion meet a
stream that is over. Goroutines of different commands share only the map, the
stream and the phase, which two commands exercise.
*Updates:* two callers and three versions let a release be published or withdrawn
between any steps of two calls; a second `.old` is needed only while a second
check runs before the restart.
*Downloads:* two chunks distinguish a part from the whole, two attempts a retry
from the last, two calls share a path or follow each other.
*Life cycle:* three disturbances are enough for a lost answer, then a torn save, then a
kill, or for a rename between two of them; steps that the design itself asks for (the
first edit, the restart after it) are not counted. The theorems hold for any number.
*Algorithms:* the requests combine every way of writing a directory and an executable
that the code tells apart with every outcome, among them executables whose text begins
with a listed directory although they lie elsewhere (`/usr/bin/../lib/tool`,
`/binutils/tool`), and others the reverse (`/opt/../usr/bin/ls`); three characters put a cut, a conversion
and what follows side by side; versions have up to three fields of two values, text
and suffixes in each place, under up to three "v"s.

`CHECK_DEADLOCK FALSE` stands in the command runs, because after `ExitAgent`, with every
process gone, the system has stopped; and in `algorithms`, because a text that was read
to its end stays read.

**Fairness.** Weak fairness of each goroutine's own steps: the Go scheduler runs
what can run, and an RPC ends because it has a timeout (`MetricsDelivery`,
`Reconnect`, the HTTP client of the updater). The exceptions are kept: a download has no
deadline and does not move while `silent`. `Reconnect` needs strong fairness for
`MonitorStops` and `Cancelled`, since Go's `select` picks among ready cases at random
and so does not pass over the stop case for ever. The server, the network,
cancellation, `Stop`, crashes and background processes are never fair; liveness is
stated for when they stay quiet (`<>[]up` and the like). In `MetricsDelivery` only the main
loop's ticker keeps collecting, and only while `connected`, which nothing makes true:
`CacheDrains` is for an agent that stays connected. In `SelfUpdate` cron comes again
and again, a server command need not. In `AgentLifecycle` the service manager starts an
installed service that is down, and the operator does what the agent prints: fills in
the key and restarts an agent whose `run` has ended. Without that an agent with a blank
configuration stays up and idle, as the code means it to.

## 4. The proofs

`Reconnect_proofs`, for any set of workers and any retry limit (from
`MaxRetriesAssumption`, `HasCredentialsAssumption`, `AttemptCapAssumption`):
`TypeCorrect`, `MutualExclusion`, `ConnectedIsOpen`, `NoLeak`, `FewWorkers`. None of the
invariants is inductive alone. `IInv` adds the reason they hold: the monitor beats
only while connected, so a worker that tries (`spawned` or in the loop) means
disconnected (`TrierMeansDown`) and is the only one (`OneTrier`); the monitor is never
about to start one beside it (`MonitorInv`); and each place of the loop fixes whether
the connection is open (`ConnInv`). `FewWorkers` follows: a worker that is not
trying is leaving, which happens in the section.

`MetricsDelivery_proofs`, for any number of goroutines, samples and any cache size
(from `CacheSizeAssumption`, `NoSampleAssumption`, `TickerAssumption`): `TypeCorrect`, `CacheStaysBounded`
with the invariant `Bounded`, and `CustodyIsSingle` with `CInv`. The lemmas
`AppendFacts`, `TailFacts` and `AddFacts` say what the operations do to the range, the
length and the injectivity of a sequence; `ShrinkCustody` and `MoveToCache` reduce each
action to which places gain a sample and which lose it. `ImplementsStore` shows each step
to be one of `SampleStore`'s or to leave `Held` alone. Its invariant `SInv` needs single
custody, since a sample that was in two places would still be held after its
acknowledgement, and that `Held` is finite, since the store gives a sample up only by a
count. `AddKeeps` and `FullCache` are the interesting case: a sample put into a full cache
pushes the oldest out, and that one, the cache's others and the new one are together more
than the cache may hold (an injection of the longer sequence into `Held`).

`CommandExecution_proofs`, for any executions and programs, any reading limit, pipe
capacity and number of streams (from `ProgramAssumption`, `BoundsAssumption`):
`TypeCorrect`, `AnsweredOnce`, `RunningIsTracked`, `StatusesAreTrue`, `StopKills`,
`ImplementsService`. The executions do not touch one another, so the invariant is one predicate
per execution, `EInv`: where the goroutine is fixes how many completions were sent, that
a process runs only between its start and its wait, that it is tracked from before the
start to after the report, and that its status is none until the wait is over. The lemma
`Untouched` says what any other step leaves true of it. `TypeCorrect` needs that a reader
that goes on has kept no more than the limit, and that a received command is known.
For the refinement, `JobKnown` adds at which places there is a process and that only a
command for a shell gets one. `JobGoesOn`, `SomeAreKilled` and `ServerIsTold` reduce a step
of the service to what `Job` and `Told` become; `AsideLooksTheSame` says that a command
whose goroutine does not move looks to the server as before, unless its process has
ended; and `ReceiveServes`, `ExecStepServes` and `OtherStepsServe` go through the actions.
The run takes one command, the theorem any number, which matters for `Stop`: it kills
several at once, in one step of the service.

`SelfUpdate_proofs`, for any callers and versions, any depth of `.old` names and both
values of `FollowsRename`, of which the runs take one (from `VersionAssumption`,
`DepthAssumption`): `TypeCorrect`, `BinaryAlwaysSurvives`, `NeverBackward`,
`RestartsUpgrade`, `CurrentIsTrue`. The flag keeps the calls apart (`OneInside`) and is
never a leftover (`FlagMeansInside`), so the files belong to one call at a time, and
`CallInv` says what it has done with them: where the image is, that the backup is there
to roll back to, and that it is newer than the process if a restart is pending already.
`RestartHasReason` is the part that is easy to miss: as soon as a restart is pending, or
the running image has been moved from its first path, what is at that path is newer than
the process, or nothing is.

`FileDownload_proofs`, for any calls, files of any length, paths and number of attempts
(from `FileAssumption`, `ChunksAssumption`, `MaxRetriesAssumption`): `TypeCorrect`,
`DestinationsAreWhole`, `SuccessIsOwnFile`. A call that is alone at its path (`Alone`)
keeps its descriptor on the temporary file, and that file is the beginning it has
received as long as its checksum is right (`Holds`). `OthersKeep` says why the other
calls lose nothing: at other paths their file is not touched, and at this path nothing
is claimed of them.

`AgentLifecycle_proofs`, for any host names and any number of disturbances (from
`PlainAssumption`, `AbsentAssumption`, `DisturbancesAssumption`): `TypeCorrect`,
`CredentialsAreLatest`, `CredentialsAreReused`. The invariant they share is that the
file holds no token or the one issued last, and so does the memory of a process that has
loaded it; whoever is about to register has found none, in memory and in the file,
and no other process writes one meanwhile.

`CommandPolicy_proofs`, for any requests, configurations and programs: `TestsAgree`, with
an invariant that ties `seen` to what `ValidateCommand` accepted; `EnvironmentNarrowed`,
from what `FilterEnvironment` returns; and `ListsAreExact`, that both tests admit what
lies where the lists say and turn down what does not, for paths of any length, with the
exceptions `AdmittedExactly` names: they are in the property, since they are what the code
does, and not in the hypotheses. The theorem says that texts mislead in no other case. It
is about the place a path leads to, not about the code's comparison; for absolute
executables without dots and lookalikes the two agree, and for a name that is searched
for the place found is clean already (`FoundIsWithin`). What it assumes is that the lists
are written for the code (`WellWritten`): some directory is allowed, since an empty list
means no restriction; no denied directory lies in an allowed one or holds it, since `Under`
looks at the first characters of what `Rel` returns and so does not recognise names
that begin with two dots below a denied one; a directory of executables is clean, is not
the root, and no name in it begins as another one ends. Nothing is assumed of a request but
that its paths are sequences of names (`Named`). `DefaultIsWellWritten` shows that the code's
own default configuration satisfies the hypothesis, if "usr", "local", "bin" and "sbin" do
not begin with "bin" or "sbin" other than by being them. The lemmas say what
`Clean` returns (`CleanIs`, `CleanType`, `CleanUndotted`), that the longest common beginning
is one (`LongestIsLongest`), what `Rel` returns (`RelIs`), and when `Under` and `TextPrefix`
mean "lies within" (`UnderIsWithin`, `WithinIsUnder`, `TextPrefixIsWithin`).

`OutputEncoding_proofs`, for texts of any length, read in pieces of any size into rooms of
any size (from `OutputAssumption`): `TextArrivesRight`, `OnlyConversionGivesUp`. The
invariant `OutputInv` says that what is kept is valid UTF-8, and, as long as no character
was cut, that it is what the characters read so far become (`WholeSoFar`). It rests on
two facts about the data: validity is kept by concatenation (`ValidConcat`), and decoding
GBK distributes over it when no character is cut (`DecodeWhole`); a byte that only GBK has
makes a text invalid UTF-8 (`ValidHasNoGbk`), so that UTF-8 is never decoded by mistake and
never outgrows its room.

Two modules prove facts about recursive functions (`Clean`, `FlattenSeq`, `DecodeGbk`) without
an induction theorem, whose parameter the provers cannot instantiate: `Induction` is
about sets, and follows from the least element that every set of numbers
has (`WFMin`). That the function such a definition chooses exists at all is shown the
same way, for a domain that grows by one (`CleaningExists`, `FlatteningExists`,
`DecodingExists`).

The order of versions is in `SelfUpdate_proofs`: `VersionsAreOrdered`, for all versions whose
parts are below `Base` (an assumption of the theorem): what is parsed of a plain version are its
fields (`PlainIsRead`), and comparing three parts from the
left is comparing the numbers they are the digits of. It is what lets `SelfUpdate` use
numbers.

Every invariant and action property of the passing runs, and both refinements, are
theorems. Only model-checked: the liveness properties (liveness under fairness is beyond
the prover), and the four properties that the code does not have.

## 5. Not modelled

- Collectors, scripts, generated code: they read or administer the operating system; a
  sample is a model value. So are unit files and platform options of the installer.
- `UploadFile`, the cache's `Clear` and `GetOldest`, `IsEncrypted`, `MigrateToken`,
  `IsSafeCommand`, `GetConfig` and `UpdateConfig` of the sandbox: no caller in the agent.
- Risk levels (`ShouldWarn`, `GetRiskLevel`) and the sandbox's look at path-like arguments:
  the one is only logged, the other ignored. `applyResourceLimits` makes a process group and limits nothing.
- Symbolic links in the sandbox: the code compares the texts of paths, and so does the
  model; an executable given by its absolute path is not looked up at all.
- The back-off of `calculateDelay` and `calculateRetryDelay`: a delay "may be over".
- The Windows restart, and macOS's `os.Executable` (`FollowsRename = FALSE`), under which
  a second check before the restart can empty the executable's path: listed as a
  hazard, without a run. The proofs of `SelfUpdate` hold for it all the same: what is
  lost is the path, not the binary.
- A `Stop` before `run` has set `cancel` waits until the service manager kills the process:
  in the model (`KilledStopping`), and no property, since nothing is promised.
- Data races: `Connect` writes `client.conn` while others read it. `Reconnect` gives
  the swap one step; the race's other outcomes are not modelled. Nor is what gRPC does
  when two goroutines send on one stream.

## 6. Plan

Done, in this order: `MetricsDelivery` with `SampleStore`, `Reconnect`,
`CommandExecution`, `SelfUpdate`, `FileDownload`, `AgentLifecycle`, `CommandPolicy`,
`OutputEncoding`, `Versions`, `CommandService`, with proofs for each.

What could follow:
1. `Connectivity`: `Reconnect` composed with `MetricsDelivery`, so that `connected` of the
   one is that of the other and a stuck reconnection stops the reports in one run.
2. The Windows restart, with a service manager that starts the new process.
