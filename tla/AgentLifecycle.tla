--------------------------- MODULE AgentLifecycle ---------------------------
(***************************************************************************)
(* The agent as a service: Start, Stop and run of cmd/agent/main.go, the   *)
(* configuration file it loads, fills in and saves (internal/agent/config),*)
(* its first connection and registration, and its installation             *)
(* (pkg/installer).  The process may be killed between any two steps; the  *)
(* file on disk is what a later start finds.  What happens once "running"  *)
(* is the subject of the modules MetricsDelivery, Reconnect,               *)
(* CommandExecution and SelfUpdate.                                        *)
(*                                                                         *)
(* Of the configuration the model keeps whether registration.key is filled *)
(* in, and the token (agent_id is read and written together with it).      *)
(*                                                                         *)
(* Bound: Disturbances, the kills, failing file operations, lost answers,  *)
(* renames, and voluntary stops, edits, removals and uninstalls.      *)
(***************************************************************************)
EXTENDS Naturals

CONSTANTS
  Hosts,        \* host names the machine may have
  Plain,        \* the seal of a token that is not encrypted
  Absent,       \* no configuration file
  Disturbances

ASSUME PlainAssumption == Plain \notin Hosts
ASSUME AbsentAssumption ==
  Absent \notin [key : BOOLEAN, token : [n : Nat, seal : Hosts \cup {Plain}]]
ASSUME DisturbancesAssumption == Disturbances \in Nat

VARIABLES
  installed,  \* the system knows the service and starts it
  file,       \* the configuration file
  host,       \* os.Hostname()
  renamed,    \* the host name has changed (history)
  run,        \* where run is; "down" without a process
  published,  \* p.cancel is set
  cancelled,  \* the context is cancelled
  stopping,   \* Stop waits for done
  cfg,        \* the configuration in memory
  issued,     \* registrations the server has accepted; the last is current
  up,         \* the server answers and accepts
  tls,        \* the TLS files can be loaded
  disturbed

vars == <<installed, file, host, renamed, run, published, cancelled, stopping,
          cfg, issued, up, tls, disturbed>>
machine == <<installed, host, renamed>>
signals == <<published, cancelled, stopping>>
network == <<up, tls>>

(***************************************************************************)
(* Tokens: number n of the server, sealed under a host name or plain.      *)
(***************************************************************************)
Token == [n : Nat, seal : Hosts \cup {Plain}]
NoToken == [n |-> 0, seal |-> Plain]

\* MUTANT of EncryptToken: what is encrypted already is encrypted again.
EncryptTwice(token, h) == [token EXCEPT !.seal = <<h, h>>]

\* EncryptToken: the key is derived from the host name.
EncryptToken(token, h) == [token EXCEPT !.seal = h]

\* MUTANT of DecryptToken: the token is used as it was read.
DecryptNothing(token, h) == token

\* DecryptToken: what does not open under this host name is returned unchanged.
DecryptToken(token, h) ==
  IF token.seal = h THEN [token EXCEPT !.seal = Plain] ELSE token

(***************************************************************************)
(* Configurations.  The default content and an empty file say the same: no *)
(* key and no token.                                                       *)
(***************************************************************************)
Config == [key : BOOLEAN, token : Token]
Blank == [key |-> FALSE, token |-> NoToken]

\* validate
Valid(c) == c.key \/ c.token.n # 0

\* EnsureConfigFile when it can write.
EnsureConfigFile == file' = IF file = Absent THEN Blank ELSE file

\* One more of the bounded disturbances.
Disturb ==
  /\ disturbed < Disturbances
  /\ disturbed' = disturbed + 1

Working == {"ensuring", "loading", "loaded", "connecting", "registering",
            "saving", "writing", "reporting", "running"}

\* The process is gone, with everything it held in memory.
Exit ==
  /\ run' = "down"
  /\ published' = FALSE
  /\ cancelled' = FALSE
  /\ stopping' = FALSE
  /\ cfg' = Blank

(***************************************************************************)
(* The service: installed, started, stopped, killed.                       *)
(***************************************************************************)
\* -install: the file is created first, the rest only if the answer is y.
Install ==
  /\ ~installed
  /\ EnsureConfigFile
  /\ \E confirmed \in BOOLEAN : installed' = confirmed
  /\ UNCHANGED <<host, renamed, run, signals, cfg, issued, network, disturbed>>

\* -uninstall: svc.Stop (StopCalled, when it works) may fail, which is ignored;
\* then the process that still runs is all that is left of the service.
Uninstall ==
  /\ installed
  /\ Disturb
  /\ installed' = FALSE
  /\ UNCHANGED <<file, host, renamed, run, signals, cfg, issued, network>>

\* Start: done is made and run begins.
Start ==
  /\ installed
  /\ run = "down"
  /\ run' = "ensuring"
  /\ UNCHANGED <<machine, file, signals, cfg, issued, network, disturbed>>

\* Stop reads p.cancel, calls it unless it is nil, and waits for done.  Stopping
\* a service whose run has ended is the restart the printed message asks for.
StopCalled ==
  /\ run # "down"
  /\ ~stopping
  /\ IF run = "ended" THEN UNCHANGED disturbed ELSE Disturb
  /\ cancelled' = published
  /\ stopping' = TRUE
  /\ UNCHANGED <<machine, file, run, published, cfg, issued, network>>

\* done is closed: Stop returns, svc.Run returns, the process exits.
StopReturns ==
  /\ stopping
  /\ run = "ended"
  /\ Exit
  /\ UNCHANGED <<machine, file, issued, network, disturbed>>

\* The service manager kills a process that takes too long to stop.
KilledStopping ==
  /\ stopping
  /\ Exit
  /\ UNCHANGED <<machine, file, issued, network, disturbed>>

Killed ==
  /\ run # "down"
  /\ Disturb
  /\ Exit
  /\ UNCHANGED <<machine, file, issued, network>>

(***************************************************************************)
(* run, up to its loop.                                                    *)
(***************************************************************************)
\* A file that has just been created, or cannot be, ends run; an existing one
\* is loaded.
EnsureFile ==
  /\ run = "ensuring"
  /\ EnsureConfigFile
  /\ run' = IF file = Absent THEN "ended" ELSE "loading"
  /\ UNCHANGED <<machine, signals, cfg, issued, network, disturbed>>

EnsureFails ==
  /\ run = "ensuring"
  /\ file = Absent
  /\ Disturb
  /\ run' = "ended"
  /\ UNCHANGED <<machine, file, signals, cfg, issued, network>>

\* Load: the file over the defaults, the token decrypted, then validated.
LoadFile ==
  /\ run = "loading"
  /\ LET loaded == IF file = Absent THEN Blank
                   ELSE [file EXCEPT !.token = DecryptToken(@, host)]
     IN IF Valid(loaded)
        THEN cfg' = loaded /\ run' = "loaded"
        ELSE cfg' = cfg /\ run' = "ended"
  /\ UNCHANGED <<machine, file, signals, issued, network, disturbed>>

\* The file cannot be read or parsed.
LoadFails ==
  /\ run = "loading"
  /\ file # Absent
  /\ Disturb
  /\ run' = "ended"
  /\ UNCHANGED <<machine, file, signals, cfg, issued, network>>

\* p.cancel = cancel; NewGRPCClient and initLogger cannot fail.
PublishCancel ==
  /\ run = "loaded"
  /\ published' = TRUE
  /\ run' = "connecting"
  /\ UNCHANGED <<machine, file, cancelled, stopping, cfg, issued, network, disturbed>>

\* MUTANT of Connect: an agent registers whenever it starts.
ConnectAndRegister ==
  /\ run = "connecting"
  /\ tls
  /\ run' = "registering"
  /\ UNCHANGED <<machine, file, signals, cfg, issued, network, disturbed>>

\* Connect: the dial does not block, loadTLSConfig may fail.  Without an agent_id
\* and a token the agent registers next.
Connect ==
  /\ run = "connecting"
  /\ tls
  /\ run' = IF cfg.token.n = 0 THEN "registering" ELSE "reporting"
  /\ UNCHANGED <<machine, file, signals, cfg, issued, network, disturbed>>

\* logger.Fatal: exit status 1, and the service manager starts the agent again.
ConnectFatal ==
  /\ run = "connecting"
  /\ ~tls
  /\ Exit
  /\ UNCHANGED <<machine, file, issued, network, disturbed>>

\* MUTANT of Register: only the client keeps what the server answered.
RegisterForgotten ==
  /\ run = "registering"
  /\ up
  /\ issued' = issued + 1
  /\ run' = "saving"
  /\ UNCHANGED <<machine, file, signals, cfg, network, disturbed>>

\* Register is answered with a new agent_id and token.
Register ==
  /\ run = "registering"
  /\ up
  /\ issued' = issued + 1
  /\ cfg' = [cfg EXCEPT !.token = [n |-> issued + 1, seal |-> Plain]]
  /\ run' = "saving"
  /\ UNCHANGED <<machine, file, signals, network, disturbed>>

\* It is refused, or the server cannot be reached...
RegisterFatal ==
  /\ run = "registering"
  /\ ~up
  /\ Exit
  /\ UNCHANGED <<machine, file, issued, network, disturbed>>

\* ... or its answer is lost or late: the server has counted it all the same.
RegisterLost ==
  /\ run = "registering"
  /\ up
  /\ Disturb
  /\ issued' = issued + 1
  /\ Exit
  /\ UNCHANGED <<machine, file, network>>

\* Save: os.WriteFile empties the file...
SaveTruncates ==
  /\ run = "saving"
  /\ file' = Blank
  /\ run' = "writing"
  /\ UNCHANGED <<machine, signals, cfg, issued, network, disturbed>>

\* ... and then writes the configuration of this process, the token encrypted.
SaveWrites ==
  /\ run = "writing"
  /\ file' = [cfg EXCEPT !.token = EncryptToken(@, host)]
  /\ run' = "reporting"
  /\ UNCHANGED <<machine, signals, cfg, issued, network, disturbed>>

\* An error of Save, before or after the file is emptied, is only logged.
SaveFails ==
  /\ run \in {"saving", "writing"}
  /\ Disturb
  /\ run' = "reporting"
  /\ UNCHANGED <<machine, file, signals, cfg, issued, network>>

\* ReportStaticInfo, whose error is only logged; then the reconnect manager, the
\* command listener and the upgrade scheduler are started and the loop entered.
EnterLoop ==
  /\ run = "reporting"
  /\ run' = "running"
  /\ UNCHANGED <<machine, file, signals, cfg, issued, network, disturbed>>

\* MUTANT of Shutdown: the server is told before the agent stops.
ShutdownReported ==
  /\ run = "running"
  /\ cancelled
  /\ up
  /\ run' = "ended"
  /\ UNCHANGED <<machine, file, signals, cfg, issued, network, disturbed>>

\* ctx.Done: the scheduler, the listener and the manager are told to stop, none
\* is waited for; the deferred calls close the connection and done.
Shutdown ==
  /\ run = "running"
  /\ cancelled
  /\ run' = "ended"
  /\ UNCHANGED <<machine, file, signals, cfg, issued, network, disturbed>>

(***************************************************************************)
(* The operator, the machine and the network.                              *)
(***************************************************************************)
NeedsKey == file # Absent /\ ~Valid(file)

\* The operator fills in the key of a file without one, or writes it anew.
OperatorEdits ==
  /\ file # Absent
  /\ IF NeedsKey THEN UNCHANGED disturbed ELSE Disturb
  /\ file' = [key |-> TRUE, token |-> NoToken]
  /\ UNCHANGED <<machine, run, signals, cfg, issued, network>>

\* To have the agent write the default configuration again.
OperatorRemoves ==
  /\ file # Absent
  /\ Disturb
  /\ file' = Absent
  /\ UNCHANGED <<machine, run, signals, cfg, issued, network>>

Rename ==
  /\ Disturb
  /\ \E h \in Hosts \ {host} : host' = h
  /\ renamed' = TRUE
  /\ UNCHANGED <<installed, file, run, signals, cfg, issued, network>>

NetworkChanges ==
  /\ \/ up' = ~up /\ tls' = tls
     \/ tls' = ~tls /\ up' = up
  /\ UNCHANGED <<machine, file, run, signals, cfg, issued, disturbed>>

Init ==
  /\ installed = FALSE
  /\ file = Absent
  /\ host \in Hosts
  /\ renamed = FALSE
  /\ run = "down"
  /\ published = FALSE
  /\ cancelled = FALSE
  /\ stopping = FALSE
  /\ cfg = Blank
  /\ issued = 0
  /\ up \in BOOLEAN
  /\ tls \in BOOLEAN
  /\ disturbed = 0

RunStep ==
  \/ EnsureFile
  \/ LoadFile
  \/ PublishCancel
  \/ Connect
  \/ ConnectFatal
  \/ Register
  \/ RegisterFatal
  \/ SaveTruncates
  \/ SaveWrites
  \/ EnterLoop
  \/ Shutdown

RunFails ==
  \/ EnsureFails
  \/ LoadFails
  \/ RegisterLost
  \/ SaveFails

ServiceStep ==
  \/ Install
  \/ Uninstall
  \/ Start
  \/ StopCalled
  \/ StopReturns
  \/ KilledStopping
  \/ Killed

Environment ==
  \/ OperatorEdits
  \/ OperatorRemoves
  \/ Rename
  \/ NetworkChanges

Next ==
  \/ RunStep
  \/ RunFails
  \/ ServiceStep
  \/ Environment

Spec == Init /\ [][Next]_vars

(***************************************************************************)
(* The goroutine of run goes on; an installed service that is down is      *)
(* started again, by its manager after a failure, by the operator after a  *)
(* stop; and the operator does what the agent prints when run ends: fill in*)
(* the key and restart.                                                    *)
(***************************************************************************)
Fairness ==
  /\ WF_vars(RunStep)
  /\ WF_vars(StopReturns)
  /\ WF_vars(Start)
  /\ WF_vars(run = "ended" /\ StopCalled)
  /\ WF_vars(NeedsKey /\ OperatorEdits)

FairSpec == Spec /\ Fairness

(***************************************************************************)
(* Properties.                                                             *)
(***************************************************************************)
\* Every variable has its type.
TypeOK ==
  /\ installed \in BOOLEAN
  /\ file \in Config \cup {Absent}
  /\ host \in Hosts
  /\ renamed \in BOOLEAN
  /\ run \in Working \cup {"down", "ended"}
  /\ published \in BOOLEAN
  /\ cancelled \in BOOLEAN
  /\ stopping \in BOOLEAN
  /\ cfg \in Config
  /\ issued \in Nat
  /\ up \in BOOLEAN
  /\ tls \in BOOLEAN
  /\ disturbed \in 0..Disturbances

\* The loop is only entered with the credentials the server issued last, however
\* often registrations were lost, saves torn and the process killed
\* (main.go:113-132); and they are in the clear unless the host was renamed.
LatestCredentials ==
  run \in {"reporting", "running"} =>
    /\ issued > 0
    /\ cfg.token.n = issued
    /\ ~renamed => cfg.token.seal = Plain

\* An agent whose file holds credentials never registers again: the key is not
\* spent twice, by whatever path the file came to hold them (main.go:113).
CredentialsReused ==
  [][issued' # issued => file = Absent \/ file.token.n = 0]_vars

\* Once the server stays reachable, an installed agent ends up running for good,
\* whatever was killed, torn or lost before; and on a token it could open, unless
\* the host was renamed under it (encryption.go:83, config.go:198).
Serving == run = "running" /\ cfg.token.seal = Plain
EventuallyServes ==
  <>[](up /\ tls /\ installed) => <>[](Serving \/ (run = "running" /\ renamed))

\* A Stop that found p.cancel set ends the process, whatever run was doing.
StopsOncePublished == (stopping /\ cancelled) ~> run = "down"
=============================================================================
