----------------------------- MODULE SelfUpdate -----------------------------
(***************************************************************************)
(* The agent's self-upgrade: Updater.CheckAndUpgrade with downloadBinary   *)
(* and replaceBinary (internal/agent/updater/updater.go), called by the    *)
(* cron job and by the server's __check_update__ command (scheduler.go;    *)
(* handleCheckUpdate in command_listener.go, which answers the server),    *)
(* and RestartSelf (restart_unix.go).  The file system is that of a Unix   *)
(* host; a crash may happen between any two of its operations, and a       *)
(* supervisor starts the agent again when its executable exists.           *)
(*                                                                         *)
(* Binaries are told apart by their version.  Path 0 is the executable,    *)
(* path i + 1 is path i with ".old" appended.  The downloaded file is part *)
(* of its call: no other code opens it, and one that a crash leaves behind *)
(* is not kept.  A caller's answer is the last one CheckAndUpgrade gave    *)
(* it: cron logs it, a command's completion tells the server.  Bounds:     *)
(* Caller (calls at once), Version (versions ever published), Depth (how   *)
(* often ".old" may be appended).                                          *)
(***************************************************************************)
EXTENDS Integers

CONSTANTS
  Caller,        \* goroutines that may call CheckAndUpgrade
  Server,        \* those of them that execute a __check_update__ command
  Enabled,       \* cfg.Upgrade.Enabled: the others are started by cron
  Version,       \* version numbers in the order of isNewerVersion
  NoFile,        \* what a path without a file holds
  Depth,         \* bound on the paths
  FollowsRename  \* os.Executable tells where the running image is now (Linux);
                 \* otherwise where it was when it was started (macOS)

ASSUME CallerAssumption == Server \subseteq Caller /\ Enabled \in BOOLEAN
ASSUME VersionAssumption == Version \subseteq Nat /\ NoFile \notin Version
ASSUME DepthAssumption == Depth \in Nat \ {0}
ASSUME FollowsRenameAssumption == FollowsRename \in BOOLEAN

VARIABLES
  files,     \* per path: the version of the binary there, or NoFile
  alive,     \* the agent process runs
  version,   \* currentVersion of the running (or last) process
  image,     \* the path os.Executable returns; Gone once that file was deleted
  updating,  \* u.updating
  caller,    \* per caller: where it is, the version found, the path it replaces,
             \* and what its last call answered
  restarts,  \* `go u.onRestart()` was called
  latest,    \* the version the release API names
  healthy    \* network, disk and host do what they are asked

vars == <<files, alive, version, image, updating, caller, restarts, latest, healthy>>
process == <<alive, version>>
environment == <<latest, healthy>>

Path == 0..Depth
Gone == -1
Idle == [pc |-> "idle", found |-> NoFile, target |-> 0, answer |-> "none"]
At(c, pc) == alive /\ caller[c].pc = pc
Goto(c, pc) == caller' = [caller EXCEPT ![c].pc = pc]
Inside(c) == caller[c].pc \notin {"idle", "reporting"}

\* CheckAndUpgrade returns (true, nil), (false, nil) or an error.
Returns(c, answer) == caller' = [caller EXCEPT ![c].pc = "leaving", ![c].answer = answer]

(***************************************************************************)
(* CheckAndUpgrade: the flag, the release, the download.                   *)
(***************************************************************************)
\* The server may ask at any time, through TriggerCheck; Scheduler.Start starts no
\* cron when upgrades are not enabled.
Called(c) == At(c, "idle") /\ (c \in Server \/ Enabled)

Begin(c) ==
  /\ Called(c)
  /\ ~updating
  /\ updating' = TRUE
  /\ caller' = [caller EXCEPT ![c] = [Idle EXCEPT !.pc = "checking"]]
  /\ UNCHANGED <<files, process, image, restarts, environment>>

\* Another call is under way: (false, nil), which handleCheckUpdate takes for
\* "up to date".
Busy(c) ==
  /\ Called(c)
  /\ updating
  /\ caller' = [caller EXCEPT ![c].pc = IF c \in Server THEN "reporting" ELSE "idle",
                            ![c].answer = "current"]
  /\ UNCHANGED <<files, process, image, updating, restarts, environment>>

\* MUTANT of Newer: any other version than the running one is installed.
NewerOrOlder(c) ==
  /\ At(c, "checking")
  /\ latest # version
  /\ caller' = [caller EXCEPT ![c].pc = "downloading", ![c].found = latest]
  /\ UNCHANGED <<files, process, image, updating, restarts, environment>>

\* MUTANT of Newer: the running version counts as newer.
NewerOrEqual(c) ==
  /\ At(c, "checking")
  /\ latest >= version
  /\ caller' = [caller EXCEPT ![c].pc = "downloading", ![c].found = latest]
  /\ UNCHANGED <<files, process, image, updating, restarts, environment>>

\* MUTANT of Newer: the version found is shadowed and not passed on.
NewerUnrecorded(c) ==
  /\ At(c, "checking")
  /\ latest > version
  /\ Goto(c, "downloading")
  /\ UNCHANGED <<files, process, image, updating, restarts, environment>>

\* checkLatestVersion, and isNewerVersion(currentVersion, latest).
Newer(c) ==
  /\ At(c, "checking")
  /\ latest > version
  /\ caller' = [caller EXCEPT ![c].pc = "downloading", ![c].found = latest]
  /\ UNCHANGED <<files, process, image, updating, restarts, environment>>

NotNewer(c) ==
  /\ At(c, "checking")
  /\ latest <= version
  /\ Returns(c, "current")
  /\ UNCHANGED <<files, process, image, updating, restarts, environment>>

\* MUTANT of Fails: a failed download is logged and not returned.
FailsSilently(c) ==
  /\ \E pc \in {"checking", "downloading", "backup"} : At(c, pc)
  /\ ~healthy
  /\ Returns(c, "current")
  /\ UNCHANGED <<files, process, image, updating, restarts, environment>>

\* The check, the download, os.Rename to .old: an error returns.
Fails(c) ==
  /\ \E pc \in {"checking", "downloading", "backup"} : At(c, pc)
  /\ ~healthy
  /\ Returns(c, "failed")
  /\ UNCHANGED <<files, process, image, updating, restarts, environment>>

Downloaded(c) ==
  /\ At(c, "downloading")
  /\ Goto(c, "locating")
  /\ UNCHANGED <<files, process, image, updating, restarts, environment>>

(***************************************************************************)
(* replaceBinary: every file operation is a step.                          *)
(***************************************************************************)
\* EvalSymlinks(os.Executable()) finds the file: it fails once the running image
\* has been deleted.
Locatable == image # Gone /\ files[image] # NoFile

\* The path to replace is known; a stale .old is removed.
Locate(c) ==
  /\ At(c, "locating")
  /\ Locatable
  /\ image < Depth
  /\ caller' = [caller EXCEPT ![c].pc = "backup", ![c].target = image]
  /\ files' = [files EXCEPT ![image + 1] = NoFile]
  /\ UNCHANGED <<process, image, updating, restarts, environment>>

NotLocated(c) ==
  /\ At(c, "locating")
  /\ ~Locatable
  /\ Returns(c, "failed")
  /\ UNCHANGED <<files, process, image, updating, restarts, environment>>

\* os.Rename(from, to): files and, where the kernel follows it, the running image.
Move(from, to) ==
  /\ files' = [files EXCEPT ![to] = files[from], ![from] = NoFile]
  /\ image' = IF FollowsRename /\ image = from THEN to ELSE image

\* os.Rename(currentExe, oldPath)
Backup(c) ==
  /\ At(c, "backup")
  /\ Move(caller[c].target, caller[c].target + 1)
  /\ Goto(c, "installing")
  /\ UNCHANGED <<process, updating, restarts, environment>>

\* os.Rename(newBinaryPath, currentExe)
Install(c) ==
  /\ At(c, "installing")
  /\ files' = [files EXCEPT ![caller[c].target] = caller[c].found]
  /\ Goto(c, "cleanup")
  /\ UNCHANGED <<process, image, updating, restarts, environment>>

\* It fails (say, the download is on another file system): roll back.
InstallFails(c) ==
  /\ At(c, "installing")
  /\ ~healthy
  /\ Goto(c, "rollback")
  /\ UNCHANGED <<files, process, image, updating, restarts, environment>>

\* MUTANT of Rollback: the backup is removed in place of being moved back.
RollbackRemoves(c) ==
  /\ At(c, "rollback")
  /\ files' = [files EXCEPT ![caller[c].target + 1] = NoFile]
  /\ image' = IF FollowsRename THEN Gone ELSE image
  /\ Returns(c, "failed")
  /\ UNCHANGED <<process, updating, restarts, environment>>

Rollback(c) ==
  /\ At(c, "rollback")
  /\ Move(caller[c].target + 1, caller[c].target)
  /\ Returns(c, "failed")
  /\ UNCHANGED <<process, updating, restarts, environment>>

\* The rollback fails too, which is at most logged.
RollbackFails(c) ==
  /\ At(c, "rollback")
  /\ ~healthy
  /\ Returns(c, "failed")
  /\ UNCHANGED <<files, process, image, updating, restarts, environment>>

\* os.Remove(oldPath), whose failure is allowed; then `go u.onRestart()`.
Cleanup(c) ==
  /\ At(c, "cleanup")
  /\ \/ /\ files' = [files EXCEPT ![caller[c].target + 1] = NoFile]
        /\ image' = IF FollowsRename /\ image = caller[c].target + 1 THEN Gone ELSE image
     \/ /\ ~healthy
        /\ UNCHANGED <<files, image>>
  /\ Returns(c, "upgraded")
  /\ restarts' = TRUE
  /\ UNCHANGED <<process, updating, environment>>

\* MUTANT of Leave: a path on which the flag is not reset.
LeaveFlagged(c) ==
  /\ At(c, "leaving")
  /\ Goto(c, IF c \in Server THEN "reporting" ELSE "idle")
  /\ UNCHANGED <<files, process, image, updating, restarts, environment>>

\* The deferred u.updating = false.
Leave(c) ==
  /\ At(c, "leaving")
  /\ updating' = FALSE
  /\ caller' = [caller EXCEPT ![c] = [Idle EXCEPT !.answer = caller[c].answer,
                                 !.pc = IF c \in Server THEN "reporting" ELSE "idle"]]
  /\ UNCHANGED <<files, process, image, restarts, environment>>

\* handleCheckUpdate sends the completion: completed with one of two texts, or
\* failed.  A restart may come first.
Report(c) ==
  /\ At(c, "reporting")
  /\ Goto(c, "idle")
  /\ UNCHANGED <<files, process, image, updating, restarts, environment>>

(***************************************************************************)
(* The process: RestartSelf, crashes, the supervisor.                      *)
(***************************************************************************)
\* A process begins or ends: none of the old one's goroutines goes on.
Fresh ==
  /\ updating' = FALSE
  /\ caller' = [c \in Caller |-> Idle]
  /\ restarts' = FALSE

Boot ==
  /\ files[0] # NoFile
  /\ alive' = TRUE
  /\ version' = files[0]
  /\ image' = 0
  /\ Fresh
  /\ UNCHANGED <<files, environment>>

\* syscall.Exec of os.Args[0] replaces the process, whatever it is doing.
Exec ==
  /\ alive
  /\ restarts
  /\ Boot

\* Exec fails: os.Exit(0).
ExecFails ==
  /\ alive
  /\ restarts
  /\ ~healthy \/ files[0] = NoFile
  /\ alive' = FALSE
  /\ Fresh
  /\ UNCHANGED <<files, version, image, environment>>

\* The process is killed or stopped (main does not wait for a running upgrade),
\* or the host goes down.
Crash ==
  /\ alive
  /\ ~healthy
  /\ alive' = FALSE
  /\ Fresh
  /\ UNCHANGED <<files, version, image, environment>>

\* systemd (or another supervisor) starts the agent again.
Supervise == ~alive /\ Boot

Release ==
  /\ \E v \in Version : latest' = v
  /\ UNCHANGED <<files, process, image, updating, caller, restarts, healthy>>

HealthChanges ==
  /\ healthy' = ~healthy
  /\ UNCHANGED <<files, process, image, updating, caller, restarts, latest>>

Init ==
  /\ \E v \in Version :
       /\ files = [p \in Path |-> IF p = 0 THEN v ELSE NoFile]
       /\ version = v
  /\ alive = TRUE
  /\ image = 0
  /\ updating = FALSE
  /\ caller = [c \in Caller |-> Idle]
  /\ restarts = FALSE
  /\ latest \in Version
  /\ healthy \in BOOLEAN

CallerStep(c) ==
  \/ Newer(c)
  \/ NotNewer(c)
  \/ Fails(c)
  \/ Downloaded(c)
  \/ Locate(c)
  \/ NotLocated(c)
  \/ Backup(c)
  \/ Install(c)
  \/ InstallFails(c)
  \/ Rollback(c)
  \/ RollbackFails(c)
  \/ Cleanup(c)
  \/ Leave(c)
  \/ Report(c)

Next ==
  \/ \E c \in Caller : Begin(c) \/ Busy(c) \/ CallerStep(c)
  \/ Exec
  \/ ExecFails
  \/ Crash
  \/ Supervise
  \/ Release
  \/ HealthChanges

Spec == Init /\ [][Next]_vars

(***************************************************************************)
(* The cron job comes again and again, a call runs to its end (the HTTP    *)
(* client has a timeout), the restart goroutine runs, and the supervisor   *)
(* does its work.                                                          *)
(***************************************************************************)
Fairness ==
  /\ WF_vars(\E c \in Caller \ Server : Begin(c))
  /\ \A c \in Caller : WF_vars(CallerStep(c))
  /\ WF_vars(Exec \/ ExecFails)
  /\ WF_vars(Supervise)

FairSpec == Spec /\ Fairness

(***************************************************************************)
(* Properties.                                                             *)
(***************************************************************************)
\* Every variable has its type, and a caller a found version where it needs one.
TypeOK ==
  /\ files \in [Path -> Version \cup {NoFile}]
  /\ alive \in BOOLEAN
  /\ version \in Version
  /\ image \in Path \cup {Gone}
  /\ updating \in BOOLEAN
  /\ caller \in [Caller -> [pc : {"idle", "checking", "downloading", "locating", "backup",
                                "installing", "rollback", "cleanup", "leaving", "reporting"},
                          found : Version \cup {NoFile}, target : 0..Depth - 1,
                          answer : {"none", "upgraded", "current", "failed"}]]
  /\ \A c \in Caller :
       caller[c].pc \in {"downloading", "locating", "backup", "installing", "rollback", "cleanup"}
         => caller[c].found # NoFile
  /\ restarts \in BOOLEAN
  /\ latest \in Version
  /\ healthy \in BOOLEAN

\* Through upgrades, rollbacks, restarts and crashes, with releases published and
\* withdrawn while calls run, the agent never goes back to an older version.
OnlyForward == [][version' >= version]_vars

\* The agent restarts itself only into a newer version: it does not restart
\* in a loop, and a call that came while a restart was pending has not undone
\* the upgrade (updater.go:119-122).
RestartIsUpgrade == [][alive /\ restarts /\ alive' /\ ~restarts' => version' > version]_vars

\* "Already the latest version" (command_listener.go:399) is told while a newer one
\* is published only if another call is really at work at that moment: never after
\* a call that failed, and never because of a flag left behind.
CurrentUnlessBusy ==
  [][\A c \in Caller :
       caller'[c].answer = "current" /\ caller[c].answer # "current" /\ latest > version
         => \E d \in Caller \ {c} : Inside(d)]_vars

\* Wherever replaceBinary is interrupted, a binary is left on the disk under one
\* of the names it uses (updater.go:325-345).
BinarySurvives == \E p \in Path : files[p] # NoFile

\* Once the release stays the same and nothing fails any more, the agent runs at
\* least that version, unless an earlier accident has left it without executable:
\* no call leaves the flag behind or the upgrade half done.
EventuallyCurrent ==
  \A v \in Version :
    <>[](healthy /\ latest = v) =>
      <>[](alive /\ version >= v) \/ <>[](files[0] = NoFile)

\* updater.go:307 "atomic replacement by rename": whenever the agent is down, its
\* executable is there for the supervisor to start.
StartsAgain == ~alive => files[0] # NoFile
=============================================================================
