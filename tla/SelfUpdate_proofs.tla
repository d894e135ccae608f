-------------------------- MODULE SelfUpdate_proofs --------------------------
(***************************************************************************)
(* Proofs about SelfUpdate for any callers and versions, any depth of      *)
(* ".old" names, and whether or not os.Executable follows a rename: types, *)
(* the version that only goes forward, the restart that is an upgrade, the *)
(* binary that survives, and what "already the latest version" means; and  *)
(* that the versions of module Versions are ordered as numbers are, which  *)
(* is what SelfUpdate takes them for.                                      *)
(***************************************************************************)
EXTENDS SelfUpdate, Versions, TLAPS

(***************************************************************************)
(* The invariant.                                                          *)
(***************************************************************************)
\* One call at a time is between its flag and its deferred reset.
OneInside == \A c, d \in Caller : Inside(c) /\ Inside(d) => c = d
FlagMeansInside == updating <=> \E c \in Caller : Inside(c)

\* What the supervisor could start is not older than the last process.
Forward == files[0] # NoFile => files[0] >= version

\* The executable is newer than the process, or is not there.
Renewed == files[0] # NoFile => files[0] > version
RestartHasReason == restarts \/ image # 0 => Renewed

\* Where the image is once the file at path p was moved to its ".old".
Moved(p) == IF FollowsRename THEN p + 1 ELSE p

HasFound == {"downloading", "locating", "backup", "installing", "rollback", "cleanup"}
CallInv(c) ==
  /\ caller[c].pc \in HasFound => caller[c].found \in Version /\ caller[c].found > version
  /\ caller[c].pc = "backup" => image = caller[c].target /\ files[image] # NoFile
  /\ caller[c].pc \in {"installing", "rollback"} =>
       /\ image = Moved(caller[c].target)
       /\ files[caller[c].target + 1] # NoFile
       /\ caller[c].target = 0
            => files[1] >= version /\ (restarts => files[1] > version)
  /\ caller[c].pc = "cleanup" => Renewed /\ files[caller[c].target] # NoFile

IInv ==
  /\ TypeOK
  /\ OneInside
  /\ FlagMeansInside
  /\ Forward
  /\ RestartHasReason
  /\ BinarySurvives
  /\ \A c \in Caller : CallInv(c)

(***************************************************************************)
(* Types, and what becomes of the caller that takes a step.                *)
(***************************************************************************)
Pcs == {"idle", "checking", "downloading", "locating", "backup", "installing", "rollback",
        "cleanup", "leaving", "reporting"}
Answers == {"none", "upgraded", "current", "failed"}
CallerType == [pc : Pcs, found : Version \cup {NoFile}, target : 0..Depth - 1,
               answer : Answers]
FoundWhereNeeded == \A c \in Caller : caller[c].pc \in HasFound => caller[c].found # NoFile

\* Only c has changed, and is at pc now.
Becomes(c, pc) ==
  /\ caller' \in [Caller -> CallerType]
  /\ \A d \in Caller \ {c} : caller'[d] = caller[d]
  /\ caller'[c].pc = pc

LEMMA CallersTyped == TypeOK => caller \in [Caller -> CallerType] /\ FoundWhereNeeded
BY DEF TypeOK, CallerType, Pcs, Answers, FoundWhereNeeded, HasFound

LEMMA IdleTyped == Idle \in CallerType
BY DepthAssumption DEF Idle, CallerType, Pcs, Answers

\* Goto changes the place of a caller and nothing else.
LEMMA GotoBecomes ==
  ASSUME TypeOK, NEW c \in Caller, NEW pc \in Pcs, Goto(c, pc)
  PROVE  /\ Becomes(c, pc)
         /\ caller'[c].found = caller[c].found
         /\ caller'[c].target = caller[c].target
         /\ caller'[c].answer = caller[c].answer
<1>1. caller' = [caller EXCEPT ![c] = [caller[c] EXCEPT !.pc = pc]]
  BY CallersTyped DEF Goto
<1>2. [caller[c] EXCEPT !.pc = pc] \in CallerType BY CallersTyped DEF CallerType
<1> QED BY <1>1, <1>2, CallersTyped DEF Becomes, CallerType

\* Returns leads to the deferred reset, with the answer given.
LEMMA ReturnsBecomes ==
  ASSUME TypeOK, NEW c \in Caller, NEW answer \in Answers, Returns(c, answer)
  PROVE  Becomes(c, "leaving") /\ caller'[c].answer = answer
<1> DEFINE x == [[caller[c] EXCEPT !.pc = "leaving"] EXCEPT !.answer = answer]
<1>1. caller' = [caller EXCEPT ![c] = x]
  BY CallersTyped DEF Returns
<1>2. [caller[c] EXCEPT !.pc = "leaving"] \in CallerType BY CallersTyped DEF CallerType, Pcs
<1>3. x \in CallerType /\ x.pc = "leaving" /\ x.answer = answer BY <1>2 DEF CallerType
<1> QED BY <1>1, <1>3, CallersTyped DEF Becomes

LEMMA BeginBecomes ==
  ASSUME TypeOK, NEW c \in Caller, Begin(c)
  PROVE  Becomes(c, "checking") /\ caller'[c].answer = "none"
<1>1. [Idle EXCEPT !.pc = "checking"] \in CallerType
  BY IdleTyped DEF CallerType, Pcs
<1> QED BY <1>1, CallersTyped DEF Begin, Becomes, Idle

LEMMA BusyBecomes ==
  ASSUME TypeOK, NEW c \in Caller, Busy(c)
  PROVE  Becomes(c, "idle") \/ Becomes(c, "reporting")
<1> DEFINE pc == IF c \in Server THEN "reporting" ELSE "idle"
           x == [[caller[c] EXCEPT !.pc = pc] EXCEPT !.answer = "current"]
<1>1. caller' = [caller EXCEPT ![c] = x] BY CallersTyped DEF Busy
<1>2. [caller[c] EXCEPT !.pc = pc] \in CallerType BY CallersTyped DEF CallerType, Pcs
<1>3. x \in CallerType /\ x.pc = pc BY <1>2 DEF CallerType, Answers
<1> QED BY <1>1, <1>3, CallersTyped DEF Becomes

LEMMA NewerBecomes ==
  ASSUME TypeOK, NEW c \in Caller, Newer(c)
  PROVE  /\ Becomes(c, "downloading")
         /\ caller'[c].found = latest
         /\ caller'[c].answer = caller[c].answer
<1> DEFINE x == [[caller[c] EXCEPT !.pc = "downloading"] EXCEPT !.found = latest]
<1>1. caller' = [caller EXCEPT ![c] = x] BY CallersTyped DEF Newer
<1>2. [caller[c] EXCEPT !.pc = "downloading"] \in CallerType BY CallersTyped DEF CallerType, Pcs
<1>3. /\ x \in CallerType /\ x.pc = "downloading" /\ x.found = latest
      /\ x.answer = caller[c].answer
  BY <1>2, CallersTyped DEF CallerType, TypeOK
<1> QED BY <1>1, <1>3, CallersTyped DEF Becomes

LEMMA LocateBecomes ==
  ASSUME TypeOK, NEW c \in Caller, Locate(c)
  PROVE  /\ Becomes(c, "backup")
         /\ image \in 0..Depth - 1
         /\ caller'[c].found = caller[c].found
         /\ caller'[c].target = image
         /\ caller'[c].answer = caller[c].answer
<1> DEFINE x == [[caller[c] EXCEPT !.pc = "backup"] EXCEPT !.target = image]
<1>1. caller' = [caller EXCEPT ![c] = x] BY CallersTyped DEF Locate
<1>2. [caller[c] EXCEPT !.pc = "backup"] \in CallerType BY CallersTyped DEF CallerType, Pcs
<1>3. image \in 0..Depth - 1
  BY DepthAssumption DEF Locate, Locatable, TypeOK, Path
<1>4. /\ x \in CallerType /\ x.pc = "backup" /\ x.target = image
      /\ x.found = caller[c].found /\ x.answer = caller[c].answer
  BY <1>2, <1>3, CallersTyped DEF CallerType
<1> QED BY <1>1, <1>3, <1>4, CallersTyped DEF Becomes

LEMMA LeaveBecomes ==
  ASSUME TypeOK, NEW c \in Caller, Leave(c)
  PROVE  /\ Becomes(c, "idle") \/ Becomes(c, "reporting")
         /\ caller'[c].answer = caller[c].answer
<1> DEFINE pc == IF c \in Server THEN "reporting" ELSE "idle"
           x == [[Idle EXCEPT !.answer = caller[c].answer] EXCEPT !.pc = pc]
<1>1. caller' = [caller EXCEPT ![c] = x] BY CallersTyped DEF Leave
<1>2. [Idle EXCEPT !.answer = caller[c].answer] \in CallerType
  BY IdleTyped, CallersTyped DEF CallerType
<1>3. x \in CallerType /\ x.pc = pc /\ x.answer = caller[c].answer
  BY <1>2, IdleTyped DEF CallerType, Pcs
<1> QED BY <1>1, <1>3, CallersTyped DEF Becomes

\* From where to where the steps of CheckAndUpgrade lead.
LEMMA StepBecomes ==
  ASSUME TypeOK, NEW c \in Caller, CallerStep(c)
  PROVE  \/ Inside(c) /\ UNCHANGED updating
            /\ \E pc \in Pcs \ {"idle", "reporting"} : Becomes(c, pc)
         \/ Leave(c)
         \/ Report(c) /\ Becomes(c, "idle")
<1> USE DEF At, Inside, Pcs
<1>1. CASE Newer(c) BY <1>1, NewerBecomes DEF Newer
<1>2. CASE NotNewer(c) BY <1>2, ReturnsBecomes DEF NotNewer, Answers
<1>3. CASE Fails(c) BY <1>3, ReturnsBecomes DEF Fails, Answers
<1>4. CASE Downloaded(c) BY <1>4, GotoBecomes DEF Downloaded
<1>5. CASE Locate(c) BY <1>5, LocateBecomes DEF Locate
<1>6. CASE NotLocated(c) BY <1>6, ReturnsBecomes DEF NotLocated, Answers
<1>7. CASE Backup(c) BY <1>7, GotoBecomes DEF Backup
<1>8. CASE Install(c) BY <1>8, GotoBecomes DEF Install
<1>9. CASE InstallFails(c) BY <1>9, GotoBecomes DEF InstallFails
<1>10. CASE Rollback(c) BY <1>10, ReturnsBecomes DEF Rollback, Answers
<1>11. CASE RollbackFails(c) BY <1>11, ReturnsBecomes DEF RollbackFails, Answers
<1>12. CASE Cleanup(c) BY <1>12, ReturnsBecomes DEF Cleanup, Answers
<1>13. CASE Report(c) BY <1>13, GotoBecomes DEF Report
<1> QED BY <1>1, <1>2, <1>3, <1>4, <1>5, <1>6, <1>7, <1>8, <1>9, <1>10, <1>11, <1>12, <1>13
        DEF CallerStep

LEMMA FilesTyped ==
  TypeOK => /\ files \in [Path -> Version \cup {NoFile}]
            /\ \A p \in 0..Depth - 1 : p \in Path /\ p + 1 \in Path /\ p # p + 1
            /\ 0 \in Path
            /\ \A c \in Caller : caller[c].target \in 0..Depth - 1
BY DepthAssumption, CallersTyped DEF TypeOK, Path, CallerType

LEMMA InitType == Init => TypeOK
<1> SUFFICES ASSUME Init PROVE TypeOK
  OBVIOUS
<1>1. caller \in [Caller -> CallerType] /\ \A c \in Caller : caller[c].pc = "idle"
  BY IdleTyped DEF Init, Idle
<1>2. files \in [Path -> Version \cup {NoFile}] /\ version \in Version BY DEF Init
<1>3. image \in Path \cup {Gone} BY DepthAssumption DEF Init, Path
<1> QED BY <1>1, <1>2, <1>3 DEF Init, TypeOK, CallerType, Pcs, Answers

\* A process that begins is well typed.
LEMMA BootType == TypeOK /\ Boot => TypeOK'
<1> SUFFICES ASSUME TypeOK, Boot PROVE TypeOK'
  OBVIOUS
<1>1. caller' \in [Caller -> CallerType] /\ \A c \in Caller : caller'[c].pc = "idle"
  BY IdleTyped DEF Boot, Fresh, Idle
<1>2. version' \in Version /\ image' \in Path \cup {Gone} BY FilesTyped DEF Boot
<1> QED BY <1>1, <1>2 DEF Boot, Fresh, environment, TypeOK, CallerType, Pcs, Answers

LEMMA NextType == TypeOK /\ [Next]_vars => TypeOK'
<1> SUFFICES ASSUME TypeOK, [Next]_vars PROVE TypeOK'
  OBVIOUS
<1>a. /\ caller' \in [Caller -> CallerType] /\ FoundWhereNeeded'
      /\ UNCHANGED process /\ UNCHANGED environment
      /\ updating' \in BOOLEAN /\ restarts' \in BOOLEAN
      /\ files' \in [Path -> Version \cup {NoFile}] /\ image' \in Path \cup {Gone}
      => TypeOK'
  BY DEF TypeOK, CallerType, Pcs, Answers, FoundWhereNeeded, HasFound, process, environment
<1>1. ASSUME NEW c \in Caller, Begin(c) \/ Busy(c) PROVE TypeOK'
  <2>1. \E pc \in {"checking", "idle", "reporting"} : Becomes(c, pc)
    BY <1>1, BeginBecomes, BusyBecomes
  <2>2. FoundWhereNeeded' BY <2>1, CallersTyped DEF Becomes, FoundWhereNeeded, HasFound
  <2> QED BY <1>1, <1>a, <2>1, <2>2 DEF Begin, Busy, Becomes, TypeOK
<1>2. ASSUME NEW c \in Caller, CallerStep(c) PROVE TypeOK'
  <2>1. \E pc \in Pcs : Becomes(c, pc) BY <1>2, StepBecomes, LeaveBecomes DEF Pcs
  <2>2. FoundWhereNeeded'
    <3>1. caller'[c].pc \in HasFound => caller'[c].found # NoFile
      <4>1. CASE Newer(c) BY <4>1, NewerBecomes, VersionAssumption DEF TypeOK
      <4>2. CASE Downloaded(c) \/ Backup(c) \/ Install(c) \/ InstallFails(c)
        BY <4>2, GotoBecomes, CallersTyped
           DEF Downloaded, Backup, Install, InstallFails, At, FoundWhereNeeded, HasFound, Pcs
      <4>3. CASE Locate(c)
        BY <4>3, LocateBecomes, CallersTyped DEF Locate, At, FoundWhereNeeded, HasFound
      <4>4. CASE \E answer \in Answers : Returns(c, answer)
        BY <4>4, ReturnsBecomes DEF Becomes, HasFound
      <4>5. CASE Leave(c) BY <4>5, LeaveBecomes DEF Becomes, HasFound
      <4>6. CASE Report(c) BY <4>6, GotoBecomes DEF Report, Becomes, HasFound, Pcs
      <4> QED BY <1>2, <4>1, <4>2, <4>3, <4>4, <4>5, <4>6
              DEF CallerStep, NotNewer, Fails, NotLocated, Rollback, RollbackFails, Cleanup,
                  Answers
    <3> QED BY <2>1, <3>1, CallersTyped DEF Becomes, FoundWhereNeeded
  <2>3. UNCHANGED process /\ UNCHANGED environment
    BY <1>2 DEF CallerStep, Newer, NotNewer, Fails, Downloaded, Locate, NotLocated, Backup,
              Install, InstallFails, Rollback, RollbackFails, Cleanup, Leave, Report
  <2>4. updating' \in BOOLEAN /\ restarts' \in BOOLEAN
    BY <1>2 DEF TypeOK, CallerStep, Newer, NotNewer, Fails, Downloaded, Locate, NotLocated,
              Backup, Install, InstallFails, Rollback, RollbackFails, Cleanup, Leave, Report
  <2>5. files' \in [Path -> Version \cup {NoFile}] /\ image' \in Path \cup {Gone}
    <3> DEFINE t == caller[c].target
    <3>1. t \in Path /\ t + 1 \in Path BY FilesTyped
    <3>2. CASE Locate(c)
      BY <3>2, LocateBecomes, FilesTyped DEF Locate, TypeOK
    <3>3. CASE Backup(c) BY <3>1, <3>3, FilesTyped DEF Backup, Move, TypeOK
    <3>4. CASE Install(c)
      <4>1. caller[c].found \in Version \cup {NoFile} BY CallersTyped DEF CallerType
      <4> QED BY <3>1, <3>4, <4>1, FilesTyped DEF Install, TypeOK
    <3>5. CASE Rollback(c) BY <3>1, <3>5, FilesTyped DEF Rollback, Move, TypeOK
    <3>6. CASE Cleanup(c) BY <3>1, <3>6, FilesTyped DEF Cleanup, TypeOK
    <3>7. CASE UNCHANGED <<files, image>> BY <3>7 DEF TypeOK
    <3> QED BY <1>2, <3>2, <3>3, <3>4, <3>5, <3>6, <3>7
            DEF CallerStep, Newer, NotNewer, Fails, Downloaded, NotLocated, InstallFails,
                RollbackFails, Leave, Report
  <2> QED BY <1>a, <2>1, <2>2, <2>3, <2>4, <2>5 DEF Becomes
<1>3. CASE Exec \/ Supervise BY <1>3, BootType DEF Exec, Supervise
<1>4. CASE ExecFails \/ Crash
  <2>1. caller' \in [Caller -> CallerType] /\ \A c \in Caller : caller'[c].pc = "idle"
    BY <1>4, IdleTyped DEF ExecFails, Crash, Fresh, Idle
  <2> QED BY <1>4, <2>1
          DEF ExecFails, Crash, Fresh, environment, TypeOK, CallerType, Pcs, Answers
<1>5. CASE Release \/ HealthChanges BY <1>5 DEF Release, HealthChanges, process, TypeOK
<1>6. CASE UNCHANGED vars BY <1>6 DEF vars, process, environment, TypeOK
<1> QED BY <1>1, <1>2, <1>3, <1>4, <1>5, <1>6 DEF Next

\* Every variable keeps its type.
THEOREM TypeCorrect == Spec => []TypeOK
BY InitType, NextType, PTL DEF Spec

(***************************************************************************)
(* The flag.                                                               *)
(***************************************************************************)
\* The flag keeps the calls apart, and is set for no longer than a call lasts.
LEMMA FlagKept ==
  ASSUME TypeOK, OneInside, FlagMeansInside, [Next]_vars
  PROVE  OneInside' /\ FlagMeansInside'
<1> USE DEF OneInside, FlagMeansInside, Inside
<1>1. ASSUME NEW c \in Caller, Begin(c) PROVE OneInside' /\ FlagMeansInside'
  <2>1. Becomes(c, "checking") /\ updating' /\ ~updating
    BY <1>1, BeginBecomes DEF Begin
  <2> QED BY <2>1 DEF Becomes
<1>2. ASSUME NEW c \in Caller, Busy(c) PROVE OneInside' /\ FlagMeansInside'
  <2>1. UNCHANGED updating /\ ~Inside(c) BY <1>2 DEF Busy, Called, At
  <2>2. ~Inside(c)' /\ \A d \in Caller \ {c} : caller'[d] = caller[d]
    BY <1>2, BusyBecomes DEF Becomes
  <2> QED BY <2>1, <2>2
<1>3. ASSUME NEW c \in Caller, CallerStep(c) PROVE OneInside' /\ FlagMeansInside'
  <2>1. CASE /\ Inside(c) /\ UNCHANGED updating
             /\ \E pc \in Pcs \ {"idle", "reporting"} : Becomes(c, pc)
    BY <2>1 DEF Becomes
  <2>2. CASE Leave(c)
    <3>1. Inside(c) /\ ~updating' BY <2>2 DEF Leave, At
    <3>2. ~Inside(c)' /\ \A d \in Caller \ {c} : caller'[d] = caller[d]
      BY <2>2, LeaveBecomes DEF Becomes
    <3> QED BY <3>1, <3>2
  <2>3. CASE Report(c) /\ Becomes(c, "idle") BY <2>3 DEF Report, At, Becomes
  <2> QED BY <1>3, <2>1, <2>2, <2>3, StepBecomes
<1>4. CASE Exec \/ Supervise \/ ExecFails \/ Crash
  <2>1. Fresh BY <1>4 DEF Exec, Supervise, Boot, ExecFails, Crash
  <2> QED BY <2>1 DEF Fresh, Idle
<1>5. CASE Release \/ HealthChanges \/ UNCHANGED vars
  BY <1>5 DEF Release, HealthChanges, vars
<1> QED BY <1>1, <1>2, <1>3, <1>4, <1>5 DEF Next

(***************************************************************************)
(* The steps that leave the files alone.                                   *)
(***************************************************************************)
\* What is known of the files and of a caller that stays, when neither changes.
LEMMA FilesAlone ==
  ASSUME IInv, UNCHANGED <<files, image, version, restarts>>
  PROVE  /\ Forward' /\ RestartHasReason' /\ BinarySurvives' /\ (Renewed <=> Renewed')
         /\ \A c \in Caller : caller'[c] = caller[c] => CallInv(c)'
         /\ \A c \in Caller : caller'[c].pc \notin HasFound => CallInv(c)'
<1>1. Forward' /\ RestartHasReason' /\ BinarySurvives' /\ (Renewed <=> Renewed')
  BY DEF IInv, Forward, RestartHasReason, BinarySurvives, Renewed
<1>2. \A c \in Caller : caller'[c] = caller[c] => CallInv(c)'
  BY <1>1 DEF IInv, CallInv
<1>3. \A c \in Caller : caller'[c].pc \notin HasFound => CallInv(c)'
  BY DEF CallInv, HasFound
<1> QED BY <1>1, <1>2, <1>3

LEMMA FilesAloneSteps ==
  ASSUME IInv, NEW c \in Caller,
         \/ Begin(c) \/ Busy(c) \/ Newer(c) \/ NotNewer(c) \/ Fails(c) \/ Downloaded(c)
         \/ NotLocated(c) \/ InstallFails(c) \/ RollbackFails(c) \/ Leave(c) \/ Report(c)
  PROVE  Forward' /\ RestartHasReason' /\ BinarySurvives' /\ \A d \in Caller : CallInv(d)'
<1>a. TypeOK BY DEF IInv
<1>u. UNCHANGED <<files, image, version, restarts>>
  BY DEF Begin, Busy, Newer, NotNewer, Fails, Downloaded, NotLocated, InstallFails,
         RollbackFails, Leave, Report, process
<1>1. /\ \A d \in Caller \ {c} : caller'[d] = caller[d]
      /\ CallInv(c)'
  <2>1. CASE \E pc \in {"idle", "checking", "leaving", "reporting"} : Becomes(c, pc)
    BY <2>1, <1>u, FilesAlone DEF Becomes, HasFound
  <2>2. CASE Newer(c)
    <3>1. /\ Becomes(c, "downloading") /\ caller'[c].found = latest
          /\ latest > version /\ latest \in Version
      BY <2>2, <1>a, NewerBecomes DEF Newer, TypeOK
    <3> QED BY <3>1, <1>u DEF Becomes, CallInv, HasFound
  <2>3. CASE Downloaded(c)
    <3>1. Becomes(c, "locating") /\ caller'[c].found = caller[c].found
      BY <2>3, <1>a, GotoBecomes DEF Downloaded, Pcs
    <3>2. caller[c].pc = "downloading" BY <2>3 DEF Downloaded, At
    <3> QED BY <3>1, <3>2, <1>u DEF Becomes, IInv, CallInv, HasFound
  <2>4. CASE InstallFails(c)
    <3>1. /\ Becomes(c, "rollback") /\ caller'[c].found = caller[c].found
          /\ caller'[c].target = caller[c].target
      BY <2>4, <1>a, GotoBecomes DEF InstallFails, Pcs
    <3>2. caller[c].pc = "installing" BY <2>4 DEF InstallFails, At
    <3> QED BY <3>1, <3>2, <1>u DEF Becomes, IInv, CallInv, HasFound
  <2>5. CASE \E answer \in Answers : Returns(c, answer)
    BY <2>1, <2>5, <1>a, ReturnsBecomes
  <2>6. CASE Begin(c) \/ Busy(c) \/ Leave(c) \/ Report(c)
    <3>1. Report(c) => Becomes(c, "idle") BY <1>a, GotoBecomes DEF Report, Pcs
    <3> QED BY <2>1, <2>6, <3>1, <1>a, BeginBecomes, BusyBecomes, LeaveBecomes
  <2> QED BY <2>2, <2>3, <2>4, <2>5, <2>6
          DEF NotNewer, Fails, NotLocated, RollbackFails, Answers
<1>2. \A d \in Caller : CallInv(d)' BY <1>1, <1>u, FilesAlone
<1> QED BY <1>2, <1>u, FilesAlone

(***************************************************************************)
(* The steps of replaceBinary that change the files: nobody else is inside.*)
(***************************************************************************)
\* The others are between two calls, and nothing is claimed of them.
LEMMA OthersOutside ==
  ASSUME IInv, NEW c \in Caller, Inside(c), NEW pc \in Pcs, Becomes(c, pc)
  PROVE  \A d \in Caller \ {c} : CallInv(d)'
<1>1. \A d \in Caller \ {c} : caller'[d].pc \in {"idle", "reporting"}
  BY DEF IInv, OneInside, Inside, Becomes
<1> QED BY <1>1 DEF CallInv, HasFound

LEMMA LocateKeeps ==
  ASSUME IInv, NEW c \in Caller, Locate(c)
  PROVE  Forward' /\ RestartHasReason' /\ BinarySurvives' /\ \A d \in Caller : CallInv(d)'
<1>1. /\ TypeOK /\ Inside(c) /\ caller[c].pc = "locating" /\ files[image] # NoFile
      /\ files' = [files EXCEPT ![image + 1] = NoFile]
      /\ UNCHANGED <<image, version, restarts>>
  BY DEF IInv, Locate, Locatable, At, Inside, process
<1>2. /\ Becomes(c, "backup") /\ image \in 0..Depth - 1
      /\ caller'[c].found = caller[c].found /\ caller'[c].target = image
  BY <1>1, LocateBecomes
<1>3. /\ image \in Path /\ files'[image] = files[image]
      /\ 0 \in Path /\ files'[0] = files[0]
  BY <1>1, <1>2, FilesTyped
<1>4. CallInv(c)' BY <1>1, <1>2, <1>3 DEF Becomes, IInv, CallInv, HasFound
<1>5. Forward' /\ RestartHasReason' BY <1>1, <1>3 DEF IInv, Forward, RestartHasReason, Renewed
<1>6. BinarySurvives' BY <1>1, <1>3 DEF BinarySurvives
<1> QED BY <1>1, <1>2, <1>4, <1>5, <1>6, OthersOutside DEF Pcs

LEMMA BackupKeeps ==
  ASSUME IInv, NEW c \in Caller, Backup(c)
  PROVE  Forward' /\ RestartHasReason' /\ BinarySurvives' /\ \A d \in Caller : CallInv(d)'
<1> DEFINE t == caller[c].target
<1>1. /\ TypeOK /\ Inside(c) /\ caller[c].pc = "backup" /\ Move(t, t + 1)
      /\ image = t /\ files[t] # NoFile
      /\ UNCHANGED <<version, restarts>>
  BY DEF IInv, Backup, At, Inside, CallInv, process
<1>2. Becomes(c, "installing") /\ caller'[c].found = caller[c].found /\ caller'[c].target = t
  BY <1>1, GotoBecomes DEF Backup, Pcs
<1>3. t \in 0..Depth - 1 /\ t \in Path /\ t + 1 \in Path /\ 0 \in Path BY <1>1, FilesTyped
<1>4. /\ files'[t + 1] = files[t]
      /\ files'[0] = IF t = 0 THEN NoFile ELSE files[0]
      /\ image' = Moved(t)
  BY <1>1, <1>3, FilesTyped DEF Move, Moved
<1>5. CallInv(c)'
  <2>1. t = 0 => files'[1] >= version /\ (restarts => files'[1] > version)
    BY <1>1, <1>4 DEF IInv, Forward, RestartHasReason, Renewed
  <2> QED BY <1>1, <1>2, <1>4, <2>1 DEF Becomes, IInv, CallInv, HasFound, Moved
<1>6. Forward' /\ RestartHasReason'
  BY <1>1, <1>4 DEF IInv, Forward, RestartHasReason, Renewed
<1>7. BinarySurvives' BY <1>1, <1>3, <1>4 DEF BinarySurvives
<1> QED BY <1>1, <1>2, <1>5, <1>6, <1>7, OthersOutside DEF Pcs

LEMMA InstallKeeps ==
  ASSUME IInv, NEW c \in Caller, Install(c)
  PROVE  Forward' /\ RestartHasReason' /\ BinarySurvives' /\ \A d \in Caller : CallInv(d)'
<1> DEFINE t == caller[c].target
           found == caller[c].found
<1>1. /\ TypeOK /\ Inside(c) /\ caller[c].pc = "installing" /\ image = Moved(t)
      /\ found \in Version /\ found > version
      /\ files' = [files EXCEPT ![t] = found]
      /\ UNCHANGED <<image, version, restarts>>
  BY DEF IInv, Install, At, Inside, CallInv, HasFound, process
<1>2. Becomes(c, "cleanup") /\ caller'[c].found = found /\ caller'[c].target = t
  BY <1>1, GotoBecomes DEF Install, Pcs
<1>3. t \in 0..Depth - 1 /\ t \in Path /\ 0 \in Path BY <1>1, FilesTyped
<1>4. files'[t] = found /\ found # NoFile /\ files'[0] = IF t = 0 THEN found ELSE files[0]
  BY <1>1, <1>3, FilesTyped, VersionAssumption
<1>5. Renewed'
  <2>1. CASE t = 0 BY <1>1, <1>4, <2>1 DEF Renewed
  <2>2. CASE t # 0
    <3>1. image # 0 BY <1>1, <1>3, <2>2 DEF Moved
    <3> QED BY <1>1, <1>4, <2>2, <3>1 DEF IInv, RestartHasReason, Renewed
  <2> QED BY <2>1, <2>2
<1>6. CallInv(c)' BY <1>1, <1>2, <1>4, <1>5 DEF Becomes, CallInv, HasFound
<1>7. Forward'
  <2>1. found \in Nat /\ version \in Nat BY <1>1, VersionAssumption DEF TypeOK
  <2>2. Forward BY DEF IInv
  <2> QED BY <1>1, <1>4, <2>1, <2>2 DEF Forward
<1>8. RestartHasReason' BY <1>5 DEF RestartHasReason
<1>9. BinarySurvives' BY <1>3, <1>4 DEF BinarySurvives
<1> QED BY <1>1, <1>2, <1>6, <1>7, <1>8, <1>9, OthersOutside DEF Pcs

LEMMA RollbackKeeps ==
  ASSUME IInv, NEW c \in Caller, Rollback(c)
  PROVE  Forward' /\ RestartHasReason' /\ BinarySurvives' /\ \A d \in Caller : CallInv(d)'
<1> DEFINE t == caller[c].target
<1>1. /\ TypeOK /\ Inside(c) /\ caller[c].pc = "rollback" /\ Move(t + 1, t)
      /\ image = Moved(t) /\ files[t + 1] # NoFile
      /\ t = 0 => files[1] >= version /\ (restarts => files[1] > version)
      /\ UNCHANGED <<version, restarts>>
  BY DEF IInv, Rollback, At, Inside, CallInv, process
<1>2. Becomes(c, "leaving") BY <1>1, ReturnsBecomes DEF Rollback, Answers
<1>3. t \in 0..Depth - 1 /\ t \in Path /\ t + 1 \in Path /\ 0 \in Path BY <1>1, FilesTyped
<1>4. /\ files'[t] = files[t + 1]
      /\ files'[0] = IF t = 0 THEN files[1] ELSE files[0]
      /\ image' = t
  BY <1>1, <1>3, FilesTyped DEF Move, Moved
<1>5. CallInv(c)' BY <1>2 DEF Becomes, CallInv, HasFound
<1>6. Forward' BY <1>1, <1>4 DEF IInv, Forward
<1>7. RestartHasReason'
  <2>1. CASE t = 0 BY <1>1, <1>4, <2>1 DEF RestartHasReason, Renewed
  <2>2. CASE t # 0
    <3>1. image # 0 BY <1>1, <1>3, <2>2 DEF Moved
    <3> QED BY <1>1, <1>4, <2>2, <3>1 DEF IInv, RestartHasReason, Renewed
  <2> QED BY <2>1, <2>2
<1>8. BinarySurvives' BY <1>1, <1>3, <1>4 DEF BinarySurvives
<1> QED BY <1>1, <1>2, <1>5, <1>6, <1>7, <1>8, OthersOutside DEF Pcs

LEMMA CleanupKeeps ==
  ASSUME IInv, NEW c \in Caller, Cleanup(c)
  PROVE  Forward' /\ RestartHasReason' /\ BinarySurvives' /\ \A d \in Caller : CallInv(d)'
<1> DEFINE t == caller[c].target
<1>1. /\ TypeOK /\ Inside(c) /\ Renewed /\ files[t] # NoFile
      /\ files' = files \/ files' = [files EXCEPT ![t + 1] = NoFile]
      /\ UNCHANGED version
  BY DEF IInv, Cleanup, At, Inside, CallInv, process
<1>2. Becomes(c, "leaving") BY <1>1, ReturnsBecomes DEF Cleanup, Answers
<1>3. t \in 0..Depth - 1 /\ t \in Path /\ 0 \in Path BY <1>1, FilesTyped
<1>4. files'[t] = files[t] /\ files'[0] = files[0] BY <1>1, <1>3, FilesTyped
<1>5. CallInv(c)' BY <1>2 DEF Becomes, CallInv, HasFound
<1>6. Forward' /\ RestartHasReason'
  BY <1>1, <1>4 DEF IInv, Forward, RestartHasReason, Renewed
<1>7. BinarySurvives' BY <1>1, <1>3, <1>4 DEF BinarySurvives
<1> QED BY <1>1, <1>2, <1>5, <1>6, <1>7, OthersOutside DEF Pcs

(***************************************************************************)
(* The process, and all steps together.                                    *)
(***************************************************************************)
LEMMA InitIInv == Init => IInv
<1> SUFFICES ASSUME Init PROVE IInv
  OBVIOUS
<1>1. TypeOK BY InitType
<1>2. /\ 0 \in Path /\ files[0] = version /\ files[0] # NoFile /\ version \in Nat
      /\ ~updating /\ ~restarts /\ image = 0
      /\ \A c \in Caller : caller[c].pc = "idle"
  BY <1>1, FilesTyped, VersionAssumption DEF Init, Idle
<1>3. OneInside /\ FlagMeansInside BY <1>2 DEF OneInside, FlagMeansInside, Inside
<1>4. Forward /\ RestartHasReason /\ BinarySurvives
  BY <1>2 DEF Forward, RestartHasReason, BinarySurvives
<1>5. \A c \in Caller : CallInv(c) BY <1>2 DEF CallInv, HasFound
<1> QED BY <1>1, <1>3, <1>4, <1>5 DEF IInv

\* A process that begins is what its executable is, and has no call under way.
LEMMA BootKeeps ==
  ASSUME IInv, Boot
  PROVE  Forward' /\ RestartHasReason' /\ BinarySurvives' /\ \A d \in Caller : CallInv(d)'
<1>1. /\ version' = files[0] /\ files' = files /\ image' = 0 /\ ~restarts'
      /\ \A c \in Caller : caller'[c].pc = "idle"
  BY DEF Boot, Fresh, Idle
<1>2. files[0] \in Nat BY FilesTyped, VersionAssumption DEF Boot, IInv
<1>3. \A d \in Caller : CallInv(d)' BY <1>1 DEF CallInv, HasFound
<1>4. Forward' /\ RestartHasReason' BY <1>1, <1>2 DEF Forward, RestartHasReason
<1>5. BinarySurvives' BY <1>1 DEF IInv, BinarySurvives
<1> QED BY <1>3, <1>4, <1>5

LEMMA NextIInv == IInv /\ [Next]_vars => IInv'
<1> SUFFICES ASSUME IInv, [Next]_vars PROVE IInv'
  OBVIOUS
<1>t. TypeOK' /\ OneInside' /\ FlagMeansInside' BY NextType, FlagKept DEF IInv
<1> SUFFICES Forward' /\ RestartHasReason' /\ BinarySurvives' /\ \A d \in Caller : CallInv(d)'
  BY <1>t DEF IInv
<1>1. ASSUME NEW c \in Caller, Begin(c) \/ Busy(c) \/ CallerStep(c)
      PROVE  Forward' /\ RestartHasReason' /\ BinarySurvives' /\ \A d \in Caller : CallInv(d)'
  BY <1>1, FilesAloneSteps, LocateKeeps, BackupKeeps, InstallKeeps, RollbackKeeps, CleanupKeeps
     DEF CallerStep
<1>2. CASE Exec \/ Supervise BY <1>2, BootKeeps DEF Exec, Supervise
<1>3. CASE ExecFails \/ Crash
  <2>1. /\ UNCHANGED <<files, image, version>> /\ ~restarts'
        /\ \A c \in Caller : caller'[c].pc = "idle"
    BY <1>3 DEF ExecFails, Crash, Fresh, Idle
  <2>2. \A d \in Caller : CallInv(d)' BY <2>1 DEF CallInv, HasFound
  <2> QED BY <2>1, <2>2
          DEF IInv, Forward, RestartHasReason, Renewed, BinarySurvives
<1>4. CASE Release \/ HealthChanges \/ UNCHANGED vars
  BY <1>4, FilesAlone DEF Release, HealthChanges, vars, process
<1> QED BY <1>1, <1>2, <1>3, <1>4 DEF Next

LEMMA Invariant == Spec => []IInv
BY InitIInv, NextIInv, PTL DEF Spec

(***************************************************************************)
(* What follows.                                                           *)
(***************************************************************************)
\* Whatever rename of replaceBinary is interrupted, a binary is left under one of the
\* names it uses.
THEOREM BinaryAlwaysSurvives == Spec => []BinarySurvives
<1>1. IInv => BinarySurvives BY DEF IInv
<1> QED BY <1>1, Invariant, PTL

\* version changes when a process begins, and then to what its executable is.
LEMMA VersionSteps ==
  ASSUME [Next]_vars
  PROVE  Boot \/ UNCHANGED version
BY DEF Next, Begin, Busy, CallerStep, Newer, NotNewer, Fails, Downloaded, Locate, NotLocated,
       Backup, Install, InstallFails, Rollback, RollbackFails, Cleanup, Leave, Report,
       Exec, ExecFails, Crash, Supervise, Release, HealthChanges, process, vars

\* Through upgrades, rollbacks, restarts and crashes no process runs an older version
\* than the one before it.
THEOREM NeverBackward == Spec => OnlyForward
<1>1. IInv /\ [Next]_vars => [version' >= version]_vars
  <2> SUFFICES ASSUME IInv, [Next]_vars PROVE version' >= version
    OBVIOUS
  <2>1. version \in Nat BY VersionAssumption DEF IInv, TypeOK
  <2>2. CASE Boot BY <2>2 DEF Boot, IInv, Forward
  <2>3. CASE UNCHANGED version BY <2>1, <2>3
  <2> QED BY <2>2, <2>3, VersionSteps
<1> QED BY <1>1, Invariant, PTL DEF Spec, OnlyForward

\* RestartSelf replaces the process by a newer one only: no loop of restarts, and no
\* later call undoes what the restart is for.
THEOREM RestartsUpgrade == Spec => RestartIsUpgrade
<1>1. IInv /\ [Next]_vars
        => [alive /\ restarts /\ alive' /\ ~restarts' => version' > version]_vars
  <2> SUFFICES ASSUME IInv, Next, alive, restarts, alive', ~restarts'
               PROVE  version' > version
    OBVIOUS
  <2>1. Boot
    BY DEF Next, Begin, Busy, CallerStep, Newer, NotNewer, Fails, Downloaded, Locate,
           NotLocated, Backup, Install, InstallFails, Rollback, RollbackFails, Cleanup, Leave,
           Report, Exec, ExecFails, Crash, Supervise, Release, HealthChanges
  <2> QED BY <2>1 DEF Boot, IInv, RestartHasReason, Renewed
<1> QED BY <1>1, Invariant, PTL DEF Spec, RestartIsUpgrade

\* A caller is told that the agent is current, while a newer version is published, only
\* when it met another call at work: the flag is never a leftover.
THEOREM CurrentIsTrue == Spec => CurrentUnlessBusy
<1> DEFINE Told == \A c \in Caller :
             caller'[c].answer = "current" /\ caller[c].answer # "current" /\ latest > version
               => \E d \in Caller \ {c} : Inside(d)
<1>1. IInv /\ [Next]_vars => [Told]_vars
  <2> SUFFICES ASSUME IInv, Next, NEW c \in Caller,
                      caller'[c].answer = "current", caller[c].answer # "current",
                      latest > version
               PROVE  \E d \in Caller \ {c} : Inside(d)
    OBVIOUS
  <2>a. TypeOK BY DEF IInv
  <2>b. latest \in Nat /\ version \in Nat BY <2>a, VersionAssumption DEF TypeOK
  <2>1. CASE Busy(c) BY <2>1 DEF Busy, Called, At, Inside, IInv, FlagMeansInside
  <2>2. ASSUME NEW d \in Caller, Begin(d) \/ Busy(d) \/ CallerStep(d), d # c PROVE FALSE
    <3>1. caller'[c] = caller[c]
      BY <2>2, <2>a, BeginBecomes, BusyBecomes, StepBecomes, LeaveBecomes DEF Becomes
    <3> QED BY <3>1
  <2>3. CASE Begin(c) BY <2>3, <2>a, BeginBecomes
  <2>4. CASE CallerStep(c)
    <3>1. \A pc \in Pcs : Goto(c, pc) => FALSE BY <2>a, GotoBecomes
    <3>2. \A answer \in Answers : Returns(c, answer) => answer = "current"
      BY <2>a, ReturnsBecomes
    <3>3. ~NotNewer(c) BY <2>b DEF NotNewer
    <3>4. ~Newer(c) /\ ~Locate(c) /\ ~Leave(c)
      BY <2>a, NewerBecomes, LocateBecomes, LeaveBecomes
    <3> QED BY <2>4, <3>1, <3>2, <3>3, <3>4
            DEF CallerStep, Fails, Downloaded, NotLocated, Backup, Install, InstallFails,
                Rollback, RollbackFails, Cleanup, Report, Pcs, Answers
  <2>5. CASE Exec \/ ExecFails \/ Crash \/ Supervise
    BY <2>5 DEF Exec, ExecFails, Crash, Supervise, Boot, Fresh, Idle
  <2>6. CASE Release \/ HealthChanges BY <2>6 DEF Release, HealthChanges
  <2> QED BY <2>1, <2>2, <2>3, <2>4, <2>5, <2>6 DEF Next
<1> QED BY <1>1, Invariant, PTL DEF Spec, CurrentUnlessBusy

-----------------------------------------------------------------------------
(***************************************************************************)
(* Versions, for every set of them.  Two parts that differ decide, so      *)
(* comparing three numbers one by one is comparing one number; that needs  *)
(* a bound on the parts.                                                   *)
(***************************************************************************)
\* A version whose numbers are below Base.
Small(w) ==
  /\ w \in [v : Nat, fields : Seq([n : Nat \cup {Text}, more : BOOLEAN])]
  /\ \A i \in 1..Len(w.fields) : w.fields[i].n < Base

LEMMA NormalSmall ==
  ASSUME NEW w, Small(w)
  PROVE  Small(NormalizeVersion(w)) /\ NormalizeVersion(w).fields = w.fields
BY DEF Small, NormalizeVersion

LEMMA InSequence ==
  ASSUME NEW S, NEW s \in Seq(S), NEW i \in 1..Len(s)
  PROVE  s[i] \in S
OBVIOUS

\* What is scanned is a small number.
LEMMA ScannedSmall ==
  ASSUME NEW w, Small(w), NEW i \in 1..3, Scanned(w, i)
  PROVE  w.fields[i].n \in 0..999
<1> DEFINE field == w.fields[i]
<1>1. i \in 1..Len(w.fields)
  BY DEF Scanned, Small
<1>2. field \in [n : Nat \cup {Text}, more : BOOLEAN]
  BY <1>1, InSequence DEF Small
<1>3. field.n < 1000
  BY <1>1 DEF Small, Base
<1>4. field.n # Text
  BY DEF Scanned
<1> HIDE DEF field
<1>5. field.n \in Nat
  BY <1>2, <1>4
<1>6. field.n \in 0..999
  BY <1>3, <1>5
<1> QED
  BY <1>6 DEF field

\* Whatever Sscanf meets, the parts are numbers (updater.go:385).
LEMMA PartsSmall ==
  ASSUME NEW w, Small(w)
  PROVE  ParseVersionParts(w) \in [1..3 -> 0..999]
<1>1. Small(NormalizeVersion(w))
  BY NormalSmall
<1>2. \A i \in 1..3 :
        Scanned(NormalizeVersion(w), i) => NormalizeVersion(w).fields[i].n \in 0..999
  BY <1>1, ScannedSmall, ZenonT(60)
<1> DEFINE part(i) == IF Scanned(NormalizeVersion(w), i) THEN NormalizeVersion(w).fields[i].n ELSE 0
<1>3. \A i \in 1..3 : part(i) \in 0..999
  <2> TAKE i \in 1..3
  <2>1. CASE Scanned(NormalizeVersion(w), i)
    <3>1. part(i) = NormalizeVersion(w).fields[i].n
      BY <2>1
    <3> QED
      BY <1>2, <2>1, <3>1, ZenonT(60)
  <2>2. CASE ~Scanned(NormalizeVersion(w), i)
    <3>1. part(i) = 0
      BY <2>2
    <3> HIDE DEF part
    <3> QED
      BY <3>1
  <2> QED
    BY <2>1, <2>2
<1>4. ParseVersionParts(w) = [i \in 1..3 |-> part(i)]
  BY DEF ParseVersionParts
<1> HIDE DEF part
<1> QED
  BY <1>3, <1>4

\* The first part that differs decides which of two numbers is greater.
LEMMA LexicographicIsNumeric ==
  ASSUME NEW p \in [1..3 -> 0..999], NEW q \in [1..3 -> 0..999]
  PROVE  NewerParts(q, p) <=>
           (p[1] * Base + p[2]) * Base + p[3] < (q[1] * Base + q[2]) * Base + q[3]
<1> DEFINE a == p[1]  b == p[2]  c == p[3]
           d == q[1]  e == q[2]  f == q[3]
<1>1. /\ a \in 0..999 /\ b \in 0..999 /\ c \in 0..999
      /\ d \in 0..999 /\ e \in 0..999 /\ f \in 0..999
  BY SMTT(30)
<1>2. NewerParts(q, p) <=> d > a \/ (d = a /\ e > b) \/ (d = a /\ e = b /\ f > c)
  BY <1>1, SMTT(30) DEF NewerParts
<1> HIDE DEF a, b, c, d, e, f
<1>3. (d > a \/ (d = a /\ e > b) \/ (d = a /\ e = b /\ f > c))
        <=> (a * 1000 + b) * 1000 + c < (d * 1000 + e) * 1000 + f
  BY <1>1
<1> QED
  BY <1>2, <1>3 DEF Base, a, b, c, d, e, f

\* The parts of a plain version are its fields.
LEMMA PlainIsRead ==
  ASSUME NEW w, Small(w), Plain(w), NEW i \in 1..3
  PROVE  ParseVersionParts(w)[i] = IF i <= Len(w.fields) THEN w.fields[i].n ELSE 0
<1> DEFINE normal == NormalizeVersion(w)
<1>1. normal.fields = w.fields /\ normal.v = 0
  BY NormalSmall DEF Plain, Small, NormalizeVersion
<1>2. DOMAIN w.fields = 1..Len(w.fields) /\ Len(w.fields) \in Nat
  BY DEF Small
<1> HIDE DEF normal
<1>3. Scanned(normal, i) <=> i <= Len(w.fields)
  BY <1>1, <1>2 DEF Scanned, Plain
<1>4. ParseVersionParts(w)[i] = IF Scanned(normal, i) THEN normal.fields[i].n ELSE 0
  BY DEF ParseVersionParts, normal
<1> QED
  BY <1>1, <1>3, <1>4

\* What a version is worth is what was parsed.
LEMMA WorthIsParsed ==
  ASSUME NEW w, Small(w), NEW i \in 1..3
  PROVE  Worth(w, i) = ParseVersionParts(w)[i]
BY PlainIsRead DEF Worth

LEMMA OrderOfSmall ==
  ASSUME NEW old, NEW new, Small(old), Small(new)
  PROVE  IsNewerVersion(old, new) <=> Rank(old) < Rank(new)
<1> DEFINE p == ParseVersionParts(old)  q == ParseVersionParts(new)
           number(x) == (x[1] * Base + x[2]) * Base + x[3]
<1>1. p \in [1..3 -> 0..999] /\ q \in [1..3 -> 0..999]
  BY PartsSmall
<1>2. Rank(old) = number(p) /\ Rank(new) = number(q)
  BY WorthIsParsed DEF Rank
<1>3. IsNewerVersion(old, new) <=> NewerParts(q, p)
  BY DEF IsNewerVersion
<1> HIDE DEF p, q
<1>4. \A x, y \in [1..3 -> 0..999] : NewerParts(y, x) <=> number(x) < number(y)
  BY LexicographicIsNumeric
<1> HIDE DEF number
<1> QED
  BY <1>1, <1>2, <1>3, <1>4

\* Versions whose parts are below Base are ordered as their ranks are: isNewerVersion
\* (updater.go:369) is a strict order, total up to what it does not look at; it reads the
\* plain ones as they are written, and module SelfUpdate may count versions.
THEOREM VersionsAreOrdered ==
  ASSUME \A w \in Written : Small(w)
  PROVE  ComparisonSpec => []NewerIsGreater
<1> DEFINE BothSmall == Small(current) /\ Small(offered)
<1>0. \A w \in Written : Small(NormalizeVersion(w))
  BY NormalSmall
<1>1. ComparisonInit => BothSmall
  BY <1>0 DEF ComparisonInit
<1>2. BothSmall /\ [ComparisonNext]_comparison => BothSmall'
  <2> SUFFICES ASSUME BothSmall, [ComparisonNext]_comparison
               PROVE  BothSmall'
    OBVIOUS
  <2>1. CASE Offer
    BY <1>0, <2>1 DEF Offer
  <2>2. CASE Upgrade
    BY <2>2 DEF Upgrade
  <2>3. CASE UNCHANGED comparison
    BY <2>3 DEF comparison
  <2> QED
    BY <2>1, <2>2, <2>3 DEF ComparisonNext
<1>3. BothSmall => NewerIsGreater
  BY OrderOfSmall DEF NewerIsGreater
<1> QED
  BY <1>1, <1>2, <1>3, PTL DEF ComparisonSpec
=============================================================================
